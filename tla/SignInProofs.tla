----------------------------- MODULE SignInProofs -----------------------------
(**************************************************************************  *)
(* What holds of signing in for any number of accounts, browsers, sessions   *)
(* and requests under way; of the upload page for any files, chunks,         *)
(* presses, sessions and options, whatever is lost, dies and is deleted;     *)
(* of the pages of the files and of the short URLs for any of these, any     *)
(* tabs and any calls of theirs; and of the pages of the settings for        *)
(* whatever is entered in forms that are not another tab's.                  *)
(**************************************************************************  *)
EXTENDS MCDashboard, WellFoundedInduction, FiniteSetTheorems, TLAPS

(* What a request carries.                                                   *)
Asked == [pc: {"login", "passkey", "auth", "save", "act"}, act: Doings \union {"signIn"},
          user: User \union {None}, code: Nat, secret: Nat, key: Key \union {None},
          over: 0..MaxSessions]

Typed == TypeOK /\ req \in [Browser -> Asked \union {Idle}]

(* What a request knows of the browser it came from.  A sign-in saves a      *)
(* session of its own; every other request goes on with the session its      *)
(* cookie named when it was checked, and that row has had one owner only.    *)
Knows(b) ==
    LET r == req[b]
        mine(u) == u \in User /\ cookie[b] # 0 /\ session[cookie[b]] \in {u, Ended}
    IN  /\ r.pc \in {"login", "passkey"} => r.act = "signIn"
        /\ r.pc \in {"auth", "act"} => r.act # "signIn"
        /\ r.act = "signIn" => r.over = 0 /\ (r.pc = "save" => r.user \in User)
        /\ r.pc = "passkey" => cookie[b] = 0
        /\ r.act # "signIn" /\ r.pc \in {"save", "act"} => mine(r.user) /\ r.over = cookie[b]
        /\ r.act = "enable" /\ r.pc = "auth" =>
              page[b].at = "dashboard" /\ r.code \in scanned[page[b].user]
        /\ r.act = "enable" /\ r.pc = "act" => r.code = r.secret /\ r.code \in scanned[r.user]
        /\ r.act = "saveKey" /\ r.pc = "auth" => r.code = 0
        /\ r.act = "saveKey" => r.key \in Key

(* What a browser holds: its cookie names a row that was there, and its      *)
(* dashboard is that of the row's owner.                                     *)
Holds(b) ==
    /\ cookie[b] # 0 => session[cookie[b]] # None
    /\ page[b].at = "dashboard" =>
          page[b].user \in User /\ cookie[b] # 0 /\ session[cookie[b]] \in {page[b].user, Ended}
    /\ as[b] # None => Owner(cookie[b]) = as[b]

Browses(b) == Holds(b) /\ (req[b] # Idle => Knows(b))

(* A passkey that is verified and not stored yet.                            *)
Pending(b, u) == req[b].pc = "act" /\ req[b].act = "saveKey" /\ req[b].code = 1 /\ req[b].user = u

(* Every challenge is in one place: cached, with a passkey that waits to     *)
(* be stored, or with one that is stored.                                    *)
Challenges(u) ==
    /\ challenge[u] <= drawn.challenges
    /\ \A k \in keys[u] : k.challenge <= drawn.challenges /\ k.challenge # challenge[u]
    /\ \A b \in Browser : Pending(b, u) =>
          /\ req[b].key.challenge <= drawn.challenges /\ req[b].key.challenge # challenge[u]
          /\ \A k \in keys[u] : k.challenge # req[b].key.challenge
          /\ \A c \in Browser : Pending(c, u) /\ c # b => req[c].key.challenge # req[b].key.challenge

Inv ==
    /\ Typed
    /\ \A b \in Browser : Browses(b)
    /\ \A u \in User : Challenges(u)
    /\ NeverLockedOut /\ OneKeyPerChallenge

-----------------------------------------------------------------------------
(* Steps of a browser, as the other browsers see them.                       *)
Shown == [at: {"login", "dashboard"}, form: {"idle", "busy", "code"},
          user: User \union {None}, totp: 0..MaxSecrets, pin: {"closed", "open", "busy"},
          qr: 0..MaxSecrets, made: 0..MaxChallenges]

RowsOnlyEnd == \A s \in SessionId : session[s] # None => session'[s] \in {session[s], Ended}
SecretsStay == \A u \in User : scanned[u] \subseteq scanned'[u]
KeysStay == keys' = keys /\ challenge' = challenge /\ drawn'.challenges = drawn.challenges

SeenFrom(b) ==
    /\ cookie'[b] = cookie[b] /\ req'[b] = req[b] /\ page'[b] = page[b]
    /\ as'[b] # None => as'[b] = as[b] /\ session'[cookie[b]] = session[cookie[b]]
OthersStay(b) == \A c \in Browser \ {b} : SeenFrom(c)
Waits(b) == \A u \in User : Pending(b, u)' => req'[b] = req[b]

(* What a browser knows and holds survives the steps of another.             *)
LEMMA SeenKeeps ==
    ASSUME SignInAssumption, Typed, Typed', NEW b \in Browser, Browses(b), SeenFrom(b),
           RowsOnlyEnd, SecretsStay
    PROVE  Browses(b)'
<1>1. cookie[b] \in 0..MaxSessions /\ (cookie[b] # 0 => cookie[b] \in SessionId) /\ MaxSessions \in Nat
  BY DEF Typed, TypeOK, SignInAssumption, SessionId
<1>2. None # Ended /\ None \notin User /\ Ended \notin User
  BY DEF SignInAssumption
<1>3. ASSUME NEW u \in User, cookie[b] # 0, session[cookie[b]] \in {u, Ended}
      PROVE  session'[cookie[b]] \in {u, Ended}
  BY <1>1, <1>2, <1>3 DEF RowsOnlyEnd
<1>4. Holds(b)'
  <2>1. cookie[b] # 0 => session'[cookie[b]] # None
    BY <1>1, <1>2 DEF Browses, Holds, RowsOnlyEnd
  <2>2. page[b].at = "dashboard" =>
          page[b].user \in User /\ cookie[b] # 0 /\ session'[cookie[b]] \in {page[b].user, Ended}
    BY <1>3 DEF Browses, Holds
  <2>3. as'[b] # None => Owner(cookie[b])' = as'[b]
    BY <1>1, <1>2 DEF Browses, Holds, Owner, SeenFrom
  <2> QED
    BY <2>1, <2>2, <2>3 DEF Holds, SeenFrom, Owner
<1>5. req[b] # Idle => Knows(b)'
  <2> SUFFICES ASSUME req[b] # Idle PROVE Knows(b)'
    OBVIOUS
  <2>1. req[b] \in Asked
    BY DEF Typed
  <2>2. \A u \in User : scanned[u] \subseteq scanned'[u]
    BY DEF SecretsStay
  <2>3. req[b].act # "signIn" /\ req[b].pc \in {"save", "act"} =>
          /\ req[b].user \in User /\ cookie[b] # 0 /\ session'[cookie[b]] \in {req[b].user, Ended}
          /\ req[b].over = cookie[b]
    BY <1>3 DEF Browses, Knows
  <2>4. req[b].act = "enable" /\ req[b].pc = "auth" =>
          page[b].at = "dashboard" /\ req[b].code \in scanned'[page[b].user]
    BY <2>2 DEF Browses, Knows, Holds
  <2>5. req[b].act = "enable" /\ req[b].pc = "act" =>
          req[b].code = req[b].secret /\ req[b].code \in scanned'[req[b].user]
    BY <2>2, <2>3 DEF Browses, Knows
  <2> QED
    BY <2>3, <2>4, <2>5 DEF Browses, Knows, SeenFrom
<1> QED
  BY <1>4, <1>5 DEF Browses, SeenFrom

(* Passkeys and challenges that nobody touches stay in order, as long as     *)
(* no request takes a challenge.                                             *)
LEMMA KeysKeep ==
    ASSUME Inv, KeysStay, NEW b \in Browser, OthersStay(b), Waits(b)
    PROVE  (\A u \in User : Challenges(u)') /\ OneKeyPerChallenge'
<1>1. OneKeyPerChallenge'
  BY DEF Inv, OneKeyPerChallenge, KeysStay
<1>2. ASSUME NEW u \in User PROVE Challenges(u)'
  <2>1. \A c \in Browser : Pending(c, u)' => Pending(c, u) /\ req'[c] = req[c]
    BY DEF OthersStay, SeenFrom, Waits, Pending
  <2>2. Challenges(u)
    BY DEF Inv
  <2> QED
    BY <2>1, <2>2 DEF Challenges, KeysStay
<1> QED
  BY <1>1, <1>2

(* A step of one browser that leaves secrets, passkeys and challenges        *)
(* alone keeps the invariant if that browser is in order after it.           *)
LEMMA StepKeeps ==
    ASSUME SignInAssumption, Inv, Typed', NEW b \in Browser, OthersStay(b), RowsOnlyEnd,
           KeysStay, totp' = totp, scanned' = scanned, Waits(b), Browses(b)'
    PROVE  Inv'
<1>1. \A c \in Browser : Browses(c)'
  <2>1. ASSUME NEW c \in Browser, c # b PROVE Browses(c)'
    BY <2>1, SeenKeeps DEF Inv, OthersStay, SecretsStay
  <2> QED
    BY <2>1
<1>2. NeverLockedOut'
  BY DEF Inv, NeverLockedOut
<1> QED
  BY <1>1, <1>2, KeysKeep DEF Inv

-----------------------------------------------------------------------------
(* What a step does to the functions of browsers.                            *)
LEMMA ShowTypes ==
    ASSUME Typed, NEW b \in Browser, NEW p \in Shown, Show(b, p)
    PROVE  /\ page' \in [Browser -> Shown] /\ page'[b] = p
           /\ \A c \in Browser \ {b} : page'[c] = page[c]
BY DEF Typed, TypeOK, Show, Shown

LEMMA GotoTypes ==
    ASSUME Typed, NEW b \in Browser, NEW q \in Asked \union {Idle}, Goto(b, q)
    PROVE  /\ req' \in [Browser -> Asked \union {Idle}] /\ req'[b] = q
           /\ \A c \in Browser \ {b} : req'[c] = req[c]
BY DEF Typed, Goto

LEMMA AskedTypes ==
    ASSUME Typed, NEW b \in Browser
    PROVE  /\ page[b] \in Shown /\ page = [page EXCEPT ![b] = page[b]]
           /\ req[b] \in Asked \union {Idle} /\ req = [req EXCEPT ![b] = req[b]]
           /\ req[b] # Idle => req[b] \in Asked
BY DEF Typed, TypeOK, Shown

(* A browser shows something else and asks something else, and the rest of   *)
(* the state stays: the common form of most steps.                           *)
LEMMA Turn ==
    ASSUME SignInAssumption, Inv, NEW b \in Browser, NEW p \in Shown, NEW q \in Asked \union {Idle},
           Show(b, p), Goto(b, q), UNCHANGED <<session, cookie, as, others>>,
           p.at = "dashboard" => page[b].at = "dashboard" /\ p.user = page[b].user,
           ~(q.pc = "act" /\ q.act = "saveKey" /\ q.code = 1),
           q # Idle => Knows(b)'
    PROVE  Inv'
<1>1. Typed /\ Browses(b)
  BY DEF Inv
<1>2. page' \in [Browser -> Shown] /\ page'[b] = p /\ \A c \in Browser \ {b} : page'[c] = page[c]
  BY <1>1, ShowTypes
<1>3. req' \in [Browser -> Asked \union {Idle}] /\ req'[b] = q /\ \A c \in Browser \ {b} : req'[c] = req[c]
  BY <1>1, GotoTypes
<1>4. Typed'
  <2>1. \A c \in Browser : req'[c] = Idle \/ req'[c].pc \in Begun \union {"save", "act"}
    BY <1>3 DEF Asked, Begun
  <2> QED
    BY <1>1, <1>2, <1>3, <2>1 DEF Typed, TypeOK, Shown, others
<1>5. OthersStay(b)
  BY <1>2, <1>3 DEF OthersStay, SeenFrom
<1>6. RowsOnlyEnd /\ KeysStay /\ totp' = totp /\ scanned' = scanned
  BY DEF RowsOnlyEnd, KeysStay, others
<1>7. Waits(b)
  BY <1>3 DEF Waits, Pending
<1>8. Holds(b)'
  BY <1>1, <1>2 DEF Browses, Holds, Owner
<1> QED
  BY <1>1, <1>3, <1>4, <1>5, <1>6, <1>7, <1>8, StepKeeps DEF Browses

(* An error leaves the browser where it was.                                 *)
LEMMA FailedTypes ==
    ASSUME SignInAssumption, NEW b \in Browser, page[b] \in Shown
    PROVE  Failed(b) \in Shown /\ Failed(b).at = page[b].at /\ Failed(b).user = page[b].user
<1> DEFINE f == IF page[b].form = "busy" THEN (IF req[b].code # 0 THEN "code" ELSE "idle")
                ELSE page[b].form
           g == IF page[b].pin = "busy" THEN "open" ELSE page[b].pin
           m == IF req[b].act = "saveKey" THEN 0 ELSE page[b].made
<1>1. Failed(b) = [page[b] EXCEPT !.form = f, !.pin = g, !.made = m]
  BY DEF Failed
<1>2. f \in {"idle", "busy", "code"} /\ g \in {"closed", "open", "busy"}
  BY DEF Shown
<1>3. m \in 0..MaxChallenges
  BY DEF Shown, SignInAssumption
<1> HIDE DEF f, g, m
<1> QED
  BY <1>1, <1>2, <1>3 DEF Shown

LEMMA FailsKeeps ==
    ASSUME SignInAssumption, Inv, NEW b \in Browser, Fails(b), UNCHANGED <<session, cookie, as, others>>
    PROVE  Inv'
<1>1. page[b] \in Shown
  BY AskedTypes DEF Inv
<1>2. Failed(b) \in Shown /\ Failed(b).at = page[b].at /\ Failed(b).user = page[b].user
  BY <1>1, FailedTypes
<1>3. Show(b, Failed(b)) /\ Goto(b, Idle)
  BY DEF Fails, Answered
<1>4. Idle.pc # "act" /\ Idle \in Asked \union {Idle}
  BY DEF Idle
<1> QED
  BY <1>2, <1>3, <1>4, Turn

-----------------------------------------------------------------------------
(* The steps of the browsers.                                                *)

(* A new request with the page as it is, or another form state on it.        *)
LEMMA AsksKeeps ==
    ASSUME SignInAssumption, Inv, NEW b \in Browser, NEW q \in Asked, NEW p \in Shown,
           Ask(b, q), Show(b, p), UNCHANGED <<session, cookie, as, others>>,
           p.at = page[b].at, p.user = page[b].user, q.pc # "act", Knows(b)'
    PROVE  Inv'
<1>1. Goto(b, q)
  BY DEF Ask, Goto
<1> QED
  BY <1>1, Turn

LEMMA RequestTypes ==
    ASSUME SignInAssumption,
           NEW pc \in {"login", "passkey", "auth"}, NEW act \in Doings \union {"signIn"}
    PROVE  /\ Request(pc, act) \in Asked
           /\ Request(pc, act).pc = pc /\ Request(pc, act).act = act
           /\ Request(pc, act).over = 0 /\ Request(pc, act).code = 0
BY DEF Request, Asked, SignInAssumption

(* What is written into a request as it is made.                             *)
LEMMA FilledTypes ==
    ASSUME NEW r \in Asked, NEW u \in User \union {None}, NEW n \in Nat, NEW m \in Nat,
           NEW k \in Key \union {None}
    PROVE  /\ [r EXCEPT !.user = u, !.code = n] \in Asked
           /\ [r EXCEPT !.code = n, !.secret = m] \in Asked
           /\ [r EXCEPT !.key = k] \in Asked
           /\ [r EXCEPT !.secret = m] \in Asked
BY DEF Asked

LEMMA SubmitLoginKeeps ==
    ASSUME SignInAssumption, Inv, NEW b \in Browser, NEW u \in User, NEW correct \in BOOLEAN,
           NEW code \in {0} \union scanned[u], SubmitLogin(b, u, correct, code)
    PROVE  Inv'
<1> DEFINE q == [Request("login", "signIn") EXCEPT !.user = IF correct THEN u ELSE None, !.code = code]
           p == [page[b] EXCEPT !.form = "busy"]
<1>1. Typed /\ page[b] \in Shown
  BY AskedTypes DEF Inv
<1>2. code \in Nat
  BY <1>1 DEF Typed, TypeOK, Secret
<1>3. q \in Asked /\ q.pc = "login" /\ q.act = "signIn" /\ q.over = 0
  <2> DEFINE r == Request("login", "signIn")
  <2>1. r \in Asked /\ r.pc = "login" /\ r.act = "signIn" /\ r.over = 0
    BY RequestTypes
  <2> HIDE DEF r
  <2>2. q = [r EXCEPT !.user = IF correct THEN u ELSE None, !.code = code]
    BY DEF r
  <2>3. q \in Asked
    BY <1>2, <2>1, <2>2, FilledTypes
  <2> QED
    BY <2>1, <2>2, <2>3 DEF Asked
<1>4. p \in Shown /\ p.at = page[b].at /\ p.user = page[b].user
  BY <1>1 DEF Shown
<1>5. Ask(b, q) /\ Show(b, p) /\ UNCHANGED <<session, cookie, as, others>>
  BY DEF SubmitLogin
<1> HIDE DEF q, p
<1>6. req'[b] = q
  BY <1>1, <1>3, <1>5 DEF Ask, Typed
<1>7. Knows(b)'
  BY <1>3, <1>6 DEF Knows
<1> QED
  BY <1>3, <1>4, <1>5, <1>7, AsksKeeps

LEMMA SubmitPasskeyKeeps ==
    ASSUME SignInAssumption, ~PasskeyOver, Inv, NEW b \in Browser, NEW k \in Key, SubmitPasskey(b, k)
    PROVE  Inv'
<1> DEFINE q == [Request("passkey", "signIn") EXCEPT !.key = k]
           p == [page[b] EXCEPT !.form = "busy"]
<1>1. Typed /\ page[b] \in Shown
  BY AskedTypes DEF Inv
<1>2. q \in Asked /\ q.pc = "passkey" /\ q.act = "signIn" /\ q.over = 0
  BY RequestTypes DEF Asked
<1>3. p \in Shown /\ p.at = page[b].at /\ p.user = page[b].user
  BY <1>1 DEF Shown
<1>4. Ask(b, q) /\ Show(b, p) /\ UNCHANGED <<session, cookie, as, others>> /\ cookie[b] = 0
  BY DEF SubmitPasskey
<1> HIDE DEF q, p
<1>5. req'[b] = q
  BY <1>1, <1>2, <1>4 DEF Ask, Typed
<1>6. Knows(b)'
  BY <1>2, <1>4, <1>5 DEF Knows
<1> QED
  BY <1>2, <1>3, <1>4, <1>6, AsksKeeps

(* A request of a signed-in page.                                            *)
LEMMA ActKeeps ==
    ASSUME SignInAssumption, Inv, NEW b \in Browser, NEW q \in Asked, NEW p \in Shown,
           Act(b, q), Show(b, p), p.at = page[b].at, p.user = page[b].user,
           q.pc = "auth", q.act \in Doings,
           q.act = "enable" => q.code \in scanned[page[b].user],
           q.act = "saveKey" => q.code = 0 /\ q.key \in Key
    PROVE  Inv'
<1>1. Typed /\ page[b] \in Shown
  BY AskedTypes DEF Inv
<1>2. Ask(b, q) /\ page[b].at = "dashboard" /\ UNCHANGED <<session, cookie, as, others>>
  BY DEF Act
<1>3. req'[b] = q /\ page'[b] = p /\ scanned' = scanned
  BY <1>1, <1>2, ShowTypes DEF Ask, Typed, others
<1>4. q.act # "signIn"
  BY DEF Doings
<1>5. Knows(b)'
  BY <1>2, <1>3, <1>4 DEF Knows
<1> QED
  BY <1>2, <1>5, AsksKeeps

LEMMA SamePage ==
    ASSUME Typed, NEW b \in Browser, UNCHANGED page
    PROVE  page[b] \in Shown /\ Show(b, page[b])
BY AskedTypes DEF Show

LEMMA ClickKeeps ==
    ASSUME SignInAssumption, Inv, NEW b \in Browser, NEW act, Click(b, act)
    PROVE  Inv'
<1> DEFINE q == Request("auth", act)
<1>1. act \in Doings /\ act # "enable" /\ act # "saveKey"
  BY DEF Click, Doings
<1>2. q \in Asked /\ q.pc = "auth" /\ q.act = act
  BY <1>1, RequestTypes
<1>3. page[b] \in Shown /\ Show(b, page[b])
  BY SamePage DEF Inv, Click
<1>4. Act(b, q)
  BY DEF Click
<1> HIDE DEF q
<1> QED
  BY <1>1, <1>2, <1>3, <1>4, ActKeeps

LEMMA EndSessionKeeps ==
    ASSUME SignInAssumption, Inv, NEW b \in Browser, NEW s \in SessionId, EndSession(b, s)
    PROVE  Inv'
<1> DEFINE q == [Request("auth", "endOne") EXCEPT !.secret = s]
<1>1. q \in Asked /\ q.pc = "auth" /\ q.act = "endOne"
  BY RequestTypes DEF Asked, Doings, SessionId
<1>2. page[b] \in Shown /\ Show(b, page[b])
  BY SamePage DEF Inv, EndSession
<1>3. Act(b, q)
  BY DEF EndSession
<1> HIDE DEF q
<1> QED
  BY <1>1, <1>2, <1>3, ActKeeps DEF Doings

LEMMA RemoveKeyKeeps ==
    ASSUME SignInAssumption, Inv, NEW b \in Browser, NEW k \in Key, RemoveKey(b, k)
    PROVE  Inv'
<1> DEFINE q == [Request("auth", "removeKey") EXCEPT !.key = k]
<1>1. q \in Asked /\ q.pc = "auth" /\ q.act = "removeKey"
  BY RequestTypes DEF Asked, Doings
<1>2. page[b] \in Shown /\ Show(b, page[b])
  BY SamePage DEF Inv, RemoveKey
<1>3. Act(b, q)
  BY DEF RemoveKey
<1> HIDE DEF q
<1> QED
  BY <1>1, <1>2, <1>3, ActKeeps DEF Doings

LEMMA SaveKeyKeeps ==
    ASSUME SignInAssumption, Inv, NEW b \in Browser, SaveKey(b)
    PROVE  Inv'
<1> DEFINE k == [challenge |-> page[b].made, made |-> b]
           q == [Request("auth", "saveKey") EXCEPT !.key = k]
<1>1. page[b] \in Shown /\ Show(b, page[b])
  BY SamePage DEF Inv, SaveKey
<1>2. k \in Key
  BY <1>1 DEF Key, Shown, SaveKey, SignInAssumption
<1>3. q \in Asked /\ q.pc = "auth" /\ q.act = "saveKey" /\ q.code = 0 /\ q.key = k
  <2> DEFINE r == Request("auth", "saveKey")
  <2>1. r \in Asked /\ r.pc = "auth" /\ r.act = "saveKey" /\ r.code = 0
    BY RequestTypes DEF Doings
  <2> HIDE DEF r, k
  <2>2. q = [r EXCEPT !.key = k]
    BY DEF r
  <2>3. q \in Asked
    BY <1>2, <2>1, <2>2, FilledTypes
  <2> QED
    BY <2>1, <2>2, <2>3 DEF Asked
<1>4. Act(b, q)
  BY DEF SaveKey
<1> HIDE DEF q, k
<1> QED
  BY <1>1, <1>2, <1>3, <1>4, ActKeeps DEF Doings

LEMMA HandlePinChangeKeeps ==
    ASSUME SignInAssumption, Inv, NEW b \in Browser, NEW code \in Secret, HandlePinChange(b, code)
    PROVE  Inv'
<1> DEFINE act == IF page[b].totp = 0 THEN "enable" ELSE "disable"
           q == [Request("auth", act) EXCEPT !.code = code, !.secret = page[b].qr]
           p == [page[b] EXCEPT !.pin = "busy"]
<1>1. page[b] \in Shown
  BY AskedTypes DEF Inv
<1>2. act \in Doings /\ act # "saveKey"
  BY DEF Doings
<1>3. q \in Asked /\ q.pc = "auth" /\ q.act = act /\ q.code = code
  <2> DEFINE r == Request("auth", act)
  <2>1. r \in Asked /\ r.pc = "auth" /\ r.act = act
    BY <1>2, RequestTypes
  <2> HIDE DEF r, act
  <2>2. q = [r EXCEPT !.code = code, !.secret = page[b].qr]
    BY DEF r
  <2>3. code \in Nat /\ page[b].qr \in Nat
    BY <1>1 DEF Secret, Shown, SignInAssumption
  <2>4. q \in Asked
    BY <2>1, <2>2, <2>3, FilledTypes
  <2> QED
    BY <2>1, <2>2, <2>4 DEF Asked
<1>4. p \in Shown /\ p.at = page[b].at /\ p.user = page[b].user
  BY <1>1 DEF Shown
<1>5. Act(b, q) /\ Show(b, p) /\ code \in scanned[page[b].user]
  BY DEF HandlePinChange
<1> HIDE DEF q, p, act
<1> QED
  BY <1>2, <1>3, <1>4, <1>5, ActKeeps

-----------------------------------------------------------------------------
(* Steps in which a browser asks for nothing.                                *)
LEMMA LooksKeeps ==
    ASSUME SignInAssumption, Inv, NEW b \in Browser, NEW p \in Shown, Show(b, p),
           UNCHANGED <<session, cookie, as, req, others>>,
           p.at = "dashboard" =>
               p.user \in User /\ cookie[b] # 0 /\ session[cookie[b]] \in {p.user, Ended},
           req[b] = Idle \/ (p.at = page[b].at /\ p.user = page[b].user)
    PROVE  Inv'
<1>1. Typed /\ Browses(b)
  BY DEF Inv
<1>2. page' \in [Browser -> Shown] /\ page'[b] = p /\ \A c \in Browser \ {b} : page'[c] = page[c]
  BY <1>1, ShowTypes
<1>3. Typed'
  BY <1>1, <1>2 DEF Typed, TypeOK, Shown, others
<1>4. OthersStay(b) /\ Waits(b)
  BY <1>2 DEF OthersStay, SeenFrom, Waits
<1>5. RowsOnlyEnd /\ KeysStay /\ totp' = totp /\ scanned' = scanned
  BY DEF RowsOnlyEnd, KeysStay, others
<1>6. Holds(b)'
  BY <1>1, <1>2 DEF Browses, Holds, Owner
<1>7. req'[b] # Idle => Knows(b)'
  BY <1>1, <1>2, <1>5 DEF Browses, Knows
<1> QED
  BY <1>3, <1>4, <1>5, <1>6, <1>7, StepKeeps DEF Browses

LEMMA HoldsPage ==
    ASSUME Inv, NEW b \in Browser
    PROVE  /\ page[b] \in Shown
           /\ page[b].at = "dashboard" =>
                  page[b].user \in User /\ cookie[b] # 0 /\ session[cookie[b]] \in {page[b].user, Ended}
<1>1. Typed /\ Browses(b)
  BY DEF Inv
<1> QED
  BY <1>1, AskedTypes DEF Browses, Holds

LEMMA CancelCodeKeeps ==
    ASSUME SignInAssumption, Inv, NEW b \in Browser, CancelCode(b)
    PROVE  Inv'
<1> DEFINE p == [page[b] EXCEPT !.form = "idle"]
<1>1. p \in Shown /\ p.at = page[b].at /\ p.user = page[b].user
  BY HoldsPage DEF Shown
<1>2. Show(b, p) /\ UNCHANGED <<session, cookie, as, req, others>>
  BY DEF CancelCode
<1> HIDE DEF p
<1> QED
  BY <1>1, <1>2, HoldsPage, LooksKeeps

LEMMA TotpOpenKeeps ==
    ASSUME SignInAssumption, Inv, NEW b \in Browser, NEW open \in BOOLEAN, TotpOpen(b, open)
    PROVE  Inv'
<1> DEFINE p == [page[b] EXCEPT !.pin = IF open THEN "open" ELSE "closed"]
<1>1. p \in Shown /\ p.at = page[b].at /\ p.user = page[b].user
  BY HoldsPage DEF Shown
<1>2. Show(b, p) /\ UNCHANGED <<session, cookie, as, req, others>>
  BY DEF TotpOpen
<1> HIDE DEF p
<1> QED
  BY <1>1, <1>2, HoldsPage, LooksKeeps

LEMMA LoginPageTypes ==
    ASSUME SignInAssumption
    PROVE  LoginPage \in Shown /\ LoginPage.at = "login"
BY DEF LoginPage, Shown, SignInAssumption

LEMMA VisitKeeps ==
    ASSUME SignInAssumption, Inv, NEW b \in Browser, Visit(b)
    PROVE  Inv'
<1> DEFINE u == Owner(cookie[b])
           d == [page[b] EXCEPT !.at = "dashboard", !.form = "idle", !.user = u, !.totp = totp[u]]
           p == IF u = None THEN LoginPage ELSE d
<1>1. Show(b, p) /\ req[b] = Idle /\ UNCHANGED <<session, cookie, as, req, others>>
  BY DEF Visit
<1>2. u # None => u \in User /\ cookie[b] # 0 /\ session[cookie[b]] = u
  BY DEF Owner
<1>3. page[b] \in Shown
  BY HoldsPage
<1>4. u # None => totp[u] \in 0..MaxSecrets
  BY <1>2 DEF Inv, Typed, TypeOK
<1> HIDE DEF u
<1>5. u # None => d \in Shown /\ d.at = "dashboard" /\ d.user = u
  BY <1>2, <1>3, <1>4 DEF Shown
<1> HIDE DEF d
<1>6. /\ p \in Shown
      /\ p.at = "dashboard" => p.user \in User /\ cookie[b] # 0 /\ session[cookie[b]] = p.user
  BY <1>2, <1>5, LoginPageTypes
<1> HIDE DEF p
<1> QED
  BY <1>1, <1>6, LooksKeeps

(* What an authenticator knows only grows.                                   *)
LEMMA ScanKeeps ==
    ASSUME SignInAssumption, Inv, NEW b \in Browser, Scan(b)
    PROVE  Inv'
<1>1. Typed /\ page[b] \in Shown
  BY HoldsPage DEF Inv
<1>2. page[b].qr \in Secret
  BY <1>1 DEF Scan, Shown, Secret, SignInAssumption
<1>3. scanned' \in [User -> SUBSET Secret] /\ SecretsStay
  <2>1. scanned \in [User -> SUBSET Secret]
    BY <1>1 DEF Typed, TypeOK
  <2>2. scanned' = [scanned EXCEPT ![page[b].user] = @ \union {page[b].qr}]
    BY DEF Scan
  <2> QED
    BY <1>2, <2>1, <2>2 DEF SecretsStay
<1>4. Typed'
  BY <1>1, <1>3 DEF Typed, TypeOK, Scan
<1>5. RowsOnlyEnd /\ (\A c \in Browser : SeenFrom(c))
  BY DEF RowsOnlyEnd, SeenFrom, Scan
<1>6. \A c \in Browser : Browses(c)'
  BY <1>1, <1>3, <1>4, <1>5, SeenKeeps DEF Inv
<1>7. \A u \in User : Challenges(u)'
  BY DEF Inv, Challenges, Pending, Scan
<1>8. NeverLockedOut' /\ OneKeyPerChallenge'
  BY <1>3 DEF Inv, NeverLockedOut, OneKeyPerChallenge, SecretsStay, Scan
<1> QED
  BY <1>4, <1>6, <1>7, <1>8 DEF Inv

LEMMA UseKeeps ==
    ASSUME SignInAssumption, ~PasskeyOver, Inv, NEW b \in Browser, Use(b)
    PROVE  Inv'
BY SubmitLoginKeeps, SubmitPasskeyKeeps, ClickKeeps, EndSessionKeeps, RemoveKeyKeeps, SaveKeyKeeps,
   HandlePinChangeKeeps, CancelCodeKeeps, TotpOpenKeeps, VisitKeeps, ScanKeeps DEF Use

-----------------------------------------------------------------------------
(* The steps of the server.                                                  *)
LEMMA Working ==
    ASSUME Inv, NEW b \in Browser, req[b].pc # "idle"
    PROVE  /\ req[b] \in Asked /\ Knows(b) /\ Holds(b) /\ page[b] \in Shown
           /\ cookie[b] \in 0..MaxSessions /\ (cookie[b] # 0 => cookie[b] \in SessionId)
<1>1. Typed /\ Browses(b)
  BY DEF Inv
<1>2. req[b] # Idle
  BY DEF Idle
<1>3. cookie[b] \in 0..MaxSessions /\ (cookie[b] # 0 => cookie[b] \in SessionId)
  BY <1>1 DEF Typed, TypeOK, SessionId
<1> QED
  BY <1>1, <1>2, <1>3, AskedTypes DEF Browses

(* What a request carries from one step to the next.                         *)
LEMMA CarriedTypes ==
    ASSUME NEW r \in Asked, NEW pc \in {"save", "act"}, NEW u \in User, NEW s \in 0..MaxSessions
    PROVE  /\ [r EXCEPT !.pc = pc] \in Asked
           /\ [r EXCEPT !.pc = pc, !.user = u, !.over = s] \in Asked
           /\ [r EXCEPT !.code = 1] \in Asked
BY DEF Asked

LEMMA LoginKeeps ==
    ASSUME SignInAssumption, Inv, NEW b \in Browser, Login(b)
    PROVE  Inv'
<1>1. /\ req[b].pc = "login" /\ req[b] \in Asked /\ Knows(b) /\ page[b] \in Shown
      /\ UNCHANGED <<session, cookie, as, others>>
  BY Working DEF Login
<1>2. CASE Fails(b)
  BY <1>1, <1>2, FailsKeeps
<1>3. CASE Show(b, [page[b] EXCEPT !.form = "code"]) /\ Answered(b)
  <2> DEFINE p == [page[b] EXCEPT !.form = "code"]
  <2>1. p \in Shown /\ p.at = page[b].at /\ p.user = page[b].user
    BY <1>1 DEF Shown
  <2>2. Idle \in Asked \union {Idle} /\ Idle.pc # "act" /\ Goto(b, Idle)
    BY <1>3 DEF Idle, Answered
  <2> HIDE DEF p
  <2> QED
    BY <1>1, <1>3, <2>1, <2>2, Turn DEF p
<1>4. CASE req[b].user # None /\ Goto(b, [req[b] EXCEPT !.pc = "save"]) /\ UNCHANGED page
  <2> DEFINE q == [req[b] EXCEPT !.pc = "save"]
  <2>1. /\ q \in Asked /\ q.pc = "save" /\ q.act = "signIn" /\ q.over = 0 /\ q.user \in User
        /\ q.user = req[b].user
    BY <1>1, <1>4 DEF Asked, Knows
  <2> HIDE DEF q
  <2>2. Goto(b, q) /\ Show(b, page[b])
    BY <1>4, SamePage DEF Inv, q
  <2>3. req'[b] = q
    BY <2>1, <2>2, GotoTypes DEF Inv
  <2>4. Knows(b)'
    BY <2>1, <2>3 DEF Knows
  <2> QED
    BY <1>1, <2>1, <2>2, <2>4, Turn
<1> QED
  BY <1>2, <1>3, <1>4 DEF Login

LEMMA PasskeyKeeps ==
    ASSUME SignInAssumption, Inv, NEW b \in Browser, Passkey(b)
    PROVE  Inv'
<1>1. /\ req[b].pc = "passkey" /\ req[b] \in Asked /\ Knows(b) /\ page[b] \in Shown
      /\ cookie[b] \in 0..MaxSessions /\ UNCHANGED <<session, cookie, as, others>>
  BY Working DEF Passkey
<1>2. CASE Fails(b)
  BY <1>1, <1>2, FailsKeeps
<1>3. ASSUME NEW u \in User, UNCHANGED page,
             Goto(b, [req[b] EXCEPT !.pc = "save", !.user = u, !.over = cookie[b]])
      PROVE  Inv'
  <2> DEFINE q == [req[b] EXCEPT !.pc = "save", !.user = u, !.over = cookie[b]]
  <2>1. q \in Asked
    BY <1>1, CarriedTypes
  <2>2. q.pc = "save" /\ q.act = "signIn" /\ q.over = 0 /\ q.user \in User
    BY <1>1 DEF Asked, Knows
  <2> HIDE DEF q
  <2>3. Goto(b, q) /\ Show(b, page[b])
    BY <1>3, SamePage DEF Inv, q
  <2>4. req'[b] = q
    BY <2>1, <2>3, GotoTypes DEF Inv
  <2>5. Knows(b)'
    BY <2>2, <2>4 DEF Knows
  <2> QED
    BY <1>1, <2>1, <2>2, <2>3, <2>5, Turn
<1> QED
  BY <1>2, <1>3 DEF Passkey

LEMMA UserMiddlewareKeeps ==
    ASSUME SignInAssumption, Inv, NEW b \in Browser, UserMiddleware(b)
    PROVE  Inv'
<1> DEFINE u == Owner(cookie[b])
           pc == IF req[b].act = "patch" THEN "save" ELSE "act"
           q == [req[b] EXCEPT !.pc = pc, !.user = u, !.over = cookie[b]]
<1>1. /\ req[b].pc = "auth" /\ req[b] \in Asked /\ Knows(b) /\ Holds(b) /\ page[b] \in Shown
      /\ cookie[b] \in 0..MaxSessions /\ UNCHANGED <<session, cookie, as, others>>
  BY Working DEF UserMiddleware
<1>2. CASE Fails(b)
  BY <1>1, <1>2, FailsKeeps
<1>3. CASE u # None /\ Checked(b, u) /\ Goto(b, q) /\ UNCHANGED page
  <2>1. u \in User /\ cookie[b] # 0 /\ session[cookie[b]] = u
    BY <1>3 DEF Owner
  <2>2. req[b].act = "enable" => req[b].code = req[b].secret
    BY <1>3 DEF Checked
  <2>3. req[b].act = "enable" => req[b].code \in scanned[u]
    <3>1. SUFFICES ASSUME req[b].act = "enable" PROVE req[b].code \in scanned[u]
      OBVIOUS
    <3>2. page[b].at = "dashboard" /\ req[b].code \in scanned[page[b].user]
      BY <1>1, <3>1 DEF Knows
    <3>3. page[b].user \in User /\ session[cookie[b]] \in {page[b].user, Ended}
      BY <1>1, <3>2 DEF Holds
    <3> QED
      BY <2>1, <3>2, <3>3 DEF SignInAssumption
  <2> HIDE DEF u
  <2>4. q \in Asked
    BY <1>1, <2>1, CarriedTypes
  <2>5. /\ q.pc \in {"save", "act"} /\ q.act = req[b].act /\ q.user = u /\ q.over = cookie[b]
        /\ q.code = req[b].code /\ q.secret = req[b].secret /\ q.key = req[b].key
    BY <1>1 DEF Asked
  <2> HIDE DEF q
  <2>6. Show(b, page[b]) /\ Goto(b, q)
    BY <1>3, SamePage DEF Inv
  <2>7. req'[b] = q
    BY <2>4, <2>6, GotoTypes DEF Inv
  <2>8. Knows(b)'
    BY <1>1, <2>1, <2>2, <2>3, <2>5, <2>7 DEF Knows, others
  <2>9. q.act = "saveKey" => q.code # 1
    BY <1>1, <2>5 DEF Knows
  <2> QED
    BY <1>1, <2>4, <2>6, <2>8, <2>9, Turn
<1> QED
  BY <1>2, <1>3 DEF UserMiddleware

(* A step that ends with the answer and leaves passkeys, challenges and      *)
(* secrets alone, whatever it does to the rows.                              *)
LEMMA AnswerKeeps ==
    ASSUME SignInAssumption, Inv, NEW b \in Browser, NEW p \in Shown, Show(b, p), Answered(b),
           UNCHANGED others, RowsOnlyEnd, Holds(b)',
           session' \in [SessionId -> User \union {None, Ended}],
           cookie' \in [Browser -> 0..MaxSessions], as' \in [Browser -> User \union {None}],
           \A c \in Browser \ {b} :
               /\ cookie'[c] = cookie[c]
               /\ as'[c] # None => as'[c] = as[c] /\ session'[cookie[c]] = session[cookie[c]]
    PROVE  Inv'
<1>1. Typed
  BY DEF Inv
<1>2. page' \in [Browser -> Shown] /\ \A c \in Browser \ {b} : page'[c] = page[c]
  BY <1>1, ShowTypes
<1>3. /\ req' \in [Browser -> Asked \union {Idle}] /\ req'[b] = Idle
      /\ \A c \in Browser \ {b} : req'[c] = req[c]
  BY <1>1, GotoTypes DEF Answered
<1>4. Typed'
  <2>1. \A c \in Browser : req'[c] = Idle \/ req'[c].pc \in Begun \union {"save", "act"}
    BY <1>3 DEF Asked, Begun
  <2> QED
    BY <1>1, <1>2, <1>3, <2>1 DEF Typed, TypeOK, Shown, others
<1>5. OthersStay(b)
  BY <1>2, <1>3 DEF OthersStay, SeenFrom
<1>6. Waits(b)
  BY <1>3 DEF Waits, Pending, Idle
<1>7. KeysStay /\ totp' = totp /\ scanned' = scanned
  BY DEF KeysStay, others
<1>8. Browses(b)'
  BY <1>3 DEF Browses
<1> QED
  BY <1>4, <1>5, <1>6, <1>7, <1>8, StepKeeps

(* The one row a sign-in creates.                                            *)
LEMMA NewRow ==
    ASSUME New # {}
    PROVE  LET s == CHOOSE t \in New : TRUE IN s \in SessionId /\ session[s] = None
BY DEF New

LEMMA SaveSessionKeeps ==
    ASSUME SignInAssumption, Inv, NEW b \in Browser, SaveSession(b)
    PROVE  Inv'
<1> DEFINE u == req[b].user
           s == IF req[b].over # 0 THEN req[b].over ELSE CHOOSE t \in New : TRUE
           where == IF session'[s] \in User THEN "dashboard" ELSE "login"
           p == [page[b] EXCEPT !.at = where, !.user = u, !.totp = totp[u], !.form = "idle"]
<1>1. /\ req[b].pc = "save" /\ (req[b].over = 0 => New # {})
      /\ session' = IF req[b].over = 0 THEN [session EXCEPT ![s] = u] ELSE session
      /\ cookie' = [cookie EXCEPT ![b] = s]
      /\ as' = IF req[b].act = "signIn" THEN [as EXCEPT ![b] = u] ELSE as
      /\ Show(b, p) /\ Answered(b) /\ UNCHANGED others
  BY DEF SaveSession
<1>2. /\ req[b] \in Asked /\ Knows(b) /\ Holds(b) /\ page[b] \in Shown
      /\ cookie[b] \in 0..MaxSessions /\ (cookie[b] # 0 => cookie[b] \in SessionId)
  BY <1>1, Working
<1>3. u \in User
  BY <1>1, <1>2 DEF Knows
<1>4. /\ session \in [SessionId -> User \union {None, Ended}] /\ cookie \in [Browser -> 0..MaxSessions]
      /\ as \in [Browser -> User \union {None}] /\ totp[u] \in 0..MaxSecrets
  BY <1>3 DEF Inv, Typed, TypeOK
<1>5. \/ req[b].over = 0 /\ s \in SessionId /\ session[s] = None /\ req[b].act = "signIn"
      \/ req[b].over # 0 /\ s = cookie[b] /\ s \in SessionId /\ session[s] \in {u, Ended} /\ req[b].act # "signIn"
  <2>1. CASE req[b].over = 0
    <3>1. s \in SessionId /\ session[s] = None
      BY <1>1, <2>1, NewRow
    <3> QED
      BY <1>1, <1>2, <2>1, <3>1 DEF Knows
  <2>2. CASE req[b].over # 0
    BY <1>1, <1>2, <2>2 DEF Knows
  <2> QED
    BY <2>1, <2>2
<1> HIDE DEF s, u
<1>6. None # Ended /\ None \notin User /\ Ended \notin User
  BY DEF SignInAssumption
<1>7. RowsOnlyEnd
  BY <1>1, <1>4, <1>5 DEF RowsOnlyEnd
<1>8. session' \in [SessionId -> User \union {None, Ended}]
  BY <1>1, <1>3, <1>4
<1>9. s \in 0..MaxSessions /\ s # 0
  BY <1>5 DEF SessionId, SignInAssumption
<1>10. cookie' \in [Browser -> 0..MaxSessions] /\ cookie'[b] = s
  BY <1>1, <1>4, <1>9
<1>11. as' \in [Browser -> User \union {None}]
  BY <1>1, <1>3, <1>4
<1>12. session'[s] \in {u, Ended}
  BY <1>1, <1>4, <1>5
<1>13. p \in Shown /\ p.user = u /\ p.at = where
  BY <1>2, <1>3, <1>4 DEF Shown
<1>14. page'[b] = p
  BY <1>1, <1>13, ShowTypes DEF Inv
<1>15. as'[b] # None => session'[s] = as'[b] /\ as'[b] \in User
  <2>1. CASE req[b].act = "signIn"
    BY <1>1, <1>3, <1>4, <1>5, <1>9, <2>1
  <2>2. CASE req[b].act # "signIn"
    BY <1>1, <1>2, <1>4, <1>5, <2>2 DEF Owner, Holds
  <2> QED
    BY <2>1, <2>2
<1>16. Holds(b)'
  <2>1. cookie'[b] # 0 => session'[cookie'[b]] # None
    BY <1>3, <1>6, <1>10, <1>12
  <2>2. page'[b].at = "dashboard" =>
          page'[b].user \in User /\ cookie'[b] # 0 /\ session'[cookie'[b]] \in {page'[b].user, Ended}
    BY <1>3, <1>9, <1>10, <1>12, <1>13, <1>14
  <2>3. as'[b] # None => Owner(cookie[b])' = as'[b]
    BY <1>9, <1>10, <1>15 DEF Owner
  <2> QED
    BY <2>1, <2>2, <2>3 DEF Holds
<1>17. ASSUME NEW c \in Browser \ {b}
       PROVE  /\ cookie'[c] = cookie[c]
              /\ as'[c] # None => as'[c] = as[c] /\ session'[cookie[c]] = session[cookie[c]]
  <2>1. cookie'[c] = cookie[c] /\ as'[c] = as[c]
    BY <1>1, <1>4
  <2>2. as[c] # None => cookie[c] # 0 /\ session[cookie[c]] \in User
    BY DEF Inv, Browses, Holds, Owner
  <2>3. as[c] # None => session'[cookie[c]] = session[cookie[c]]
    BY <1>1, <1>4, <1>5, <1>6, <2>2
  <2> QED
    BY <2>1, <2>3
<1> HIDE DEF p, where
<1> QED
  BY <1>1, <1>7, <1>8, <1>10, <1>11, <1>13, <1>16, <1>17, AnswerKeeps

(* Sessions that end are taken from whoever held them.                       *)
LEMMA EndFacts ==
    ASSUME SignInAssumption, Inv, NEW gone \in SUBSET SessionId, End(gone)
    PROVE  /\ session' \in [SessionId -> User \union {None, Ended}] /\ RowsOnlyEnd
           /\ as' \in [Browser -> User \union {None}]
           /\ \A c \in Browser : as'[c] # None =>
                 as'[c] = as[c] /\ session'[cookie[c]] = session[cookie[c]]
<1>1. /\ session \in [SessionId -> User \union {None, Ended}] /\ cookie \in [Browser -> 0..MaxSessions]
      /\ as \in [Browser -> User \union {None}]
  BY DEF Inv, Typed, TypeOK
<1>2. session' \in [SessionId -> User \union {None, Ended}] /\ RowsOnlyEnd
  BY <1>1 DEF End, RowsOnlyEnd
<1>3. as' \in [Browser -> User \union {None}]
  BY <1>1 DEF End
<1>4. ASSUME NEW c \in Browser, as'[c] # None
      PROVE  as'[c] = as[c] /\ session'[cookie[c]] = session[cookie[c]]
  <2>1. cookie[c] \notin gone /\ as'[c] = as[c]
    BY <1>4 DEF End
  <2>2. cookie[c] # 0
    BY <1>4, <2>1 DEF Inv, Browses, Holds, Owner
  <2>3. cookie[c] \in SessionId
    BY <1>1, <2>2 DEF SessionId, SignInAssumption
  <2> QED
    BY <2>1, <2>3 DEF End
<1> QED
  BY <1>2, <1>3, <1>4

(* Ending sessions from the settings; one's own stays, or is not touched.    *)
LEMMA EndsKeeps ==
    ASSUME SignInAssumption, Inv, NEW b \in Browser, NEW gone \in SUBSET SessionId, End(gone),
           req[b].pc = "act", Answered(b), UNCHANGED <<cookie, page, others>>
    PROVE  Inv'
<1>1. Typed /\ page[b] \in Shown /\ Holds(b) /\ cookie \in [Browser -> 0..MaxSessions]
  BY Working DEF Inv, Typed, TypeOK
<1>2. Show(b, page[b]) /\ page'[b] = page[b]
  BY <1>1, SamePage
<1>3. /\ session' \in [SessionId -> User \union {None, Ended}] /\ RowsOnlyEnd
      /\ as' \in [Browser -> User \union {None}]
      /\ \A c \in Browser : as'[c] # None =>
            as'[c] = as[c] /\ session'[cookie[c]] = session[cookie[c]]
  BY EndFacts
<1>4. cookie[b] # 0 => cookie[b] \in SessionId
  BY <1>1 DEF SessionId
<1>5. Holds(b)'
  <2>1. cookie[b] # 0 => session'[cookie[b]] # None
    BY <1>1, <1>3, <1>4 DEF RowsOnlyEnd, Holds, SignInAssumption
  <2>2. page[b].at = "dashboard" =>
          page[b].user \in User /\ cookie[b] # 0 /\ session'[cookie[b]] \in {page[b].user, Ended}
    BY <1>1, <1>3, <1>4 DEF RowsOnlyEnd, Holds, SignInAssumption
  <2>3. as'[b] # None => Owner(cookie[b])' = as'[b]
    BY <1>1, <1>3 DEF Holds, Owner
  <2> QED
    BY <1>2, <2>1, <2>2, <2>3 DEF Holds, Owner
<1> QED
  BY <1>1, <1>2, <1>3, <1>5, AnswerKeeps

LEMMA LogoutKeeps ==
    ASSUME SignInAssumption, Inv, NEW b \in Browser, Logout(b)
    PROVE  Inv'
<1> DEFINE gone == Sessions(req[b].user) \intersect {cookie[b]}
<1>1. /\ req[b].pc = "act" /\ req[b].act = "logout" /\ End(gone)
      /\ cookie' = [cookie EXCEPT ![b] = 0] /\ Show(b, LoginPage) /\ Answered(b) /\ UNCHANGED others
  BY DEF Logout, Acts
<1>2. gone \in SUBSET SessionId
  BY DEF Sessions
<1>3. /\ Knows(b) /\ Holds(b) /\ cookie[b] \in 0..MaxSessions /\ (cookie[b] # 0 => cookie[b] \in SessionId)
  BY <1>1, Working
<1>4. /\ session' \in [SessionId -> User \union {None, Ended}] /\ RowsOnlyEnd
      /\ as' \in [Browser -> User \union {None}]
      /\ \A c \in Browser : as'[c] # None =>
            as'[c] = as[c] /\ session'[cookie[c]] = session[cookie[c]]
  BY <1>1, <1>2, EndFacts
<1>5. cookie \in [Browser -> 0..MaxSessions] /\ Typed /\ as \in [Browser -> User \union {None}]
  BY DEF Inv, Typed, TypeOK
<1>6. cookie' \in [Browser -> 0..MaxSessions] /\ cookie'[b] = 0 /\ \A c \in Browser \ {b} : cookie'[c] = cookie[c]
  BY <1>1, <1>5 DEF SignInAssumption
<1>7. as'[b] = None
  <2>1. cookie[b] # 0 /\ session[cookie[b]] \in {req[b].user, Ended}
    BY <1>1, <1>3 DEF Knows
  <2>2. CASE session[cookie[b]] = Ended
    <3>1. as[b] = None
      BY <1>3, <2>2 DEF Holds, Owner, SignInAssumption
    <3> QED
      BY <1>1, <3>1 DEF End
  <2>3. CASE session[cookie[b]] = req[b].user
    <3>1. cookie[b] \in gone
      BY <1>3, <2>1, <2>3 DEF Sessions
    <3> QED
      BY <1>1, <3>1 DEF End
  <2> QED
    BY <2>1, <2>2, <2>3
<1>8. page'[b] = LoginPage /\ LoginPage \in Shown /\ LoginPage.at = "login"
  BY <1>1, <1>5, LoginPageTypes, ShowTypes
<1>9. Holds(b)'
  BY <1>6, <1>7, <1>8 DEF Holds
<1> HIDE DEF gone
<1> QED
  BY <1>1, <1>4, <1>6, <1>8, <1>9, AnswerKeeps

LEMMA EndOthersKeeps ==
    ASSUME SignInAssumption, Inv, NEW b \in Browser, EndOthers(b)
    PROVE  Inv'
<1> DEFINE gone == Sessions(req[b].user) \ {cookie[b]}
<1>1. req[b].pc = "act" /\ End(gone) /\ Answered(b) /\ UNCHANGED <<cookie, page, others>>
  BY DEF EndOthers, Acts
<1>2. gone \in SUBSET SessionId
  BY DEF Sessions
<1> HIDE DEF gone
<1> QED
  BY <1>1, <1>2, EndsKeeps

LEMMA EndOneKeeps ==
    ASSUME SignInAssumption, Inv, NEW b \in Browser, EndOne(b)
    PROVE  Inv'
<1> DEFINE gone == Sessions(req[b].user) \intersect {req[b].secret}
<1>1. req[b].pc = "act" /\ End(gone) /\ Answered(b) /\ UNCHANGED <<cookie, page, others>>
  BY DEF EndOne, Acts
<1>2. gone \in SUBSET SessionId
  BY DEF Sessions
<1> HIDE DEF gone
<1> QED
  BY <1>1, <1>2, EndsKeeps

-----------------------------------------------------------------------------
(* The steps that write to the account.                                      *)
AccountTyped ==
    /\ totp \in [User -> 0..MaxSecrets] /\ keys \in [User -> SUBSET Key]
    /\ challenge \in [User -> 0..MaxChallenges]
    /\ drawn \in [secrets: 0..MaxSecrets, challenges: 0..MaxChallenges]

LEMMA AccountTypes ==
    ASSUME Inv
    PROVE  AccountTyped
BY DEF Inv, Typed, TypeOK, AccountTyped

(* The browser is in order after such a step; the secrets and passkeys are   *)
(* looked at one by one.                                                     *)
LEMMA AccountStep ==
    ASSUME SignInAssumption, Inv, NEW b \in Browser, NEW p \in Shown, NEW q \in Asked \union {Idle},
           Show(b, p), Goto(b, q), UNCHANGED <<scene, session, cookie, as, scanned>>, AccountTyped',
           p.at = "dashboard" =>
               p.user \in User /\ cookie[b] # 0 /\ session[cookie[b]] \in {p.user, Ended},
           q # Idle => Knows(b)'
    PROVE  /\ Typed' /\ (\A c \in Browser : Browses(c)') /\ OthersStay(b)
           /\ req'[b] = q /\ (\A c \in Browser \ {b} : req'[c] = req[c])
<1>1. Typed /\ Browses(b)
  BY DEF Inv
<1>2. page' \in [Browser -> Shown] /\ page'[b] = p /\ \A c \in Browser \ {b} : page'[c] = page[c]
  BY <1>1, ShowTypes
<1>3. req' \in [Browser -> Asked \union {Idle}] /\ req'[b] = q /\ \A c \in Browser \ {b} : req'[c] = req[c]
  BY <1>1, GotoTypes
<1>4. Typed'
  <2>1. \A c \in Browser : req'[c] = Idle \/ req'[c].pc \in Begun \union {"save", "act"}
    BY <1>3 DEF Asked, Begun
  <2> QED
    BY <1>1, <1>2, <1>3, <2>1 DEF Typed, TypeOK, Shown, AccountTyped
<1>5. OthersStay(b) /\ RowsOnlyEnd /\ SecretsStay
  BY <1>2, <1>3 DEF OthersStay, SeenFrom, RowsOnlyEnd, SecretsStay
<1>6. Holds(b)'
  BY <1>1, <1>2 DEF Browses, Holds, Owner
<1>7. \A c \in Browser : Browses(c)'
  <2>1. ASSUME NEW c \in Browser, c # b PROVE Browses(c)'
    BY <1>1, <1>4, <1>5, <2>1, SeenKeeps DEF Inv, OthersStay
  <2>2. Browses(b)'
    BY <1>3, <1>6 DEF Browses
  <2> QED
    BY <2>1, <2>2
<1> QED
  BY <1>3, <1>4, <1>5, <1>7

LEMMA ActsFacts ==
    ASSUME Inv, NEW b \in Browser, req[b].pc = "act"
    PROVE  /\ req[b] \in Asked /\ req[b].user \in User /\ page[b] \in Shown /\ Knows(b)
           /\ cookie[b] # 0 /\ session[cookie[b]] \in {req[b].user, Ended}
           /\ page[b].at = "dashboard" =>
                  page[b].user \in User /\ session[cookie[b]] \in {page[b].user, Ended}
           /\ Idle \in Asked \union {Idle}
<1>1. req[b] \in Asked /\ Knows(b) /\ Holds(b) /\ page[b] \in Shown
  BY Working
<1> QED
  BY <1>1 DEF Knows, Holds

LEMMA TotpSecretKeeps ==
    ASSUME SignInAssumption, Inv, NEW b \in Browser, TotpSecret(b)
    PROVE  Inv'
<1> DEFINE u == req[b].user
           fresh == totp[u] = 0
           qr == IF fresh THEN drawn'.secrets ELSE totp[u]
           p == [page[b] EXCEPT !.qr = qr]
<1>1. /\ req[b].pc = "act" /\ (fresh => drawn.secrets < MaxSecrets)
      /\ drawn' = IF fresh THEN [drawn EXCEPT !.secrets = @ + 1] ELSE drawn
      /\ Show(b, p) /\ Goto(b, Idle)
      /\ UNCHANGED <<scene, session, cookie, as, totp, keys, challenge, scanned>>
  BY DEF TotpSecret, Acts, Answered
<1>2. AccountTyped
  BY AccountTypes
<1>3. AccountTyped' /\ drawn'.challenges = drawn.challenges /\ qr \in 0..MaxSecrets
  BY <1>1, <1>2, ActsFacts DEF AccountTyped, SignInAssumption
<1> HIDE DEF qr
<1>4. p \in Shown /\ p.at = page[b].at /\ p.user = page[b].user
  BY <1>1, <1>3, ActsFacts DEF Shown
<1> HIDE DEF p, fresh
<1>5. /\ Typed' /\ (\A c \in Browser : Browses(c)') /\ OthersStay(b) /\ req'[b] = Idle
  BY <1>1, <1>3, <1>4, ActsFacts, AccountStep
<1>6. Waits(b) /\ KeysStay
  BY <1>1, <1>3, <1>5 DEF Waits, Pending, Idle, KeysStay
<1>7. NeverLockedOut'
  BY <1>1 DEF Inv, NeverLockedOut
<1> QED
  BY <1>5, <1>6, <1>7, KeysKeep DEF Inv

(* A secret is set only after its owner has read a code of it.               *)
LEMMA SetTotpKeeps ==
    ASSUME SignInAssumption, Inv, NEW b \in Browser, SetTotp(b)
    PROVE  Inv'
<1> DEFINE u == req[b].user
           secret == IF req[b].act = "enable" THEN req[b].secret ELSE 0
           p == [page[b] EXCEPT !.pin = "closed", !.totp = secret, !.user = u]
<1>1. /\ req[b].pc = "act" /\ totp' = [totp EXCEPT ![u] = secret] /\ Show(b, p) /\ Goto(b, Idle)
      /\ UNCHANGED <<scene, session, cookie, as, keys, challenge, scanned, drawn>>
  BY DEF SetTotp, Answered
<1>2. AccountTyped /\ scanned \in [User -> SUBSET Secret]
  BY AccountTypes DEF Inv, Typed, TypeOK
<1>3. secret # 0 => secret \in scanned[u]
  BY <1>1, ActsFacts DEF Knows
<1>4. secret \in 0..MaxSecrets
  BY <1>1, <1>2, <1>3, ActsFacts DEF Secret, SignInAssumption
<1> HIDE DEF secret
<1>5. AccountTyped'
  BY <1>1, <1>2, <1>4 DEF AccountTyped
<1>6. p \in Shown /\ p.at = page[b].at /\ p.user = u
  BY <1>1, <1>4, ActsFacts DEF Shown
<1> HIDE DEF p
<1>7. Typed' /\ (\A c \in Browser : Browses(c)') /\ OthersStay(b) /\ req'[b] = Idle
  BY <1>1, <1>5, <1>6, ActsFacts, AccountStep
<1>8. Waits(b) /\ KeysStay
  BY <1>1, <1>7 DEF Waits, Pending, Idle, KeysStay
<1>9. NeverLockedOut'
  BY <1>1, <1>2, <1>3 DEF Inv, NeverLockedOut, AccountTyped
<1> QED
  BY <1>7, <1>8, <1>9, KeysKeep DEF Inv

-----------------------------------------------------------------------------
(* Passkeys.                                                                 *)
LEMMA PendingKeys ==
    ASSUME Inv
    PROVE  \A b \in Browser, u \in User : Pending(b, u) => req[b] \in Asked /\ req[b].key \in Key
<1> SUFFICES ASSUME NEW b \in Browser, NEW u \in User, Pending(b, u)
             PROVE  req[b] \in Asked /\ req[b].key \in Key
  OBVIOUS
<1> QED
  BY Working DEF Pending, Knows

LEMMA KeyOptionsKeeps ==
    ASSUME SignInAssumption, Inv, NEW b \in Browser, KeyOptions(b)
    PROVE  Inv'
<1> DEFINE u == req[b].user
           fresh == challenge[u] = 0
           c0 == IF fresh THEN drawn'.challenges ELSE challenge[u]
           p == [page[b] EXCEPT !.made = challenge'[u]]
<1>1. /\ req[b].pc = "act" /\ (fresh => drawn.challenges < MaxChallenges)
      /\ drawn' = IF fresh THEN [drawn EXCEPT !.challenges = @ + 1] ELSE drawn
      /\ challenge' = [challenge EXCEPT ![u] = c0]
      /\ Show(b, p) /\ Goto(b, Idle)
      /\ UNCHANGED <<scene, session, cookie, as, totp, keys, scanned>>
  BY DEF KeyOptions, Acts, Answered
<1>2. AccountTyped /\ u \in User
  BY <1>1, AccountTypes, ActsFacts
<1>3. AccountTyped' /\ c0 \in 0..MaxChallenges
  BY <1>1, <1>2 DEF AccountTyped, SignInAssumption
<1>4. /\ drawn.challenges \in Nat /\ drawn'.challenges \in Nat /\ drawn.challenges <= drawn'.challenges
      /\ fresh => drawn'.challenges = drawn.challenges + 1
  BY <1>1, <1>2 DEF AccountTyped, SignInAssumption
<1>5. challenge'[u] = c0 /\ \A v \in User \ {u} : challenge'[v] = challenge[v]
  BY <1>1, <1>2 DEF AccountTyped
<1>6. p \in Shown /\ p.at = page[b].at /\ p.user = page[b].user
  BY <1>1, <1>3, <1>5, ActsFacts DEF Shown
<1> HIDE DEF p
<1>7. /\ Typed' /\ (\A c \in Browser : Browses(c)') /\ req'[b] = Idle
      /\ \A c \in Browser \ {b} : req'[c] = req[c]
  BY <1>1, <1>3, <1>6, ActsFacts, AccountStep
<1>8. \A c \in Browser, v \in User : Pending(c, v)' => Pending(c, v) /\ req'[c] = req[c]
  BY <1>7 DEF Pending, Idle
<1>9. ASSUME NEW v \in User PROVE Challenges(v)'
  <2>1. Challenges(v)
    BY DEF Inv
  <2>2. \A k \in keys[v] : k.challenge \in Nat
    BY <1>2 DEF AccountTyped, Key
  <2>3. \A c \in Browser : Pending(c, v) => req[c].key.challenge \in Nat
    BY PendingKeys DEF Key
  <2>4. challenge[v] \in Nat
    BY <1>2 DEF AccountTyped
  <2>5. \/ challenge'[v] = challenge[v]
        \/ (challenge'[v] = drawn.challenges + 1 /\ drawn'.challenges = drawn.challenges + 1)
    BY <1>4, <1>5
  <2>6. challenge'[v] <= drawn'.challenges
    BY <1>4, <2>1, <2>4, <2>5 DEF Challenges
  <2>7. \A k \in keys[v] : k.challenge <= drawn'.challenges /\ k.challenge # challenge'[v]
    BY <1>4, <2>1, <2>2, <2>5 DEF Challenges
  <2>8. \A c \in Browser : Pending(c, v) =>
          req[c].key.challenge <= drawn'.challenges /\ req[c].key.challenge # challenge'[v]
    BY <1>4, <2>1, <2>3, <2>5 DEF Challenges
  <2> QED
    BY <1>1, <1>8, <2>1, <2>6, <2>7, <2>8 DEF Challenges
<1>10. NeverLockedOut' /\ OneKeyPerChallenge'
  BY <1>1 DEF Inv, NeverLockedOut, OneKeyPerChallenge
<1> QED
  BY <1>7, <1>9, <1>10 DEF Inv

(* A challenge that is not cached any more.                                  *)
LEMMA ForgottenChallenge ==
    ASSUME SignInAssumption, Inv, NEW u \in User, challenge' = [challenge EXCEPT ![u] = 0],
           UNCHANGED <<keys, drawn>>,
           \A c \in Browser, v \in User : Pending(c, v)' => Pending(c, v) /\ req'[c] = req[c]
    PROVE  \A v \in User : Challenges(v)'
<1>1. AccountTyped
  BY AccountTypes
<1>2. ASSUME NEW v \in User PROVE Challenges(v)'
  <2>1. challenge'[v] = challenge[v] \/ challenge'[v] = 0
    BY <1>1 DEF AccountTyped
  <2>2. \A k \in keys[v] : k.challenge # 0
    BY <1>1 DEF AccountTyped, Key
  <2>3. \A c \in Browser : Pending(c, v) => req[c].key.challenge # 0
    BY PendingKeys DEF Key
  <2>4. 0 <= drawn.challenges
    BY <1>1 DEF AccountTyped
  <2>5. Challenges(v)
    BY DEF Inv
  <2> QED
    BY <2>1, <2>2, <2>3, <2>4, <2>5 DEF Challenges
<1> QED
  BY <1>2

LEMMA ExpireKeeps ==
    ASSUME SignInAssumption, Inv, NEW u \in User, Expire(u)
    PROVE  Inv'
<1>1. /\ challenge' = [challenge EXCEPT ![u] = 0]
      /\ UNCHANGED <<scene, session, cookie, as, req, page, totp, keys, scanned, drawn>>
  BY DEF Expire
<1>2. Typed'
  <2>1. challenge' \in [User -> 0..MaxChallenges]
    BY <1>1 DEF Inv, Typed, TypeOK, SignInAssumption
  <2> QED
    BY <1>1, <2>1 DEF Inv, Typed, TypeOK
<1>3. \A b \in Browser : Browses(b)'
  BY ZenonT(60), <1>1 DEF Inv, Browses, Holds, Knows, Owner
<1>4. \A v \in User : Challenges(v)'
  BY <1>1, ForgottenChallenge DEF Pending
<1>5. NeverLockedOut' /\ OneKeyPerChallenge'
  BY <1>1 DEF Inv, NeverLockedOut, OneKeyPerChallenge
<1> QED
  BY <1>2, <1>3, <1>4, <1>5 DEF Inv

LEMMA DeleteKeyKeeps ==
    ASSUME SignInAssumption, Inv, NEW b \in Browser, DeleteKey(b)
    PROVE  Inv'
<1> DEFINE u == req[b].user
<1>1. /\ req[b].pc = "act" /\ keys' = [keys EXCEPT ![u] = @ \ {req[b].key}] /\ Goto(b, Idle)
      /\ UNCHANGED <<scene, session, cookie, as, page, totp, challenge, scanned, drawn>>
  BY DEF DeleteKey, Acts, Answered
<1>2. AccountTyped /\ u \in User /\ Show(b, page[b])
  BY <1>1, AccountTypes, ActsFacts, SamePage DEF Inv
<1>3. AccountTyped' /\ \A v \in User : keys'[v] \subseteq keys[v]
  BY <1>1, <1>2 DEF AccountTyped
<1>4. /\ Typed' /\ (\A c \in Browser : Browses(c)') /\ req'[b] = Idle
      /\ \A c \in Browser \ {b} : req'[c] = req[c]
  BY <1>1, <1>2, <1>3, ActsFacts, AccountStep
<1>5. \A c \in Browser, v \in User : Pending(c, v)' => Pending(c, v) /\ req'[c] = req[c]
  BY <1>4 DEF Pending, Idle
<1>6. ASSUME NEW v \in User PROVE Challenges(v)'
  <2>1. Challenges(v)
    BY DEF Inv
  <2> QED
    BY <1>1, <1>3, <1>5, <2>1 DEF Challenges
<1>7. NeverLockedOut' /\ OneKeyPerChallenge'
  BY <1>1, <1>3 DEF Inv, NeverLockedOut, OneKeyPerChallenge
<1> QED
  BY <1>4, <1>6, <1>7 DEF Inv

(* The key that is stored is the only one of its challenge.                  *)
LEMMA StoreKeyKeeps ==
    ASSUME SignInAssumption, Inv, NEW b \in Browser, StoreKey(b)
    PROVE  Inv'
<1>u. PICK u \in User : u = req[b].user
  BY ActsFacts DEF StoreKey, Acts
<1> DEFINE k == req[b].key
           p == [page[b] EXCEPT !.made = 0]
<1>1. /\ req[b].pc = "act" /\ Pending(b, u) /\ keys' = [keys EXCEPT ![u] = @ \union {k}]
      /\ Show(b, p) /\ Goto(b, Idle)
      /\ UNCHANGED <<scene, session, cookie, as, totp, challenge, scanned, drawn>>
  BY <1>u DEF StoreKey, Acts, Answered, Pending
<1>2. AccountTyped
  BY AccountTypes
<1>3. k \in Key
  BY <1>1, <1>2, PendingKeys
<1>4. /\ AccountTyped' /\ keys'[u] = keys[u] \union {k}
      /\ \A v \in User \ {u} : keys'[v] = keys[v]
  BY <1>1, <1>2, <1>3 DEF AccountTyped
<1>5. p \in Shown /\ p.at = page[b].at /\ p.user = page[b].user
  BY <1>1, ActsFacts DEF Shown, SignInAssumption
<1> HIDE DEF p
<1>6. /\ Typed' /\ (\A c \in Browser : Browses(c)') /\ req'[b] = Idle
      /\ \A c \in Browser \ {b} : req'[c] = req[c]
  BY <1>1, <1>4, <1>5, ActsFacts, AccountStep
<1>7. \A c \in Browser, v \in User : Pending(c, v)' => c # b /\ Pending(c, v) /\ req'[c] = req[c]
  BY <1>6 DEF Pending, Idle
<1>8. Challenges(u)
  BY <1>2 DEF Inv
<1>9. /\ k.challenge <= drawn.challenges /\ k.challenge # challenge[u]
      /\ \A l \in keys[u] : l.challenge # k.challenge
      /\ \A c \in Browser : Pending(c, u) /\ c # b => req[c].key.challenge # k.challenge
  BY <1>1, <1>8 DEF Challenges
<1>10. ASSUME NEW v \in User PROVE Challenges(v)'
  <2>1. Challenges(v)
    BY DEF Inv
  <2>2. CASE v = u
    <3>1. \A l \in keys'[u] : l.challenge <= drawn.challenges /\ l.challenge # challenge[u]
      BY <1>4, <1>8, <1>9 DEF Challenges
    <3>2. ASSUME NEW c \in Browser, Pending(c, u)'
          PROVE  \A l \in keys'[u] : l.challenge # req[c].key.challenge
      <4>1. c # b /\ Pending(c, u)
        BY <1>7, <3>2
      <4> QED
        BY <1>4, <1>8, <1>9, <4>1 DEF Challenges
    <3> QED
      BY <1>1, <1>7, <2>1, <2>2, <3>1, <3>2 DEF Challenges
  <2>3. CASE v # u
    BY <1>1, <1>4, <1>7, <2>1, <2>3 DEF Challenges
  <2> QED
    BY <2>2, <2>3
<1>11. OneKeyPerChallenge'
  BY <1>4, <1>9 DEF Inv, OneKeyPerChallenge
<1>12. NeverLockedOut'
  BY <1>1 DEF Inv, NeverLockedOut
<1> QED
  BY <1>6, <1>10, <1>11, <1>12 DEF Inv

(* A challenge goes from the cache to the one request it was taken for.      *)
LEMMA TakeChallengeKeeps ==
    ASSUME SignInAssumption, Inv, NEW b \in Browser, TakeChallenge(b)
    PROVE  Inv'
<1>u. PICK u \in User : u = req[b].user
  BY ActsFacts DEF TakeChallenge, Acts
<1> DEFINE q == [req[b] EXCEPT !.code = 1]
<1>1. /\ req[b].pc = "act" /\ req[b].act = "saveKey" /\ req[b].code = 0
      /\ challenge' = [challenge EXCEPT ![u] = 0]
      /\ UNCHANGED <<scene, session, cookie, as, totp, keys, scanned, drawn>>
      /\ \/ challenge[u] # 0 /\ challenge[u] = req[b].key.challenge /\ Goto(b, q) /\ UNCHANGED page
         \/ Fails(b)
  BY <1>u DEF TakeChallenge, Acts
<1>2. AccountTyped /\ req[b] \in Asked /\ Knows(b)
  BY <1>1, AccountTypes, ActsFacts
<1>3. AccountTyped' /\ challenge'[u] = 0 /\ \A v \in User \ {u} : challenge'[v] = challenge[v]
  BY <1>1, <1>2 DEF AccountTyped, SignInAssumption
<1>4. NeverLockedOut' /\ OneKeyPerChallenge'
  BY <1>1 DEF Inv, NeverLockedOut, OneKeyPerChallenge
<1>5. CASE Fails(b)
  <2>1. page[b] \in Shown
    BY HoldsPage
  <2>2. Failed(b) \in Shown /\ Failed(b).at = page[b].at /\ Failed(b).user = page[b].user
    BY <2>1, FailedTypes
  <2>3. Show(b, Failed(b)) /\ Goto(b, Idle)
    BY <1>5 DEF Fails, Answered
  <2>4. /\ Typed' /\ (\A c \in Browser : Browses(c)') /\ req'[b] = Idle
        /\ \A c \in Browser \ {b} : req'[c] = req[c]
    BY <1>1, <1>3, <2>2, <2>3, ActsFacts, AccountStep
  <2>5. \A c \in Browser, v \in User : Pending(c, v)' => Pending(c, v) /\ req'[c] = req[c]
    BY <2>4 DEF Pending, Idle
  <2>6. \A v \in User : Challenges(v)'
    BY <1>1, <2>5, ForgottenChallenge
  <2> QED
    BY <1>4, <2>4, <2>6 DEF Inv
<1>6. CASE challenge[u] # 0 /\ challenge[u] = req[b].key.challenge /\ Goto(b, q) /\ UNCHANGED page
  <2>1. q \in Asked
    BY <1>2 DEF Asked
  <2>2. /\ q.pc = "act" /\ q.act = "saveKey" /\ q.code = 1 /\ q.user = u
        /\ q.key = req[b].key /\ q.over = req[b].over
    BY <1>1, <1>2, <1>u DEF Asked
  <2> HIDE DEF q
  <2>3. Goto(b, q) /\ Show(b, page[b]) /\ page[b] \in Shown
    BY <1>6, SamePage DEF Inv
  <2>4. req'[b] = q
    BY <2>1, <2>3, GotoTypes DEF Inv
  <2>5. Knows(b)'
    BY <1>1, <1>2, <1>u, <2>2, <2>4 DEF Knows
  <2>6. /\ Typed' /\ (\A c \in Browser : Browses(c)')
        /\ \A c \in Browser \ {b} : req'[c] = req[c]
    BY <1>1, <1>3, <2>1, <2>3, <2>5, ActsFacts, AccountStep
  <2>7. \A c \in Browser \ {b}, v \in User : Pending(c, v)' => Pending(c, v) /\ req'[c] = req[c]
    BY <2>6 DEF Pending
  <2>8. \A v \in User : Pending(b, v)' => v = u
    BY <2>2, <2>4 DEF Pending
  <2>9. req'[b].key.challenge = challenge[u]
    BY <1>6, <2>2, <2>4
  <2>10. ASSUME NEW v \in User PROVE Challenges(v)'
    <3>1. Challenges(v)
      BY DEF Inv
    <3>2. CASE v # u
      BY <1>1, <1>3, <2>7, <2>8, <3>1, <3>2 DEF Challenges
    <3>3. CASE v = u
      <4>1. \A k \in keys[u] : k.challenge # 0
        BY <1>2 DEF AccountTyped, Key
      <4>2. \A c \in Browser : Pending(c, u) => req[c].key.challenge # 0
        BY PendingKeys DEF Key
      <4>3. 0 <= drawn.challenges /\ challenge[u] <= drawn.challenges
        BY <1>2, <3>1, <3>3 DEF AccountTyped, Challenges
      <4>4. ASSUME NEW c \in Browser \ {b}, Pending(c, u)'
            PROVE  /\ req'[c].key.challenge <= drawn.challenges /\ req'[c].key.challenge # 0
                   /\ req'[c].key.challenge # challenge[u]
                   /\ \A k \in keys[u] : k.challenge # req'[c].key.challenge
        BY <2>7, <3>1, <3>3, <4>2, <4>4 DEF Challenges
      <4>5. \A k \in keys[u] : k.challenge <= drawn.challenges /\ k.challenge # challenge[u]
        BY <3>1, <3>3 DEF Challenges
      <4>6. \A c, d \in Browser \ {b} : Pending(c, u)' /\ Pending(d, u)' /\ c # d =>
              req'[c].key.challenge # req'[d].key.challenge
        BY <2>7, <3>1, <3>3 DEF Challenges
      <4>7. ASSUME NEW c \in Browser, Pending(c, u)'
            PROVE  /\ req'[c].key.challenge <= drawn.challenges /\ req'[c].key.challenge # 0
                   /\ \A k \in keys[u] : k.challenge # req'[c].key.challenge
                   /\ \A d \in Browser : Pending(d, u)' /\ d # c =>
                         req'[d].key.challenge # req'[c].key.challenge
        <5>1. CASE c = b
          BY <1>6, <2>9, <4>3, <4>4, <4>5, <5>1
        <5>2. CASE c # b
          BY <2>9, <4>4, <4>6, <4>7, <5>2
        <5> QED
          BY <5>1, <5>2
      <4> QED
        BY <1>1, <1>3, <3>3, <4>1, <4>3, <4>5, <4>7 DEF Challenges
    <3> QED
      BY <3>2, <3>3
  <2> QED
    BY <1>4, <2>6, <2>10 DEF Inv
<1> QED
  BY <1>1, <1>5, <1>6

LEMMA ServeKeeps ==
    ASSUME SignInAssumption, Inv, NEW b \in Browser, Serve(b) \/ Refused(b)
    PROVE  Inv'
<1>1. CASE Bounded(b) \/ Refused(b)
  BY <1>1, FailsKeeps DEF Bounded, Refused
<1> QED
  BY <1>1, LoginKeeps, PasskeyKeeps, UserMiddlewareKeeps, SaveSessionKeeps, LogoutKeeps, EndOthersKeeps,
     EndOneKeeps, TotpSecretKeeps, SetTotpKeeps, KeyOptionsKeeps, TakeChallengeKeeps, StoreKeyKeeps,
     DeleteKeyKeeps DEF Serve

-----------------------------------------------------------------------------
LEMMA InitInv ==
    ASSUME SignInAssumption, Init
    PROVE  Inv
<1>1. Typed
  <2>1. LoginPage \in Shown
    BY LoginPageTypes
  <2>2. page \in [Browser -> Shown]
    BY <2>1 DEF Init
  <2>3. AccountTyped /\ scanned \in [User -> SUBSET Secret]
    BY DEF Init, AccountTyped, SignInAssumption
  <2>4. /\ session \in [SessionId -> User \union {None, Ended}]
        /\ cookie \in [Browser -> 0..MaxSessions] /\ as \in [Browser -> User \union {None}]
        /\ req \in [Browser -> Asked \union {Idle}] /\ \A b \in Browser : req[b] = Idle
    BY DEF Init, SignInAssumption
  <2>5. scene \in Scene
    BY DEF Init
  <2> QED
    BY <2>2, <2>3, <2>4, <2>5 DEF Typed, TypeOK, Shown, AccountTyped
<1>2. ASSUME NEW b \in Browser PROVE Browses(b)
  BY DEF Init, Browses, Holds, LoginPage
<1>3. ASSUME NEW u \in User PROVE Challenges(u)
  BY DEF Init, Challenges, Pending, Idle
<1>4. NeverLockedOut /\ OneKeyPerChallenge
  BY DEF Init, NeverLockedOut, OneKeyPerChallenge
<1> QED
  BY <1>1, <1>2, <1>3, <1>4 DEF Inv

LEMMA NextInv ==
    ASSUME SignInAssumption, ~PasskeyOver, Inv, [Next]_vars
    PROVE  Inv'
<1>1. CASE Next
  BY <1>1, UseKeeps, ServeKeeps, ExpireKeeps DEF Next
<1>2. CASE UNCHANGED vars
  <2>1. Typed' /\ \A b \in Browser : Browses(b)'
    BY ZenonT(60), <1>2 DEF Inv, Typed, TypeOK, Browses, Holds, Knows, Owner, vars
  <2>2. \A u \in User : Challenges(u)'
    BY <1>2 DEF Inv, Challenges, Pending, vars
  <2>3. NeverLockedOut' /\ OneKeyPerChallenge'
    BY <1>2 DEF Inv, NeverLockedOut, OneKeyPerChallenge, vars
  <2> QED
    BY <2>1, <2>2, <2>3 DEF Inv
<1> QED
  BY <1>1, <1>2

(* Whatever the accounts, browsers and requests under way, where a passkey   *)
(* is not used over the cookie of an earlier session: who was told to be     *)
(* signed in is served as that account until that session is ended           *)
(* (session.ts, user.ts); no account asks for codes its owner cannot read    *)
(* (totp.ts); and a challenge makes one passkey (passkey.ts).                *)
THEOREM SignInSafe ==
    ASSUME SignInAssumption, ~PasskeyOver
    PROVE  Spec => []AccountsSafe
<1>1. Init => Inv
  BY InitInv
<1>2. Inv /\ [Next]_vars => Inv'
  BY NextInv
<1>3. Inv => AccountsSafe
  BY DEF Inv, Browses, Holds, AccountsSafe, SignedInAs
<1> QED
  BY <1>1, <1>2, <1>3, PTL DEF Spec

(* The state keeps its types.                                                *)
THEOREM TypeCorrect ==
    ASSUME SignInAssumption, ~PasskeyOver
    PROVE  Spec => []TypeOK
<1>1. Init => Inv
  BY InitInv
<1>2. Inv /\ [Next]_vars => Inv'
  BY NextInv
<1>3. Inv => TypeOK
  BY DEF Inv, Typed
<1> QED
  BY <1>1, <1>2, <1>3, PTL DEF Spec

(* No request that was under way when a session was ended brings it back:    *)
(* saveSession writes the cookie of a session that is gone and never its     *)
(* row (session.ts), with passkeys over an old cookie or without.            *)
THEOREM EndedForGood ==
    ASSUME SignInAssumption
    PROVE  Spec => EndedStays
<1>1. [Next]_vars => [\A s \in SessionId : session[s] = Ended => session'[s] = Ended]_vars
  <2> SUFFICES ASSUME Next, NEW s \in SessionId, session[s] = Ended PROVE session'[s] = Ended
    OBVIOUS
  <2>1. CASE session' = session
    BY <2>1
  <2>2. ASSUME NEW gone, End(gone) PROVE session'[s] = Ended
    BY <2>2 DEF End
  <2>3. ASSUME NEW b \in Browser, SaveSession(b) PROVE session'[s] = Ended
    <3> DEFINE t == IF req[b].over # 0 THEN req[b].over ELSE CHOOSE n \in New : TRUE
    <3>1. CASE req[b].over # 0
      BY <2>3, <3>1 DEF SaveSession
    <3>2. CASE req[b].over = 0
      <4>1. t \in SessionId /\ session[t] = None
        BY <2>3, <3>2, NewRow DEF SaveSession
      <4>2. session' = [session EXCEPT ![t] = req[b].user]
        BY <2>3, <3>2 DEF SaveSession
      <4> HIDE DEF t
      <4>3. t # s
        BY <4>1 DEF SignInAssumption
      <4> QED
        BY <4>2, <4>3
    <3> QED
      BY <3>1, <3>2
  <2>4. ASSUME NEW b \in Browser, Use(b) PROVE session' = session
    BY <2>4 DEF Use, SubmitLogin, CancelCode, Visit, SubmitPasskey, RemoveKey, Click, EndSession,
       SaveKey, TotpOpen, Scan, HandlePinChange, Act
  <2>5. ASSUME NEW b \in Browser, Serve(b), ~SaveSession(b)
        PROVE  session' = session \/ \E gone : End(gone)
    BY <2>5 DEF Serve, Login, Passkey, UserMiddleware, Logout, EndOthers, EndOne, TotpSecret, SetTotp,
       KeyOptions, TakeChallenge, StoreKey, DeleteKey, Bounded
  <2>6. ASSUME NEW b \in Browser, Refused(b) PROVE session' = session
    BY <2>6 DEF Refused
  <2>7. ASSUME NEW u \in User, Expire(u) PROVE session' = session
    BY <2>7 DEF Expire
  <2> QED
    BY <2>1, <2>2, <2>3, <2>4, <2>5, <2>6, <2>7 DEF Next
<1> QED
  BY <1>1, PTL DEF Spec, EndedStays

-----------------------------------------------------------------------------
(* The upload page.                                                          *)
Heads == {Up!ApplyUploadHeaders(o) : o \in Up!Choice}

(* A request, a press and a session.                                         *)
Carried(files, chunks) ==
    [press: Up!Press, files: files, chunk: chunks, id: Up!Session \union {NoSession}, headers: Heads,
     answer: {"none", "ok", "error", "lost"}]
Sent == Carried(SUBSET Local, {NoChunk}) \union Carried({{f} : f \in Local}, Up!Chunks)

Pressed ==
    [at: {"files"}, options: Up!Choice, small: SUBSET Local, big: SUBSET Local]
      \union [at: {"chunks", "hung"}, options: Up!Choice, file: Local, id: Up!Session \union {NoSession},
              next: Up!Chunks, ready: BOOLEAN, big: SUBSET Local]
      \union [at: {"end"}, options: Up!Choice]

Part == [live: BOOLEAN, length: Nat, temp: SUBSET Up!Chunks, file: Local \union {0}, press: Up!Press \union {0},
         row: {"none", "pending", "stored", "gone"}, object: SUBSET Up!Chunks,
         worker: {"none", "start", "copy", "record", "ended", "dead"}, todo: SUBSET Up!Chunks,
         entry: {"none", "PENDING", "PROCESSING", "COMPLETE", "FAILED", "cleared"},
         options: Up!Choice, deletesAt: {"none", "default", "never", "soon"}, disturbed: BOOLEAN]

Stored == [press: Up!Press, file: Local, options: Up!Choice]

UpTyped ==
    /\ list \subseteq Local /\ upScene \in UploadScene /\ options \in Up!Choice
    /\ press \in [Up!Press -> Pressed \union {Up!NotPressed}]
    /\ wire \subseteq Sent
    /\ part \in [Up!Session -> Part]
    /\ rows \subseteq Stored

(* A request carries the options of its press; and the press waits for its   *)
(* answer, and for no other, unless it is the last chunk of a file.          *)
Awaits(d, r) ==
    IF r.chunk = NoChunk THEN d.at = "files"
    ELSE d.at = "chunks" /\ d.ready = FALSE /\ d.next = r.chunk + 1

Waiting ==
    /\ \A r \in wire : press[r.press] # Up!NotPressed
                       /\ r.headers = Up!ApplyUploadHeaders(press[r.press].options)
    /\ \A r \in wire : r.chunk # LastChunk => Awaits(press[r.press], r)
    /\ \A r, q \in wire : r.press = q.press /\ r.chunk # LastChunk /\ q.chunk # LastChunk => r = q

(* A session belongs to the press that began it.                             *)
Owns(p, s) == s \in Up!Session => part[s].length > 0 /\ part[s].press = p

(* What is known of its chunks: those before c are there.                    *)
Arrived(s, c) ==
    s \in Up!Session /\ part[s].live /\ ~part[s].disturbed =>
        \A d \in Up!Chunks : d < c => d \in part[s].temp

Accepted ==
    /\ \A r \in wire : Owns(r.press, r.id)
    /\ \A r \in wire : r.chunk # NoChunk =>
         /\ r.answer = "none" => Arrived(r.id, r.chunk)
         /\ r.answer = "ok" => Arrived(r.id, r.chunk + 1)
    /\ \A p \in Up!Press : press[p] # Up!NotPressed /\ press[p].at = "chunks" =>
         /\ Owns(p, press[p].id)
         /\ press[p].ready => Arrived(press[p].id, press[p].next)

(* The chunks of a session whose last one has come are in its files, then    *)
(* in its object or on the worker's list, and in the object at the end.      *)
Whole(q) ==
    /\ q.worker = "start" => q.temp = Up!Chunks /\ q.object = {}
    /\ q.worker = "copy" => q.object \union q.todo = Up!Chunks
    /\ q.worker = "record" => q.object = Up!Chunks

Sound(q) ==
    /\ q.length = 0 => q = Up!NotBegun
    /\ q.row = "none" => q.worker = "none" /\ q.object = {}
    /\ q.worker # "none" => ~q.live /\ q.row # "none"
    /\ q.live => q.row = "none"
    /\ q.row \in {"pending", "stored"} =>
         /\ q.press \in Up!Press /\ press[q.press] # Up!NotPressed
         /\ q.options = press[q.press].options
    /\ q.row = "pending" /\ ~q.disturbed => Whole(q)
    /\ q.row = "stored" => q.worker = "ended" /\ q.deletesAt = q.options.deletesAt
    /\ q.row = "stored" /\ ~q.disturbed => q.object = Up!Chunks

Batches == \A w \in rows : press[w.press] # Up!NotPressed /\ w.options = press[w.press].options

UpInv == UpTyped /\ Waiting /\ Accepted /\ (\A s \in Up!Session : Sound(part[s])) /\ Batches

-----------------------------------------------------------------------------
LEMMA ChunkNumbers ==
    /\ LastChunk \in Nat \ {0} /\ Up!Chunks \subseteq Nat /\ 0 \in Up!Chunks /\ LastChunk \in Up!Chunks
    /\ NoChunk \notin Up!Chunks /\ NoSession \notin Up!Session /\ NoChunk # 0
    /\ \A c \in Up!Chunks : c <= LastChunk
    /\ \A c \in Up!Chunks : c # LastChunk => c + 1 \in Up!Chunks /\ c < LastChunk
    /\ \A c \in Nat : c <= LastChunk => c \in Up!Chunks
<1>1. /\ LastChunk \in Nat \ {0} /\ NoChunk \notin Up!Chunks /\ NoSession \notin Up!Session
  BY PagesAssumption DEF Up!UploaderAssumption
<1> QED
  BY <1>1 DEF Up!Chunks

(* Headers say what was chosen: what is left out of them is the default.     *)
LEMMA HeadersSayAll ==
    ASSUME NEW o \in Up!Choice
    PROVE  Up!ParseHeaders(Up!ApplyUploadHeaders(o)) = o
<1> DEFINE h == Up!ApplyUploadHeaders(o)
           K == {k \in DOMAIN o : o[k] \notin {"default", "none"}}
<1>1. /\ DOMAIN o = {"deletesAt", "maxViews", "password"}
      /\ o.deletesAt \in {"default", "never", "soon"} /\ o.maxViews \in {"none", "some"}
      /\ o.password \in {"none", "set"}
  BY DEF Up!Choice
<1>2. DOMAIN h = K /\ \A k \in K : h[k] = o[k]
  BY DEF Up!ApplyUploadHeaders
<1>3. /\ DOMAIN Up!Unchosen = {"deletesAt", "maxViews", "password"}
      /\ Up!Unchosen["deletesAt"] = "default" /\ Up!Unchosen["maxViews"] = "none"
      /\ Up!Unchosen["password"] = "none"
  BY DEF Up!Unchosen
<1>4. \A k \in {"deletesAt", "maxViews", "password"} :
        (IF k \in DOMAIN h THEN h[k] ELSE Up!Unchosen[k]) = o[k]
  BY <1>1, <1>2, <1>3
<1>5. Up!ParseHeaders(h) = [k \in {"deletesAt", "maxViews", "password"} |-> o[k]]
  BY <1>3, <1>4 DEF Up!ParseHeaders
<1>6. o = [k \in {"deletesAt", "maxViews", "password"} |-> o[k]]
  BY DEF Up!Choice
<1> QED
  BY <1>5, <1>6

LEMMA Heading == ASSUME NEW o \in Up!Choice PROVE Up!ApplyUploadHeaders(o) \in Heads
  BY DEF Heads

LEMMA Least ==
    ASSUME NEW T \in SUBSET Nat, T # {}
    PROVE  \E m \in T : \A n \in T : m <= n
<1> DEFINE R == OpToRel(<, Nat)
<1>1. IsWellFoundedOn(R, Nat)
  BY NatLessThanWellFounded, Zenon
<1> HIDE DEF R
<1>2. PICK m \in T : \A n \in T : ~ (<<n, m>> \in R)
  BY <1>1, WFMin, Zenon
<1>3. ASSUME NEW n \in Nat, n < m PROVE <<n, m>> \in R
  BY <1>3 DEF R, OpToRel
<1>4. \A n \in T : n \in Nat /\ m \in Nat /\ ~ (n < m)
  BY <1>2, <1>3
<1> QED
  BY <1>4

LEMMA Naming == ASSUME NEW S \in SUBSET Local, S # {} PROVE Up!First(S) \in Local
<1>2. Local \subseteq Nat
  BY PagesAssumption DEF Up!UploaderAssumption
<1>3. \E f \in S : \A g \in S : f <= g
  BY <1>2, Least
<1> QED
  BY <1>3 DEF Up!First

-----------------------------------------------------------------------------
(* What every step leaves of a session, and of a press.                      *)
Follows(v, q) ==
    v.length > 0 =>
        /\ q.length > 0 /\ q.press = v.press
        /\ q.live /\ ~q.disturbed => v.live /\ ~v.disturbed /\ v.temp \subseteq q.temp

Lasts(s) == Follows(part[s], part'[s])

Continues(p) ==
    press[p] # Up!NotPressed => press'[p] # Up!NotPressed /\ press'[p].options = press[p].options

LEMMA OwnsLasts ==
    ASSUME NEW p, NEW s, s \in Up!Session => Lasts(s), Owns(p, s)
    PROVE  Owns(p, s)'
  BY DEF Owns, Lasts, Follows

LEMMA HoldsLasts ==
    ASSUME NEW p, NEW s, NEW c, s \in Up!Session => Lasts(s), Owns(p, s), Arrived(s, c)
    PROVE  Arrived(s, c)'
  BY DEF Owns, Lasts, Follows, Arrived

LEMMA SoundLasts ==
    ASSUME NEW q, q.press \in Up!Press => Continues(q.press), Sound(q)
    PROVE  Sound(q)'
  BY DEF Sound, Continues, Whole

LEMMA BatchesLast ==
    ASSUME UpTyped, Batches, \A p \in Up!Press : Continues(p), rows' = rows
    PROVE  Batches'
  BY DEF Batches, Continues, UpTyped, Stored

(* A step of the page that sends the requests new, the presses d.            *)
Posts(p, o, id, c, rest, new, d) ==
    /\ wire' = rest \union new /\ press' = [press EXCEPT ![p] = d]
    /\ new \subseteq Sent /\ d \in Pressed /\ d.options = o
    /\ \A r \in new : /\ r.press = p /\ r.headers = Up!ApplyUploadHeaders(o) /\ r.answer = "none"
                      /\ r.id \in Up!Session => r.id = id /\ r.chunk = c
                      /\ r.chunk # LastChunk => Awaits(d, r)
    /\ \A r, q \in new : r.chunk # LastChunk /\ q.chunk # LastChunk => r = q
    /\ d.at = "chunks" => d.ready = FALSE /\ (d.id \in Up!Session => d.id = id)

LEMMA PressedIsNot == \A d \in Pressed : d # Up!NotPressed
  BY DEF Pressed, Up!NotPressed

LEMMA PostKeeps ==
    ASSUME UpInv, NEW p \in Up!Press, NEW o, NEW id, NEW c, NEW rest \in SUBSET wire, NEW new, NEW d,
           Posts(p, o, id, c, rest, new, d), press[p] = Up!NotPressed \/ press[p].options = o,
           \A r \in rest : r.press = p => r.chunk = LastChunk,
           Owns(p, id), Arrived(id, c) \/ c = NoChunk, UNCHANGED <<upScene, part, rows>>,
           list' \subseteq Local, options' \in Up!Choice
    PROVE  UpInv'
<1>1. /\ UpTyped /\ Waiting /\ Accepted /\ Batches /\ (\A s \in Up!Session : Sound(part[s]))
      /\ wire' = rest \union new /\ press' = [press EXCEPT ![p] = d] /\ d # Up!NotPressed
      /\ press'[p] = d /\ \A q \in Up!Press : q # p => press'[q] = press[q]
  BY PressedIsNot DEF UpInv, Posts, UpTyped
<1>2. UpTyped'
  BY <1>1 DEF UpTyped, Posts
<1>3. \A q \in Up!Press : Continues(q)
  BY <1>1 DEF Continues, Posts
<1>4. Waiting'
  <2>1. ASSUME NEW r \in wire' PROVE press'[r.press] # Up!NotPressed /\ r.headers = Up!ApplyUploadHeaders(press'[r.press].options)
    <3>1. CASE r \in new
      BY <1>1, <3>1 DEF Posts
    <3>2. CASE r \in rest
      <4>1. r.press \in Up!Press /\ press[r.press] # Up!NotPressed /\ r.headers = Up!ApplyUploadHeaders(press[r.press].options)
        BY <1>1, <3>2 DEF Waiting, UpTyped, Sent, Carried
      <4> QED
        BY <4>1, <1>3 DEF Continues
    <3> QED
      BY <1>1, <2>1, <3>1, <3>2
  <2>2. ASSUME NEW r \in wire', r.chunk # LastChunk PROVE Awaits(press'[r.press], r)
    <3>1. CASE r \in new
      BY <1>1, <2>2, <3>1 DEF Posts
    <3>2. CASE r \in rest
      <4>1. r.press # p /\ r.press \in Up!Press /\ Awaits(press[r.press], r)
        BY <1>1, <2>2, <3>2 DEF Waiting, UpTyped, Sent, Carried
      <4> QED
        BY <1>1, <4>1
    <3> QED
      BY <1>1, <2>2, <3>1, <3>2
  <2>3. ASSUME NEW r \in wire', NEW q \in wire', r.press = q.press, r.chunk # LastChunk, q.chunk # LastChunk
        PROVE  r = q
    <3>1. r \in rest => r.press # p
      BY <2>3
    <3>2. q \in rest => q.press # p
      BY <2>3
    <3>3. r \in new => r.press = p
      BY DEF Posts
    <3>4. q \in new => q.press = p
      BY DEF Posts
    <3>5. CASE r \in new
      BY <1>1, <2>3, <3>2, <3>3, <3>5 DEF Posts
    <3>6. CASE r \in rest
      BY <1>1, <2>3, <3>1, <3>4, <3>6 DEF Waiting
    <3> QED
      BY <1>1, <2>3, <3>5, <3>6
  <2> QED
    BY <2>1, <2>2, <2>3 DEF Waiting
<1>5. Accepted'
  <2>0. \A s \in Up!Session : Lasts(s)
    BY DEF Lasts, Follows
  <2>1. ASSUME NEW q, NEW s, Owns(q, s) PROVE Owns(q, s)'
    BY <2>1 DEF Owns
  <2>2. ASSUME NEW s, NEW n, Arrived(s, n) PROVE Arrived(s, n)'
    BY <2>2 DEF Arrived
  <2>3. ASSUME NEW r \in new PROVE Owns(r.press, r.id) /\ (r.chunk # NoChunk => Arrived(r.id, r.chunk)) /\ r.answer = "none"
    <3>1. r.press = p /\ r.answer = "none" /\ (r.id \in Up!Session => r.id = id /\ r.chunk = c)
      BY DEF Posts
    <3> QED
      BY <3>1 DEF Owns, Arrived
  <2>4. ASSUME NEW q \in Up!Press, press'[q] # Up!NotPressed, press'[q].at = "chunks"
        PROVE  Owns(q, press'[q].id) /\ (press'[q].ready => Arrived(press'[q].id, press'[q].next))
    <3>1. CASE q = p
      BY <1>1, <2>4, <3>1 DEF Posts, Owns
    <3>2. CASE q # p
      BY <1>1, <2>4, <3>2 DEF Accepted
    <3> QED
      BY <3>1, <3>2
  <2>5. ASSUME NEW r \in rest
        PROVE  /\ Owns(r.press, r.id)
               /\ r.chunk # NoChunk => /\ r.answer = "none" => Arrived(r.id, r.chunk)
                                       /\ r.answer = "ok" => Arrived(r.id, r.chunk + 1)
    BY <1>1 DEF Accepted
  <2>6. ASSUME NEW r \in wire'
        PROVE  /\ Owns(r.press, r.id)'
               /\ r.chunk # NoChunk => /\ r.answer = "none" => Arrived(r.id, r.chunk)'
                                       /\ r.answer = "ok" => Arrived(r.id, r.chunk + 1)'
    BY <1>1, <2>1, <2>2, <2>3, <2>5
  <2>7. ASSUME NEW q \in Up!Press, press'[q] # Up!NotPressed, press'[q].at = "chunks"
        PROVE  Owns(q, press[q].id)' /\ (press'[q].ready => Arrived(press[q].id, press[q].next)')
    BY <2>4, <2>7 DEF Owns, Arrived
  <2> QED
    BY <2>6, <2>7 DEF Accepted
<1>6. \A s \in Up!Session : Sound(part[s])'
  <2>1. SUFFICES ASSUME NEW s \in Up!Session PROVE Sound(part[s])'
    OBVIOUS
  <2>2. PICK q : q = part[s]
    OBVIOUS
  <2>3. Sound(q)' /\ part'[s] = q
    BY <1>1, <1>3, <2>2, SoundLasts
  <2> QED
    BY <2>3 DEF Sound, Whole
<1>7. Batches'
  BY <1>1, <1>3, BatchesLast
<1> QED
  BY <1>2, <1>4, <1>5, <1>6, <1>7 DEF UpInv

LEMMA RequestFields ==
    ASSUME NEW o \in Up!Choice, NEW p \in Up!Press, NEW files \in SUBSET Local, NEW c \in Up!Chunks \union {NoChunk},
           NEW id \in Up!Session \union {NoSession}, c = NoChunk \/ \E f \in Local : files = {f}
    PROVE  LET r == Up!Request(o, p, files, c, id) IN
           /\ r \in Sent /\ r.press = p /\ r.headers = Up!ApplyUploadHeaders(o) /\ r.answer = "none"
           /\ r.id = id /\ r.chunk = c
  BY Heading DEF Up!Request, Sent, Carried

LEMMA BatchPosts ==
    ASSUME NEW p \in Up!Press, NEW o \in Up!Choice, NEW small \in SUBSET Local, NEW big \in SUBSET Local, NEW rest,
           press \in [Up!Press -> Pressed \union {Up!NotPressed}], Up!SendFiles(p, o, small, big, rest)
    PROVE  \E new, d : Posts(p, o, NoSession, NoChunk, rest, new, d)
<1> DEFINE r == Up!Request(o, p, Up!Batch(small), NoChunk, NoSession)
           d == [at |-> "files", options |-> o, small |-> small \ Up!Batch(small), big |-> big]
<1>1. Up!Batch(small) \subseteq Local
  BY DEF Up!Batch
<1>2. /\ r \in Sent /\ r.press = p /\ r.headers = Up!ApplyUploadHeaders(o) /\ r.answer = "none"
      /\ r.id = NoSession /\ r.chunk = NoChunk
  BY <1>1, RequestFields
<1>3. d \in Pressed /\ d.options = o /\ d.at = "files"
  BY DEF Pressed
<1>4. wire' = rest \union {r} /\ press' = [press EXCEPT ![p] = d]
  BY DEF Up!SendFiles
<1> HIDE DEF r, d
<1>5. Posts(p, o, NoSession, NoChunk, rest, {r}, d)
  BY <1>2, <1>3, <1>4, ChunkNumbers DEF Posts, Awaits
<1> QED
  BY <1>5

LEMMA LoopingFields ==
    ASSUME NEW o \in Up!Choice, NEW f \in Local, NEW id \in Up!Session \union {NoSession},
           NEW n \in Up!Chunks, NEW big \in SUBSET Local
    PROVE  /\ Up!Looping(o, f, id, n, big) \in Pressed /\ Up!Looping(o, f, id, n, big).options = o
           /\ Up!Looping(o, f, id, n, big).at = "chunks"
           /\ Up!Looping(o, f, id, n, big).id = id /\ Up!Looping(o, f, id, n, big).next = n
  BY DEF Up!Looping, Pressed

LEMMA LoopingWaits ==
    ASSUME NEW o, NEW f, NEW id, NEW n, NEW big
    PROVE  Up!Looping(o, f, id, n, big).ready = FALSE
  BY DEF Up!Looping

LEMMA ChunkPosts ==
    ASSUME NEW p \in Up!Press, NEW o \in Up!Choice, NEW f \in Local, NEW c \in Up!Chunks,
           NEW id \in Up!Session \union {NoSession}, NEW big \in SUBSET Local, NEW rest,
           press \in [Up!Press -> Pressed \union {Up!NotPressed}], Up!SendChunk(p, o, f, c, id, big, rest)
    PROVE  \E new, d : Posts(p, o, id, c, rest, new, d)
<1> DEFINE r == Up!Request(o, p, {f}, c, id)
           g == Up!First(big)
           q == Up!Request(o, p, {g}, 0, NoSession)
           d == Up!Looping(o, f, id, c + 1, big)
           e == Up!Looping(o, g, NoSession, 1, big \ {g})
           end == [at |-> "end", options |-> o]
<1>0. c \in Nat /\ c + 1 \in Nat /\ 0 \in Up!Chunks /\ c <= LastChunk /\ LastChunk \in Nat \ {0} /\ c # NoChunk
  BY ChunkNumbers
<1>1. /\ r \in Sent /\ r.press = p /\ r.headers = Up!ApplyUploadHeaders(o) /\ r.answer = "none"
      /\ r.id = id /\ r.chunk = c
  BY <1>0, RequestFields
<1>2. big # {} => /\ q \in Sent /\ q.press = p /\ q.headers = Up!ApplyUploadHeaders(o) /\ q.answer = "none"
                  /\ q.id = NoSession /\ q.chunk = 0
  BY <1>0, RequestFields, Naming
<1>10. d = Up!Looping(o, f, id, c + 1, big) /\ e = Up!Looping(o, g, NoSession, 1, big \ {g})
  OBVIOUS
<1> HIDE DEF d, e
<1>3. ASSUME c < LastChunk
      PROVE  d \in Pressed /\ d.options = o /\ d.at = "chunks" /\ d.ready = FALSE /\ d.id = id /\ d.next = c + 1
  <2>1. c + 1 \in Up!Chunks
    BY <1>0, <1>3, ChunkNumbers
  <2>2. PICK n \in Up!Chunks : n = c + 1
    BY <2>1
  <2>3. d = Up!Looping(o, f, id, n, big)
    BY <1>10, <2>2
  <2>4. d \in Pressed /\ d.options = o /\ d.at = "chunks" /\ d.id = id /\ d.next = n
    BY <2>3, LoopingFields
  <2>5. d.ready = FALSE
    BY <2>3, LoopingWaits
  <2> QED
    BY <2>2, <2>4, <2>5
<1>4. ASSUME big # {}
      PROVE  e \in Pressed /\ e.options = o /\ e.at = "chunks" /\ e.ready = FALSE /\ e.id = NoSession /\ e.next = 1
  <2>1. 1 \in Up!Chunks /\ g \in Local /\ big \ {g} \in SUBSET Local
    BY <1>0, <1>4, Naming, ChunkNumbers
  <2>2. PICK n \in Up!Chunks, rem \in SUBSET Local, h \in Local :
          n = 1 /\ rem = big \ {g} /\ h = g
    BY <2>1
  <2>3. e = Up!Looping(o, h, NoSession, n, rem) /\ NoSession \in Up!Session \union {NoSession}
    BY <1>10, <2>2
  <2>4. e \in Pressed /\ e.options = o /\ e.at = "chunks" /\ e.id = NoSession /\ e.next = n
    BY <2>3, LoopingFields
  <2>5. e.ready = FALSE
    BY <2>3, LoopingWaits
  <2> QED
    BY <2>2, <2>4, <2>5
<1>5. end \in Pressed /\ end.options = o /\ end.at = "end"
  BY DEF Pressed
<1>6. IF c < LastChunk
      THEN wire' = rest \union {r} /\ press' = [press EXCEPT ![p] = d]
      ELSE IF big = {} THEN wire' = rest \union {r} /\ press' = [press EXCEPT ![p] = end]
      ELSE wire' = rest \union {r, q} /\ press' = [press EXCEPT ![p] = e]
  BY DEF Up!SendChunk, d, e
<1> HIDE DEF r, g, q, end
<1>7. CASE c < LastChunk
  <2>1. Posts(p, o, id, c, rest, {r}, d)
    BY <1>0, <1>1, <1>3, <1>6, <1>7 DEF Posts, Awaits
  <2> QED
    BY <2>1
<1>8. CASE ~(c < LastChunk) /\ big = {}
  <2>1. Posts(p, o, id, c, rest, {r}, end)
    BY <1>0, <1>1, <1>5, <1>6, <1>8 DEF Posts, Awaits
  <2> QED
    BY <2>1
<1>9. CASE ~(c < LastChunk) /\ big # {}
  <2>1. NoSession \notin Up!Session /\ c = LastChunk /\ NoChunk # 0
    BY <1>0, <1>9, ChunkNumbers
  <2>5. q.chunk = 0
    BY <1>2, <1>9
  <2>6. e.at = "chunks" /\ e.next = 1
    BY <1>4, <1>9
  <2>7. e.ready = FALSE
    BY <1>4, <1>9
  <2>2. q.chunk # NoChunk /\ e.next = q.chunk + 1
    BY <2>1, <2>5, <2>6
  <2>4. Awaits(e, q)
    BY <2>2, <2>6, <2>7 DEF Awaits
  <2>3. Posts(p, o, id, c, rest, {r, q}, e)
    BY <1>0, <1>1, <1>2, <1>4, <1>6, <1>9, <2>1, <2>4 DEF Posts
  <2> QED
    BY <2>3
<1> QED
  BY <1>7, <1>8, <1>9

LEMMA BigPosts ==
    ASSUME NEW p \in Up!Press, NEW o \in Up!Choice, NEW big \in SUBSET Local, NEW rest,
           press \in [Up!Press -> Pressed \union {Up!NotPressed}], Up!GoOnWithBig(p, o, big, rest)
    PROVE  \E new, d : Posts(p, o, NoSession, 0, rest, new, d)
<1>1. CASE big # {}
  <2>1. Up!First(big) \in Local /\ big \ {Up!First(big)} \in SUBSET Local /\ 0 \in Up!Chunks
    BY <1>1, Naming, ChunkNumbers
  <2>2. Up!SendChunk(p, o, Up!First(big), 0, NoSession, big \ {Up!First(big)}, rest)
    BY <1>1 DEF Up!GoOnWithBig
  <2> QED
    BY <2>1, <2>2, ChunkPosts
<1>2. CASE big = {}
  <2> DEFINE end == [at |-> "end", options |-> o]
  <2>1. end \in Pressed /\ end.options = o /\ end.at = "end"
    BY DEF Pressed
  <2>2. wire' = rest /\ press' = [press EXCEPT ![p] = end]
    BY <1>2 DEF Up!GoOnWithBig
  <2> HIDE DEF end
  <2>3. Posts(p, o, NoSession, 0, rest, {}, end)
    BY <2>1, <2>2 DEF Posts
  <2> QED
    BY <2>3
<1> QED
  BY <1>1, <1>2

(* What the page does that sends nothing.                                    *)
LEMMA PageKeeps ==
    ASSUME UpInv, UNCHANGED <<upScene, press, wire, part, rows>>, list' \subseteq Local, options' \in Up!Choice
    PROVE  UpInv'
  BY DEF UpInv, UpTyped, Waiting, Awaits, Accepted, Owns, Arrived, Sound, Whole, Batches

LEMMA ChoosingKeeps ==
    ASSUME UpInv,
           \/ \E f \in Local : Up!Drop(f) \/ Up!AddText(f) \/ Up!Remove(f) \/ Up!RemoveText(f)
           \/ Up!ClearAll \/ Up!ClearSettings
           \/ \E o \in upScene.choices : Up!ChooseOption(o) \/ Up!ChooseEphemeral(o)
    PROVE  UpInv'
<1>1. /\ list \subseteq Local /\ options \in Up!Choice /\ upScene.choices \subseteq Up!Choice
      /\ Up!Unchosen \in Up!Choice
  BY PagesAssumption DEF Up!UploaderAssumption, UpInv, UpTyped, Up!Choice, Up!Unchosen
<1>2. /\ UNCHANGED <<upScene, press, wire, part, rows>>
  BY DEF Up!Drop, Up!AddText, Up!Remove, Up!RemoveText, Up!ClearAll, Up!ClearSettings,
         Up!ChooseOption, Up!ChooseEphemeral
<1>3. list' \subseteq Local
  BY <1>1 DEF Up!Drop, Up!AddText, Up!Remove, Up!RemoveText, Up!ClearAll, Up!ClearSettings,
         Up!ChooseOption, Up!ChooseEphemeral
<1>4. options' \in Up!Choice
  <2>1. ASSUME NEW o \in Up!Choice PROVE [o EXCEPT !.password = options.password] \in Up!Choice
                                         /\ [options EXCEPT !.password = o.password] \in Up!Choice
    BY <1>1 DEF Up!Choice
  <2>2. CASE \E o \in upScene.choices : Up!ChooseOption(o) \/ Up!ChooseEphemeral(o)
    BY <1>1, <2>1, <2>2 DEF Up!ChooseOption, Up!ChooseEphemeral
  <2>3. CASE ~ \E o \in upScene.choices : Up!ChooseOption(o) \/ Up!ChooseEphemeral(o)
    BY <1>1, <2>3 DEF Up!Drop, Up!AddText, Up!Remove, Up!RemoveText, Up!ClearAll, Up!ClearSettings
  <2> QED
    BY <2>2, <2>3
<1> QED
  BY <1>2, <1>3, <1>4, PageKeeps

LEMMA UploadKeeps ==
    ASSUME UpInv, NEW p \in Up!Press, Up!Upload(p)
    PROVE  UpInv'
<1>1. /\ list \subseteq Local /\ options \in Up!Choice /\ press \in [Up!Press -> Pressed \union {Up!NotPressed}]
      /\ press[p] = Up!NotPressed /\ UNCHANGED <<list, upScene, options, unheard, running, part, rows>>
  BY DEF UpInv, UpTyped, Up!Upload
<1>2. \A r \in wire : r.press # p
  BY <1>1 DEF UpInv, Waiting
<1>3. NoSession \notin Up!Session
  BY ChunkNumbers
<1>4. Owns(p, NoSession) /\ \A c : Arrived(NoSession, c)
  BY <1>3 DEF Owns, Arrived
<1>5. \E c, new, d : Posts(p, options, NoSession, c, wire, new, d)
  <2>1. CASE list \subseteq Big
    <3>1. Up!GoOnWithBig(p, options, list, wire)
      BY <2>1 DEF Up!Upload
    <3> QED
      BY <1>1, <3>1, BigPosts
  <2>2. CASE ~(list \subseteq Big)
    <3>1. Up!SendFiles(p, options, list \ Big, list \intersect Big, wire)
      BY <2>2 DEF Up!Upload
    <3>2. list \ Big \in SUBSET Local /\ list \intersect Big \in SUBSET Local
      BY <1>1
    <3> QED
      BY <1>1, <3>1, <3>2, BatchPosts
  <2> QED
    BY <2>1, <2>2
<1>6. PICK c, new, d : Posts(p, options, NoSession, c, wire, new, d)
  BY <1>5
<1>7. wire \in SUBSET wire /\ list' \subseteq Local /\ options' \in Up!Choice
  BY <1>1
<1> QED
  BY <1>1, <1>2, <1>4, <1>6, <1>7, PostKeeps

LEMMA LoadFilesKeeps ==
    ASSUME UpInv, NEW r \in wire, Up!LoadFiles(r)
    PROVE  UpInv'
<1> DEFINE p == r.press
           d == press[p]
<1>1. /\ UpTyped /\ Waiting /\ r \in Sent /\ p \in Up!Press /\ d \in Pressed \union {Up!NotPressed}
      /\ list \subseteq Local /\ options \in Up!Choice
      /\ press \in [Up!Press -> Pressed \union {Up!NotPressed}]
  BY DEF UpInv, UpTyped, Sent, Carried
<1>2. r.chunk = NoChunk /\ r.chunk # LastChunk /\ UNCHANGED <<upScene, unheard, running, part, rows>>
  BY ChunkNumbers DEF Up!LoadFiles
<1>3. d \in Pressed /\ d.at = "files"
  BY <1>1, <1>2 DEF Waiting, Awaits
<1>4. d.options \in Up!Choice /\ d.small \in SUBSET Local /\ d.big \in SUBSET Local
  BY <1>3 DEF Pressed
<1>5. \A q \in wire \ {r} : q.press = p => q.chunk = LastChunk
  BY <1>1, <1>2 DEF Waiting
<1>6. Owns(p, NoSession) /\ \A c : Arrived(NoSession, c)
  BY ChunkNumbers DEF Owns, Arrived
<1>7. list' \subseteq Local /\ options' \in Up!Choice
  <2>1. Up!ClearedEphemeral \in Up!Choice
    BY <1>1 DEF Up!ClearedEphemeral, Up!Choice
  <2> QED
    BY <1>1, <2>1 DEF Up!LoadFiles, Up!EmptyList
<1>8. \E c, new, e : Posts(p, d.options, NoSession, c, wire \ {r}, new, e)
  <2>1. CASE Up!SendFiles(p, d.options, d.small, d.big, wire \ {r})
    BY <1>1, <1>4, <2>1, BatchPosts
  <2>2. CASE Up!GoOnWithBig(p, d.options, d.big, wire \ {r})
    BY <1>1, <1>4, <2>2, BigPosts
  <2> QED
    BY <2>1, <2>2 DEF Up!LoadFiles
<1> HIDE DEF d, p
<1>9. PICK c, new, e : Posts(p, d.options, NoSession, c, wire \ {r}, new, e)
  BY <1>8
<1>10. press[p].options = d.options /\ wire \ {r} \in SUBSET wire
  BY DEF d
<1> QED
  BY <1>1, <1>2, <1>5, <1>6, <1>7, <1>9, <1>10, PostKeeps

LEMMA NextChunkKeeps ==
    ASSUME UpInv, NEW p \in Up!Press, Up!NextChunk(p)
    PROVE  UpInv'
<1> DEFINE d == press[p]
<1>1. /\ UpTyped /\ Waiting /\ Accepted /\ d \in Pressed \union {Up!NotPressed}
      /\ list \subseteq Local /\ options \in Up!Choice
      /\ press \in [Up!Press -> Pressed \union {Up!NotPressed}]
  BY DEF UpInv, UpTyped
<1>2. /\ d.at = "chunks" /\ d.ready /\ UNCHANGED <<list, upScene, options, unheard, running, part, rows>>
      /\ Up!SendChunk(p, d.options, d.file, d.next, d.id, d.big, wire)
  BY DEF Up!NextChunk
<1>3. d # Up!NotPressed
  BY <1>2 DEF Up!NotPressed
<1>4. /\ d.options \in Up!Choice /\ d.file \in Local /\ d.next \in Up!Chunks
      /\ d.id \in Up!Session \union {NoSession} /\ d.big \in SUBSET Local /\ d.ready \in BOOLEAN
  BY <1>1, <1>2, <1>3 DEF Pressed
<1>5. \A r \in wire : r.press = p => r.chunk = LastChunk
  <2>1. ASSUME NEW r \in wire, r.press = p, r.chunk # LastChunk PROVE FALSE
    <3>1. Awaits(d, r)
      BY <1>1, <2>1 DEF Waiting
    <3> QED
      BY <1>2, <3>1 DEF Awaits
  <2> QED
    BY <2>1
<1>6. Owns(p, d.id) /\ Arrived(d.id, d.next)
  BY <1>1, <1>2, <1>3 DEF Accepted
<1> HIDE DEF d
<1>7. \E new, e : Posts(p, d.options, d.id, d.next, wire, new, e)
  BY <1>1, <1>2, <1>4, ChunkPosts
<1>8. PICK new, e : Posts(p, d.options, d.id, d.next, wire, new, e)
  BY <1>7
<1>9. press[p].options = d.options /\ wire \in SUBSET wire /\ list' \subseteq Local /\ options' \in Up!Choice
  BY <1>1, <1>2 DEF d
<1> QED
  BY <1>2, <1>5, <1>6, <1>8, <1>9, PostKeeps

(* An answer heard: the request is off the wire, and the press of a chunk    *)
(* other than the last goes on with the session it names, or ends.           *)
LEMMA HearKeeps ==
    ASSUME UpInv, NEW r \in wire, r.chunk # NoChunk, NEW d,
           wire' = wire \ {r}, UNCHANGED <<upScene, options, part, rows>>, list' \subseteq Local,
           press' = IF r.chunk = LastChunk THEN press ELSE [press EXCEPT ![r.press] = d],
           r.chunk # LastChunk => /\ d \in Pressed /\ d.options = press[r.press].options
                                  /\ d.at = "chunks" => /\ d.id = r.id /\ d.next = r.chunk + 1
                                                        /\ d.ready => r.answer = "ok"
    PROVE  UpInv'
<1> DEFINE p == r.press
<1>1. /\ UpTyped /\ Waiting /\ Accepted /\ Batches /\ (\A s \in Up!Session : Sound(part[s])) /\ p \in Up!Press
      /\ press \in [Up!Press -> Pressed \union {Up!NotPressed}]
  BY DEF UpInv, UpTyped, Sent, Carried
<1>2. \A q \in Up!Press : q # p \/ r.chunk = LastChunk => press'[q] = press[q]
  BY <1>1
<1>3. r.chunk # LastChunk => press'[p] = d /\ d # Up!NotPressed
  BY <1>1, PressedIsNot
<1>4. UpTyped'
  <2>1. press' \in [Up!Press -> Pressed \union {Up!NotPressed}]
    BY <1>1
  <2> QED
    BY <1>1, <2>1 DEF UpTyped
<1>5. \A q \in Up!Press : Continues(q)
  BY <1>2, <1>3 DEF Continues
<1>6. Waiting'
  <2>1. ASSUME NEW q \in wire' PROVE /\ press'[q.press] # Up!NotPressed
                                     /\ q.headers = Up!ApplyUploadHeaders(press'[q.press].options)
    <3>1. q.press \in Up!Press /\ press[q.press] # Up!NotPressed /\ q.headers = Up!ApplyUploadHeaders(press[q.press].options)
      BY <1>1, <2>1 DEF Waiting, UpTyped, Sent, Carried
    <3> QED
      BY <3>1, <1>5 DEF Continues
  <2>2. ASSUME NEW q \in wire', q.chunk # LastChunk PROVE Awaits(press'[q.press], q)
    <3>1. q.press \in Up!Press /\ Awaits(press[q.press], q) /\ q # r /\ q \in wire
      BY <1>1, <2>2 DEF Waiting, UpTyped, Sent, Carried
    <3>2. r.chunk # LastChunk => q.press # p
      BY <1>1, <2>2, <3>1 DEF Waiting
    <3> QED
      BY <1>2, <3>1, <3>2
  <2>3. \A q, w \in wire' : q.press = w.press /\ q.chunk # LastChunk /\ w.chunk # LastChunk => q = w
    BY <1>1 DEF Waiting
  <2> QED
    BY <2>1, <2>2, <2>3 DEF Waiting
<1>7. Accepted'
  <2>1. ASSUME NEW q \in wire'
        PROVE  /\ Owns(q.press, q.id)'
               /\ q.chunk # NoChunk => /\ q.answer = "none" => Arrived(q.id, q.chunk)'
                                       /\ q.answer = "ok" => Arrived(q.id, q.chunk + 1)'
    <3>1. /\ Owns(q.press, q.id)
          /\ q.chunk # NoChunk => /\ q.answer = "none" => Arrived(q.id, q.chunk)
                                  /\ q.answer = "ok" => Arrived(q.id, q.chunk + 1)
      BY <1>1, <2>1 DEF Accepted
    <3> QED
      BY <3>1 DEF Owns, Arrived
  <2>2. ASSUME NEW q \in Up!Press, press'[q] # Up!NotPressed, press'[q].at = "chunks"
        PROVE  Owns(q, press'[q].id) /\ (press'[q].ready => Arrived(press'[q].id, press'[q].next))
    <3>1. CASE q # p \/ r.chunk = LastChunk
      BY <1>1, <1>2, <2>2, <3>1 DEF Accepted
    <3>2. CASE q = p /\ r.chunk # LastChunk
      <4>1. d.at = "chunks" /\ d.id = r.id /\ d.next = r.chunk + 1 /\ (d.ready => r.answer = "ok")
        BY <1>3, <2>2, <3>2
      <4>2. Owns(p, r.id) /\ (r.answer = "ok" => Arrived(r.id, r.chunk + 1))
        BY <1>1 DEF Accepted
      <4> QED
        BY <1>3, <3>2, <4>1, <4>2
    <3> QED
      BY <3>1, <3>2
  <2>3. ASSUME NEW q \in Up!Press, press'[q] # Up!NotPressed, press'[q].at = "chunks"
        PROVE  Owns(q, press[q].id)' /\ (press'[q].ready => Arrived(press[q].id, press[q].next)')
    BY <2>2, <2>3 DEF Owns, Arrived
  <2> QED
    BY <2>1, <2>3 DEF Accepted
<1>8. \A s \in Up!Session : Sound(part[s])'
  <2>1. SUFFICES ASSUME NEW s \in Up!Session PROVE Sound(part[s])'
    OBVIOUS
  <2>2. PICK q : q = part[s]
    OBVIOUS
  <2>3. Sound(q)' /\ part'[s] = q
    BY <1>1, <1>5, <2>2, SoundLasts
  <2> QED
    BY <2>3 DEF Sound, Whole
<1>9. Batches'
  BY <1>1, <1>5, BatchesLast
<1> QED
  BY <1>4, <1>6, <1>7, <1>8, <1>9 DEF UpInv

LEMMA LoadKeeps ==
    ASSUME UpInv, NEW r \in wire, Up!LoadChunk(r) \/ Up!LoadRefusal(r) \/ Up!HearNothing(r)
    PROVE  UpInv'
<1> DEFINE p == r.press
           ready == [press[p] EXCEPT !.ready = TRUE, !.id = r.id]
           hung == [press[p] EXCEPT !.at = "hung"]
<1>1. /\ UpTyped /\ Waiting /\ r \in Sent /\ p \in Up!Press /\ r.chunk # NoChunk
      /\ press \in [Up!Press -> Pressed \union {Up!NotPressed}] /\ press[p] \in Pressed
      /\ list \subseteq Local
  BY DEF UpInv, UpTyped, Sent, Carried, Up!LoadChunk, Up!LoadRefusal, Up!HearNothing, Waiting
<1>2. ASSUME r.chunk # LastChunk
      PROVE  /\ press[p].at = "chunks" /\ press[p].next = r.chunk + 1 /\ press[p].ready = FALSE
             /\ press[p] \in [at: {"chunks", "hung"}, options: Up!Choice, file: Local,
                              id: Up!Session \union {NoSession}, next: Up!Chunks, ready: BOOLEAN, big: SUBSET Local]
  <2>1. Awaits(press[p], r)
    BY <1>1, <1>2 DEF Waiting
  <2>2. press[p].at = "chunks" /\ press[p].next = r.chunk + 1 /\ press[p].ready = FALSE
    BY <1>1, <2>1 DEF Awaits
  <2> QED
    BY <1>1, <2>2 DEF Pressed
<1>3. r.id \in Up!Session \union {NoSession}
  BY <1>1 DEF Sent, Carried
<1>4. r.chunk # LastChunk =>
        /\ ready \in Pressed /\ ready.options = press[p].options /\ ready.id = r.id /\ ready.next = r.chunk + 1
        /\ hung \in Pressed /\ hung.options = press[p].options /\ hung.at = "hung"
  BY <1>2, <1>3 DEF Pressed
<1>5. CASE Up!LoadChunk(r)
  <2>1. press' = IF r.chunk = LastChunk THEN press ELSE [press EXCEPT ![p] = ready]
    BY <1>1, <1>5 DEF Up!LoadChunk
  <2>2. wire' = wire \ {r} /\ UNCHANGED <<upScene, options, part, rows>> /\ list' \subseteq Local /\ r.answer = "ok"
    BY <1>1, <1>5 DEF Up!LoadChunk
  <2> HIDE DEF ready
  <2> QED
    BY <1>1, <1>4, <2>1, <2>2, HearKeeps
<1>6. CASE Up!LoadRefusal(r) \/ Up!HearNothing(r)
  <2>1. press' = IF r.chunk = LastChunk THEN press ELSE [press EXCEPT ![p] = hung]
    BY <1>1, <1>6 DEF Up!LoadRefusal, Up!HearNothing
  <2>2. wire' = wire \ {r} /\ UNCHANGED <<upScene, options, part, rows>> /\ list' \subseteq Local
    BY <1>1, <1>6 DEF Up!LoadRefusal, Up!HearNothing
  <2> HIDE DEF hung
  <2> QED
    BY <1>1, <1>4, <2>1, <2>2, HearKeeps
<1> QED
  BY <1>5, <1>6

-----------------------------------------------------------------------------
(* A step of the server: requests become answers, or are lost.               *)
Becomes(r, w) ==
    /\ w \in Sent /\ w.press = r.press /\ w.chunk = r.chunk /\ w.headers = r.headers
    /\ w = r \/ Owns(r.press, w.id)'
    /\ w = r \/ r.chunk = NoChunk \/ (w.answer # "none" /\ (w.answer = "ok" => Arrived(w.id, r.chunk + 1)'))

LEMMA ServerKeeps ==
    ASSUME UpInv, UNCHANGED <<list, upScene, options, press>>, NEW F, wire' = {F[r] : r \in wire},
           \A r \in wire : Becomes(r, F[r]),
           part' \in [Up!Session -> Part], \A s \in Up!Session : Lasts(s) /\ Sound(part[s])',
           rows' \subseteq Stored, Batches'
    PROVE  UpInv'
<1>1. /\ UpTyped /\ Waiting /\ Accepted /\ wire \subseteq Sent
  BY DEF UpInv, UpTyped
<1>2. UpTyped'
  BY <1>1 DEF UpTyped, Becomes
<1>3. Waiting'
  <2>1. ASSUME NEW w \in wire'
        PROVE  /\ press'[w.press] # Up!NotPressed /\ w.headers = Up!ApplyUploadHeaders(press'[w.press].options)
               /\ w.chunk # LastChunk => Awaits(press'[w.press], w)
    <3>1. PICK r \in wire : w = F[r]
      OBVIOUS
    <3>2. w.press = r.press /\ w.chunk = r.chunk /\ w.headers = r.headers
      BY <3>1 DEF Becomes
    <3>3. /\ press[r.press] # Up!NotPressed /\ r.headers = Up!ApplyUploadHeaders(press[r.press].options)
          /\ r.chunk # LastChunk => Awaits(press[r.press], r)
      BY <1>1 DEF Waiting
    <3>4. Awaits(press[r.press], r) => Awaits(press[r.press], w)
      BY <3>2 DEF Awaits
    <3> QED
      BY <3>2, <3>3, <3>4
  <2>2. ASSUME NEW v \in wire', NEW w \in wire', v.press = w.press, v.chunk # LastChunk, w.chunk # LastChunk
        PROVE  v = w
    <3>1. PICK q \in wire : v = F[q]
      OBVIOUS
    <3>2. PICK r \in wire : w = F[r]
      OBVIOUS
    <3>3. q.press = r.press /\ q.chunk # LastChunk /\ r.chunk # LastChunk
      BY <2>2, <3>1, <3>2 DEF Becomes
    <3> QED
      BY <1>1, <3>1, <3>2, <3>3 DEF Waiting
  <2> QED
    BY <2>1, <2>2 DEF Waiting
<1>4. Accepted'
  <2>1. ASSUME NEW w \in wire'
        PROVE  /\ Owns(w.press, w.id)'
               /\ w.chunk # NoChunk => /\ w.answer = "none" => Arrived(w.id, w.chunk)'
                                       /\ w.answer = "ok" => Arrived(w.id, w.chunk + 1)'
    <3>1. PICK r \in wire : w = F[r]
      OBVIOUS
    <3>2. CASE w # r
      BY <3>1, <3>2 DEF Becomes
    <3>3. CASE w = r
      <4>1. /\ Owns(r.press, r.id)
            /\ r.chunk # NoChunk => /\ r.answer = "none" => Arrived(r.id, r.chunk)
                                    /\ r.answer = "ok" => Arrived(r.id, r.chunk + 1)
        BY <1>1 DEF Accepted
      <4>2. Owns(r.press, r.id)'
        BY <4>1, OwnsLasts
      <4>3. ASSUME r.chunk # NoChunk, r.answer = "none" PROVE Arrived(r.id, r.chunk)'
        BY <4>1, <4>3, HoldsLasts
      <4>4. ASSUME r.chunk # NoChunk, r.answer = "ok" PROVE Arrived(r.id, r.chunk + 1)'
        BY <4>1, <4>4, HoldsLasts
      <4> QED
        BY <3>3, <4>2, <4>3, <4>4
    <3> QED
      BY <3>2, <3>3
  <2>2. ASSUME NEW p \in Up!Press, press[p] # Up!NotPressed, press[p].at = "chunks"
        PROVE  Owns(p, press[p].id)' /\ (press[p].ready => Arrived(press[p].id, press[p].next)')
    <3>1. Owns(p, press[p].id) /\ (press[p].ready => Arrived(press[p].id, press[p].next))
      BY <1>1, <2>2 DEF Accepted
    <3>2. PICK id, n : id = press[p].id /\ n = press[p].next
      OBVIOUS
    <3>3. Owns(p, id)' /\ (press[p].ready => Arrived(id, n)')
      BY <3>1, <3>2, OwnsLasts, HoldsLasts
    <3>4. press' = press
      OBVIOUS
    <3> QED
      BY <3>2, <3>3, <3>4 DEF Owns, Arrived
  <2>3. press' = press
    OBVIOUS
  <2> QED
    BY <2>1, <2>2, <2>3 DEF Accepted
<1> QED
  BY <1>2, <1>3, <1>4 DEF UpInv

(* One session is stepped.                                                   *)
LEMMA OneSession ==
    ASSUME UpInv, press' = press, NEW s \in Up!Session, NEW q \in Part, part' = [part EXCEPT ![s] = q],
           Sound(q), Follows(part[s], q)
    PROVE  part' \in [Up!Session -> Part] /\ \A x \in Up!Session : Lasts(x) /\ Sound(part[x])'
<1>1. part \in [Up!Session -> Part] /\ \A x \in Up!Session : Sound(part[x])
  BY DEF UpInv, UpTyped
<1>2. ASSUME NEW x \in Up!Session PROVE Lasts(x) /\ Sound(part[x])'
  <2>1. PICK v : v = part'[x]
    OBVIOUS
  <2>2. Sound(v) /\ Follows(part[x], v)
    BY <1>1, <2>1 DEF Follows
  <2>3. Sound(v)'
    BY <2>2 DEF Sound, Whole
  <2> QED
    BY <2>1, <2>2, <2>3 DEF Lasts, Sound, Whole
<1> QED
  BY <1>1, <1>2

LEMMA SameWire ==
    ASSUME UpInv, UNCHANGED <<list, upScene, options, press, wire, rows>>,
           part' \in [Up!Session -> Part], \A s \in Up!Session : Lasts(s) /\ Sound(part[s])'
    PROVE  UpInv'
<1> DEFINE F == [r \in wire |-> r]
<1>1. wire' = {F[r] : r \in wire}
  OBVIOUS
<1>2. wire \subseteq Sent /\ rows \subseteq Stored /\ Batches /\ press' = press /\ rows' = rows
  BY DEF UpInv, UpTyped
<1>3. \A r \in wire : Becomes(r, F[r])
  BY <1>2 DEF Becomes
<1>4. Batches'
  BY <1>2 DEF Batches
<1> HIDE DEF F
<1> QED
  BY <1>1, <1>2, <1>3, <1>4, ServerKeeps

LEMMA Dies ==
    ASSUME UpInv, NEW parts \in [Up!Session -> Part],
           \A s \in Up!Session : Sound(parts[s]) /\ Follows(part[s], parts[s]), Up!DieWith(parts)
    PROVE  UpInv'
<1> DEFINE D(s) == [parts[s] EXCEPT !.live = FALSE, !.worker = IF @ \in {"none", "ended"} THEN @ ELSE "dead"]
           F == [r \in wire |-> IF r.answer = "none" THEN [r EXCEPT !.answer = "lost"] ELSE r]
<1>1. /\ UNCHANGED <<list, upScene, options, press, rows>> /\ part' = [s \in Up!Session |-> D(s)]
      /\ wire' = {F[r] : r \in wire}
  BY DEF Up!DieWith, Up!pageVars
<1>2. wire \subseteq Sent /\ rows \subseteq Stored /\ Batches /\ Accepted
  BY DEF UpInv, UpTyped
<1>3. ASSUME NEW s \in Up!Session PROVE D(s) \in Part /\ Follows(part[s], D(s)) /\ Sound(D(s))
  <2>1. parts[s] \in Part /\ Sound(parts[s]) /\ Follows(part[s], parts[s])
    OBVIOUS
  <2>2. D(s) \in Part
    BY ZenonT(60), <2>1 DEF Part
  <2>3. /\ D(s).live = FALSE /\ D(s).length = parts[s].length /\ D(s).press = parts[s].press
        /\ D(s).row = parts[s].row /\ D(s).object = parts[s].object /\ D(s).options = parts[s].options
        /\ D(s).deletesAt = parts[s].deletesAt /\ D(s).disturbed = parts[s].disturbed
        /\ D(s).worker = IF parts[s].worker \in {"none", "ended"} THEN parts[s].worker ELSE "dead"
    BY <2>1 DEF Part
  <2>4. Follows(part[s], D(s))
    BY <2>1, <2>3 DEF Follows
  <2>5. parts[s].length = 0 => D(s) = Up!NotBegun
    <3>1. Up!NotBegun.live = FALSE /\ Up!NotBegun.worker = "none"
      BY DEF Up!NotBegun
    <3>2. ASSUME parts[s].length = 0 PROVE parts[s].live = FALSE /\ parts[s].worker = "none" /\ parts[s] = Up!NotBegun
      BY <2>1, <3>1, <3>2 DEF Sound
    <3>3. parts[s].live = FALSE /\ parts[s].worker = "none" => D(s) = parts[s]
      BY <2>1 DEF Part
    <3> QED
      BY <3>2, <3>3
  <2>6. Sound(D(s))
    <3> HIDE DEF D
    <3> QED
      BY <2>1, <2>3, <2>5 DEF Sound, Whole
  <2> QED
    BY <2>2, <2>4, <2>6
<1>4. part' \in [Up!Session -> Part] /\ \A s \in Up!Session : part'[s] = D(s)
  BY <1>1, <1>3
<1>5. ASSUME NEW s \in Up!Session PROVE Lasts(s) /\ Sound(part[s])'
  <2>1. PICK v : v = part'[s]
    OBVIOUS
  <2>2. Sound(v) /\ Follows(part[s], v)
    BY <1>3, <1>4, <2>1
  <2>3. Sound(v)' /\ press' = press
    BY <1>1, <2>2 DEF Sound, Whole
  <2> QED
    BY <2>1, <2>2, <2>3 DEF Lasts, Sound, Whole
<1>6. ASSUME NEW r \in wire PROVE Becomes(r, F[r])
  <2>1. r \in Sent
    BY <1>2
  <2>2. F[r] = r \/ F[r] = [r EXCEPT !.answer = "lost"]
    OBVIOUS
  <2>3. F[r] \in Sent /\ F[r].press = r.press /\ F[r].chunk = r.chunk /\ F[r].headers = r.headers /\ F[r].id = r.id
        /\ (F[r] # r => F[r].answer = "lost")
    BY <2>1, <2>2 DEF Sent, Carried
  <2>4. Owns(r.press, r.id)'
    BY <1>2, <1>5, OwnsLasts DEF Accepted
  <2>5. PICK v : v = F[r]
    OBVIOUS
  <2>6. v.press = r.press /\ v.id = r.id /\ (v # r => v.answer = "lost") /\ v \in Sent /\ v.chunk = r.chunk /\ v.headers = r.headers
    BY <2>3, <2>5
  <2>7. Owns(r.press, v.id)'
    BY <2>4, <2>6 DEF Owns
  <2>8. Becomes(r, v)
    BY <2>6, <2>7 DEF Becomes
  <2> QED
    BY <2>5, <2>8
<1>7. Batches'
  BY <1>1, <1>2 DEF Batches
<1> HIDE DEF F, D
<1> QED
  BY <1>1, <1>2, <1>4, <1>5, <1>6, <1>7, ServerKeeps

LEMMA SteppedKeeps ==
    ASSUME UpInv, NEW s \in Up!Session, NEW exists, NEW q \in Part, Sound(q), Follows(part[s], q),
           Up!Stepped(s, exists, q)
    PROVE  UpInv'
<1>1. CASE exists
  <2>1. part' = [part EXCEPT ![s] = q] /\ UNCHANGED <<list, upScene, options, press, wire, rows>>
    BY <1>1 DEF Up!Stepped, Up!pageVars
  <2> QED
    BY <2>1, OneSession, SameWire
<1>2. CASE ~exists
  <2> DEFINE parts == [part EXCEPT ![s] = q]
  <2>1. Up!DieWith(parts)
    BY <1>2 DEF Up!Stepped
  <2>2. part \in [Up!Session -> Part] /\ \A x \in Up!Session : Sound(part[x])
    BY DEF UpInv, UpTyped
  <2>3. parts \in [Up!Session -> Part]
    BY <2>2
  <2>4. \A x \in Up!Session : Sound(parts[x]) /\ Follows(part[x], parts[x])
    BY <2>2 DEF Follows
  <2> HIDE DEF parts
  <2> QED
    BY <2>1, <2>3, <2>4, Dies
<1> QED
  BY <1>1, <1>2

LEMMA UploadAnswerKeeps ==
    ASSUME UpInv, NEW r \in wire, NEW a \in {"ok", "error", "lost"}, NEW id \in Up!Session \union {NoSession},
           Up!Answer(r, a, id), UNCHANGED <<list, upScene, options, press>>,
           part' \in [Up!Session -> Part], \A s \in Up!Session : Lasts(s) /\ Sound(part[s])',
           rows' \subseteq Stored, Batches',
           id = r.id \/ Owns(r.press, id)', a = "ok" => r.chunk = NoChunk \/ Arrived(id, r.chunk + 1)'
    PROVE  UpInv'
<1> DEFINE w == [r EXCEPT !.answer = a, !.id = id]
           F == [q \in wire |-> IF q = r THEN w ELSE q]
<1>1. wire \subseteq Sent /\ Accepted /\ r \in Sent
  BY DEF UpInv, UpTyped
<1>2. w \in Sent /\ w.press = r.press /\ w.chunk = r.chunk /\ w.headers = r.headers /\ w.id = id /\ w.answer = a
  BY <1>1 DEF Sent, Carried
<1>3. wire' = {F[q] : q \in wire}
  BY DEF Up!Answer
<1>4. Owns(r.press, r.id)'
  BY <1>1, OwnsLasts DEF Accepted
<1> HIDE DEF w
<1>5. ASSUME NEW q \in wire PROVE Becomes(q, F[q])
  <2>1. CASE q = r
    <3>1. Owns(r.press, w.id)'
      BY <1>2, <1>4 DEF Owns
    <3>2. a = "ok" => r.chunk = NoChunk \/ Arrived(w.id, r.chunk + 1)'
      BY <1>2 DEF Arrived
    <3>3. Becomes(r, w)
      BY <1>2, <3>1, <3>2 DEF Becomes
    <3> QED
      BY <2>1, <3>3
  <2>2. CASE q # r
    BY <1>1, <2>2 DEF Becomes
  <2> QED
    BY <2>1, <2>2
<1> HIDE DEF F
<1> QED
  BY <1>3, <1>5, ServerKeeps

LEMMA LoseKeeps ==
    ASSUME UpInv, NEW r \in wire, Up!Lose(r)
    PROVE  UpInv'
<1>1. /\ UNCHANGED <<list, upScene, options, press, part, rows>> /\ Up!Answer(r, "lost", r.id)
      /\ r.id \in Up!Session \union {NoSession}
  BY DEF Up!Lose, Up!pageVars, UpInv, UpTyped, Sent, Carried
<1>2. /\ part \in [Up!Session -> Part] /\ (\A s \in Up!Session : Sound(part[s])) /\ rows \subseteq Stored /\ Batches
  BY DEF UpInv, UpTyped
<1>3. Batches'
  BY <1>1, <1>2 DEF Batches
<1>4. \A s \in Up!Session : Lasts(s) /\ Sound(part[s])'
  BY <1>1, <1>2 DEF Lasts, Follows, Sound, Whole
<1> QED
  BY <1>1, <1>2, <1>3, <1>4, UploadAnswerKeeps

LEMMA ServeFilesKeeps ==
    ASSUME UpInv, NEW r \in wire, NEW done \in SUBSET r.files, Up!ServeFiles(r, done)
    PROVE  UpInv'
<1> DEFINE N == {[press |-> r.press, file |-> f, options |-> Up!ParseHeaders(r.headers)] : f \in done}
           a == IF done = r.files THEN "ok" ELSE "error"
<1>1. /\ UNCHANGED <<list, upScene, options, press, part>> /\ Up!Answer(r, a, NoSession)
      /\ r.chunk = NoChunk /\ rows' = rows \union N
  BY DEF Up!ServeFiles, Up!pageVars
<1>2. /\ part \in [Up!Session -> Part] /\ (\A s \in Up!Session : Sound(part[s])) /\ rows \subseteq Stored /\ Batches
      /\ press \in [Up!Press -> Pressed \union {Up!NotPressed}] /\ r \in Sent
  BY DEF UpInv, UpTyped
<1>3. /\ r.press \in Up!Press /\ r.files \subseteq Local /\ press[r.press] # Up!NotPressed
      /\ r.headers = Up!ApplyUploadHeaders(press[r.press].options)
  BY <1>2 DEF UpInv, Waiting, Sent, Carried
<1>4. press[r.press].options \in Up!Choice
  BY <1>2, <1>3 DEF Pressed
<1>5. Up!ParseHeaders(r.headers) = press[r.press].options
  BY <1>3, <1>4, HeadersSayAll
<1>6. \A w \in N : w \in Stored /\ w.press = r.press /\ w.options = press[r.press].options
  BY <1>3, <1>4, <1>5 DEF Stored
<1> HIDE DEF N
<1>7. rows' \subseteq Stored /\ Batches'
  BY <1>1, <1>2, <1>3, <1>6 DEF Batches
<1>8. \A s \in Up!Session : Lasts(s) /\ Sound(part[s])'
  BY <1>1, <1>2 DEF Lasts, Follows, Sound, Whole
<1>9. Owns(r.press, NoSession)' /\ a \in {"ok", "error", "lost"} /\ part' \in [Up!Session -> Part]
  BY <1>1, <1>2, ChunkNumbers DEF Owns
<1> HIDE DEF a
<1> QED
  BY <1>1, <1>7, <1>8, <1>9, UploadAnswerKeeps

(* The session a chunk is counted in.                                        *)
LEMMA OpenedSession ==
    ASSUME UpInv, NEW r \in wire, r.chunk # NoChunk, r.answer = "none", NEW s \in Up!SessionOf(r),
           NEW q, q = Up!Opened(r, s)
    PROVE  /\ s \in Up!Session /\ r.press \in Up!Press /\ r.chunk \in Up!Chunks
           /\ q \in Part /\ q.length > 0 /\ q.press = r.press /\ q.live /\ Follows(part[s], q)
           /\ q.row = "none" /\ q.worker = "none" /\ q.object = {}
           /\ ~q.disturbed => \A d \in Up!Chunks : d < r.chunk => d \in q.temp
<1>1. /\ r \in Carried({{f} : f \in Local}, Up!Chunks) /\ part \in [Up!Session -> Part]
      /\ \A x \in Up!Session : Sound(part[x])
  BY DEF UpInv, UpTyped, Sent, Carried
<1>2. r.press \in Up!Press /\ r.chunk \in Up!Chunks /\ \E f \in Local : r.files = {f}
  BY <1>1 DEF Carried
<1>3. CASE r.chunk = 0
  <2>1. s \in Up!Session /\ part[s] = Up!NotBegun
    BY <1>3 DEF Up!SessionOf, Up!NextSession
  <2>2. q = [part[s] EXCEPT !.live = TRUE, !.length = 1, !.file = Up!First(r.files), !.press = r.press]
    BY <1>3 DEF Up!Opened
  <2>3. part[s] \in Part /\ Up!First(r.files) \in Local
    BY <1>1, <1>2, <2>1, Naming
  <2>7. PICK f \in Local : f = Up!First(r.files)
    BY <2>3
  <2>8. q = [part[s] EXCEPT !.live = TRUE, !.length = 1, !.file = f, !.press = r.press]
    BY <2>2, <2>7
  <2>9. q \in Part
    <3>1. PICK v \in Part, g \in Local \union {0}, p \in Up!Press \union {0}, n \in Nat :
            v = part[s] /\ g = f /\ p = r.press /\ n = 1
      BY <1>2, <2>3
    <3>2. q = [v EXCEPT !.live = TRUE, !.length = n, !.file = g, !.press = p]
      BY <2>8, <3>1
    <3> QED
      BY <3>2 DEF Part
  <2>4. /\ q.length = 1 /\ q.press = r.press /\ q.live /\ q.row = part[s].row
        /\ q.worker = part[s].worker /\ q.object = part[s].object
    BY <2>3, <2>8 DEF Part
  <2>5. part[s].length = 0 /\ part[s].row = "none" /\ part[s].worker = "none" /\ part[s].object = {}
    BY <2>1 DEF Up!NotBegun
  <2>6. \A d \in Up!Chunks : ~(d < 0)
    BY ChunkNumbers
  <2> QED
    BY <1>2, <1>3, <2>1, <2>4, <2>5, <2>6, <2>9 DEF Follows
<1>4. CASE r.chunk # 0
  <2>1. s \in Up!Session /\ s = r.id /\ part[s].live /\ q = part[s]
    BY <1>4 DEF Up!SessionOf, Up!Opened
  <2>2. Owns(r.press, s) /\ Arrived(s, r.chunk)
    BY <2>1 DEF UpInv, Accepted
  <2>3. q \in Part /\ Sound(q)
    BY <1>1, <2>1
  <2> QED
    BY <1>2, <2>1, <2>2, <2>3 DEF Follows, Owns, Arrived, Sound
<1> QED
  BY <1>3, <1>4

LEMMA ServeChunkKeeps ==
    ASSUME UpInv, NEW r \in wire, NEW s \in Up!SessionOf(r), r.chunk # NoChunk, r.answer = "none",
           NEW q \in Part, Sound(q), Follows(part[s], q), part' = [part EXCEPT ![s] = q],
           NEW a \in {"ok", "error"}, NEW id, id = r.id \/ (id = s /\ q.length > 0 /\ q.press = r.press), Up!Answer(r, a, id),
           a = "ok" => /\ id = s
                       /\ q.live /\ ~q.disturbed => \A d \in Up!Chunks : d < r.chunk + 1 => d \in q.temp,
           UNCHANGED <<list, upScene, options, press, rows>>
    PROVE  UpInv'
<1>1. s \in Up!Session
  BY DEF Up!SessionOf, Up!NextSession
<1>2. part' \in [Up!Session -> Part] /\ \A x \in Up!Session : Lasts(x) /\ Sound(part[x])'
  BY <1>1, OneSession
<1>3. rows \subseteq Stored /\ Batches /\ r \in Sent /\ part \in [Up!Session -> Part]
  BY DEF UpInv, UpTyped
<1>4. r.id \in Up!Session \union {NoSession}
  BY <1>3 DEF Sent, Carried
<1>5. part'[s] = q /\ rows' \subseteq Stored
  BY <1>1, <1>3
<1>6. Batches'
  BY <1>3 DEF Batches
<1>7. id = r.id \/ Owns(r.press, id)'
  BY <1>5 DEF Owns
<1>8. a = "ok" => Arrived(id, r.chunk + 1)'
  BY <1>5 DEF Arrived
<1>9. id \in Up!Session \union {NoSession} /\ a \in {"ok", "error", "lost"}
  BY <1>1, <1>4
<1> QED
  BY <1>2, <1>5, <1>6, <1>7, <1>8, <1>9, UploadAnswerKeeps

LEMMA UploadServeKeeps ==
    ASSUME UpInv, NEW r \in wire, Up!Serve(r)
    PROVE  UpInv'
<1>1. CASE \E done \in SUBSET r.files : Up!ServeFiles(r, done)
  BY <1>1, ServeFilesKeeps
<1>2. CASE Up!ServeNoSession(r)
  <2>1. /\ UNCHANGED <<list, upScene, options, press, part, rows>> /\ Up!Answer(r, "error", r.id)
        /\ r.id \in Up!Session \union {NoSession}
    BY <1>2 DEF Up!ServeNoSession, Up!pageVars, UpInv, UpTyped, Sent, Carried
  <2>2. /\ part \in [Up!Session -> Part] /\ (\A s \in Up!Session : Sound(part[s])) /\ rows \subseteq Stored /\ Batches
    BY DEF UpInv, UpTyped
  <2>3. Batches'
    BY <2>1, <2>2 DEF Batches
  <2>4. \A s \in Up!Session : Lasts(s) /\ Sound(part[s])'
    BY <2>1, <2>2 DEF Lasts, Follows, Sound, Whole
  <2> QED
    BY <2>1, <2>2, <2>3, <2>4, UploadAnswerKeeps
<1>3. ASSUME NEW s \in Up!SessionOf(r),
             \/ Up!ServeTooLarge(r, s) \/ Up!ServeOverQuota(r, s) \/ Up!ServeChunk(r, s)
             \/ \E temp \in {{}, {r.chunk}} : Up!ServeFailing(r, s, temp)
      PROVE  UpInv'
  <2>1. r.chunk # NoChunk /\ r.answer = "none" /\ UNCHANGED <<list, upScene, options, press, rows>>
    BY <1>3 DEF Up!ServeTooLarge, Up!ServeOverQuota, Up!ServeChunk, Up!ServeFailing, Up!Serving, Up!pageVars
  <2>2. PICK q : q = Up!Opened(r, s)
    OBVIOUS
  <2>3. /\ s \in Up!Session /\ r.press \in Up!Press /\ r.chunk \in Up!Chunks
        /\ q \in Part /\ q.length > 0 /\ q.press = r.press /\ q.live /\ Follows(part[s], q)
        /\ q.row = "none" /\ q.worker = "none" /\ q.object = {}
        /\ ~q.disturbed => \A d \in Up!Chunks : d < r.chunk => d \in q.temp
    BY <2>1, <2>2, OpenedSession
  <2>4. CASE Up!ServeTooLarge(r, s) \/ Up!ServeOverQuota(r, s)
    <3> DEFINE w == Up!DeletePartial(q)
    <3>1. part' = [part EXCEPT ![s] = w] /\ Up!Answer(r, "error", r.id)
      BY <2>2, <2>4 DEF Up!ServeTooLarge, Up!ServeOverQuota
    <3>2. /\ w \in Part /\ w.length = q.length /\ w.press = q.press /\ w.live = FALSE /\ w.row = "none"
          /\ w.worker = "none" /\ w.object = {}
      BY <2>3 DEF Up!DeletePartial, Part
    <3> HIDE DEF w
    <3>3. Sound(w) /\ Follows(part[s], w)
      BY <2>3, <3>2 DEF Sound, Follows
    <3> QED
      BY <2>1, <3>1, <3>2, <3>3, ServeChunkKeeps
  <2>5. ASSUME NEW temp \in {{}, {r.chunk}}
        PROVE  \A w : w = Up!Counted(r, s, temp) =>
               /\ w \in Part /\ w.length > 0 /\ w.press = q.press /\ w.live = q.live /\ w.row = "none"
               /\ w.worker = "none" /\ w.object = {} /\ w.temp = q.temp \union temp /\ w.disturbed = q.disturbed
    <3>1. Up!Counted(r, s, temp) = [q EXCEPT !.length = @ + 1, !.temp = @ \union temp]
      BY <2>2 DEF Up!Counted
    <3>2. q.length \in Nat /\ q.length + 1 \in Nat /\ q.length + 1 > 0 /\ q.temp \union temp \subseteq Up!Chunks
      BY <2>3 DEF Part
    <3>3. PICK n \in Nat : n = q.length + 1 /\ n > 0
      BY <3>2
    <3>4. ASSUME NEW w, w = Up!Counted(r, s, temp)
          PROVE  /\ w \in Part /\ w.length = n /\ w.press = q.press /\ w.live = q.live /\ w.row = q.row
                 /\ w.worker = q.worker /\ w.object = q.object /\ w.temp = q.temp \union temp /\ w.disturbed = q.disturbed
      <4>1. w = [q EXCEPT !.length = n, !.temp = q.temp \union temp]
        BY <3>1, <3>3, <3>4
      <4> QED
        BY <2>3, <3>2, <4>1 DEF Part
    <3> QED
      BY <2>3, <3>3, <3>4
  <2>6. CASE \E temp \in {{}, {r.chunk}} : Up!ServeFailing(r, s, temp)
    <3>1. PICK temp \in {{}, {r.chunk}} : Up!ServeFailing(r, s, temp)
      BY <2>6
    <3>2. PICK w : w = Up!Counted(r, s, temp)
      OBVIOUS
    <3>3. part' = [part EXCEPT ![s] = w] /\ Up!Answer(r, "error", r.id)
      BY <3>1, <3>2 DEF Up!ServeFailing
    <3>4. /\ w \in Part /\ w.length > 0 /\ w.press = q.press /\ w.live = q.live /\ w.row = "none"
          /\ w.worker = "none" /\ w.object = {} /\ w.temp = q.temp \union temp /\ w.disturbed = q.disturbed
      BY <2>5, <3>2
    <3>5. Sound(w) /\ Follows(part[s], w)
      BY <2>3, <3>4 DEF Sound, Follows
    <3> QED
      BY <2>1, <3>3, <3>4, <3>5, ServeChunkKeeps
  <2>7. CASE Up!ServeChunk(r, s)
    <3>1. PICK v : v = Up!Counted(r, s, {r.chunk})
      OBVIOUS
    <3>2. /\ v \in Part /\ v.length > 0 /\ v.press = q.press /\ v.live = q.live /\ v.row = "none"
          /\ v.worker = "none" /\ v.object = {} /\ v.temp = q.temp \union {r.chunk} /\ v.disturbed = q.disturbed
      BY <2>5, <3>1
    <3>3. Up!Answer(r, "ok", s)
      BY <2>7 DEF Up!ServeChunk
    <3>4. ~v.disturbed => \A d \in Up!Chunks : d < r.chunk + 1 => d \in v.temp
      <4>1. \A d \in Up!Chunks : d < r.chunk + 1 => d < r.chunk \/ d = r.chunk
        <5>1. r.chunk \in Nat /\ \A d \in Up!Chunks : d \in Nat
          BY <2>3, ChunkNumbers
        <5> QED
          BY <5>1
      <4> QED
        BY <2>3, <3>2, <4>1
    <3>5. CASE r.chunk < LastChunk
      <4>1. part' = [part EXCEPT ![s] = v]
        BY <2>7, <3>1, <3>5 DEF Up!ServeChunk
      <4>2. Sound(v) /\ Follows(part[s], v)
        BY <2>3, <3>2 DEF Sound, Follows
      <4> QED
        BY <2>1, <2>3, <3>2, <3>3, <3>4, <4>1, <4>2, ServeChunkKeeps
    <3>6. CASE ~(r.chunk < LastChunk)
      <4> DEFINE o == Up!ParseHeaders(r.headers)
                 w == [v EXCEPT !.live = FALSE, !.row = "pending", !.worker = "start", !.options = o]
      <4>1. part' = [part EXCEPT ![s] = w]
        BY <2>7, <3>1, <3>6 DEF Up!ServeChunk
      <4>2. /\ press[r.press] # Up!NotPressed /\ press \in [Up!Press -> Pressed \union {Up!NotPressed}]
            /\ r.headers = Up!ApplyUploadHeaders(press[r.press].options)
        BY DEF UpInv, Waiting, UpTyped
      <4>3. press[r.press].options \in Up!Choice
        BY <2>3, <4>2 DEF Pressed
      <4>4. o = press[r.press].options
        BY <4>2, <4>3, HeadersSayAll
      <4> HIDE DEF o
      <4>5. /\ w \in Part /\ w.length = v.length /\ w.press = v.press /\ w.live = FALSE /\ w.row = "pending"
            /\ w.worker = "start" /\ w.object = {} /\ w.temp = v.temp /\ w.disturbed = v.disturbed /\ w.options = o
        BY <3>2, <4>3, <4>4 DEF Part
      <4>6. r.chunk = LastChunk /\ \A d \in Up!Chunks : d < r.chunk + 1
        <5>1. /\ r.chunk \in Nat /\ LastChunk \in Nat /\ r.chunk <= LastChunk
              /\ \A d \in Up!Chunks : d \in Nat /\ d <= LastChunk
          BY <2>3, ChunkNumbers
        <5>2. r.chunk = LastChunk
          BY <3>6, <5>1
        <5> QED
          BY <5>1, <5>2
      <4>7. ~w.disturbed => w.temp = Up!Chunks
        <5>1. v.temp \subseteq Up!Chunks
          BY <3>2 DEF Part
        <5> QED
          BY <3>4, <4>5, <4>6, <5>1
      <4> HIDE DEF w
      <4>8. Sound(w) /\ Follows(part[s], w)
        BY <2>3, <3>2, <4>2, <4>4, <4>5, <4>7 DEF Sound, Follows, Whole
      <4> QED
        BY <2>1, <2>3, <3>2, <3>3, <4>1, <4>5, <4>8, ServeChunkKeeps
    <3> QED
      BY <3>5, <3>6
  <2> QED
    BY <1>3, <2>4, <2>6, <2>7
<1> QED
  BY <1>1, <1>2, <1>3 DEF Up!Serve

(* What a worker makes of its session: the session has ended before, and     *)
(* its worker goes on.                                                       *)
LEMMA WorkKeeps ==
    ASSUME UpInv, NEW s \in Up!Session, Up!Work(s)
    PROVE  UpInv'
<1> DEFINE v == part[s]
<1>1. v \in Part /\ Sound(v)
  BY DEF UpInv, UpTyped
<1>2. v.worker \in {"start", "copy", "record"}
  BY DEF Up!Work, Up!Begin, Up!Copy, Up!CopyFails, Up!Complete, Up!RunComplete
<1>3. v.live = FALSE /\ v.row # "none" /\ v.row # "stored" /\ v.length > 0
  <2>1. v.length = 0 => v.worker = "none"
    BY <1>1 DEF Sound, Up!NotBegun
  <2>2. v.length \in Nat /\ v.live \in BOOLEAN
    BY <1>1 DEF Part
  <2> QED
    BY <1>1, <1>2, <2>1, <2>2 DEF Sound
<1>4. ASSUME NEW q \in Part, q.length = v.length, q.press = v.press, q.live = v.live, q.row = v.row, q.options = v.options,
             q.disturbed = v.disturbed, q.worker # "none",
             q.row = "pending" /\ ~q.disturbed => Whole(q), NEW exists, Up!Stepped(s, exists, q)
      PROVE  UpInv'
  <2>1. Sound(q)
    BY <1>1, <1>2, <1>3, <1>4 DEF Sound
  <2>2. Follows(part[s], q)
    BY <1>3, <1>4 DEF Follows
  <2> QED
    BY <1>4, <2>1, <2>2, SteppedKeeps
<1>5. ASSUME NEW status \in {"PROCESSING", "COMPLETE", "FAILED"}
      PROVE  Up!PendingEntry(s, status) \in {"PROCESSING", "COMPLETE", "FAILED", "cleared"}
  BY DEF Up!PendingEntry
<1>6. CASE Up!Begin(s)
  <2> DEFINE q == [v EXCEPT !.worker = "copy", !.todo = v.temp, !.entry = "PENDING"]
  <2>1. v.worker = "start" /\ Up!Stepped(s, TRUE, q)
    BY <1>6 DEF Up!Begin
  <2>2. /\ q \in Part /\ q.length = v.length /\ q.press = v.press /\ q.live = v.live /\ q.row = v.row
        /\ q.options = v.options /\ q.disturbed = v.disturbed /\ q.worker = "copy" /\ q.todo = v.temp /\ q.object = v.object
    BY <1>1 DEF Part
  <2> HIDE DEF q
  <2>3. q.row = "pending" /\ ~q.disturbed => Whole(q)
    BY <1>1, <2>1, <2>2 DEF Sound, Whole
  <2> QED
    BY <1>4, <2>1, <2>2, <2>3
<1>7. CASE Up!Copy(s)
  <2> DEFINE c == Up!First(v.todo)
             q == [v EXCEPT !.object = @ \union {c}, !.temp = @ \ {c}, !.todo = @ \ {c},
                            !.entry = Up!PendingEntry(s, "PROCESSING")]
             w == IF c \in v.temp THEN q ELSE v
  <2>1. v.worker = "copy" /\ v.todo # {} /\ Up!Stepped(s, c \in v.temp /\ Up!HasEntry(s), w)
    BY <1>7 DEF Up!Copy
  <2>2. CASE c \in v.temp
    <3>1. c \in Up!Chunks
      BY <1>1, <2>2 DEF Part
    <3>2. PICK e \in {"PROCESSING", "COMPLETE", "FAILED", "cleared"} : e = Up!PendingEntry(s, "PROCESSING")
      BY <1>5
    <3>3. /\ q \in Part /\ q.length = v.length /\ q.press = v.press /\ q.live = v.live /\ q.row = v.row
          /\ q.options = v.options /\ q.disturbed = v.disturbed /\ q.worker = "copy"
          /\ q.todo = v.todo \ {c} /\ q.object = v.object \union {c}
      BY <1>1, <2>1, <3>1, <3>2 DEF Part
    <3>4. w = q
      BY <2>2
    <3> HIDE DEF q, w, c
    <3>5. q.row = "pending" /\ ~q.disturbed => Whole(q)
      BY <1>1, <2>1, <3>1, <3>3 DEF Sound, Whole
    <3> QED
      BY <1>4, <2>1, <3>3, <3>4, <3>5
  <2>3. CASE c \notin v.temp
    <3>1. w = v
      BY <2>3
    <3> HIDE DEF w, c
    <3>2. v.row = "pending" /\ ~v.disturbed => Whole(v)
      BY <1>1 DEF Sound
    <3> QED
      BY <1>1, <1>2, <1>4, <2>1, <3>1, <3>2
  <2> QED
    BY <2>2, <2>3
<1>8. CASE Up!CopyFails(s)
  <2> DEFINE q == [v EXCEPT !.worker = "ended", !.temp = {}, !.object = {}, !.entry = Up!PendingEntry(s, "FAILED")]
  <2>1. Up!Stepped(s, Up!HasEntry(s), q)
    BY <1>8 DEF Up!CopyFails
  <2>2. PICK e \in {"PROCESSING", "COMPLETE", "FAILED", "cleared"} : e = Up!PendingEntry(s, "FAILED")
    BY <1>5
  <2>3. /\ q \in Part /\ q.length = v.length /\ q.press = v.press /\ q.live = v.live /\ q.row = v.row
        /\ q.options = v.options /\ q.disturbed = v.disturbed /\ q.worker = "ended"
    BY <1>1, <2>2 DEF Part
  <2> HIDE DEF q
  <2>4. Whole(q)
    BY <2>3 DEF Whole
  <2> QED
    BY <1>4, <2>1, <2>3, <2>4
<1>9. CASE Up!Complete(s)
  <2> DEFINE q == [v EXCEPT !.worker = "record", !.entry = Up!PendingEntry(s, "COMPLETE")]
  <2>1. v.worker = "copy" /\ v.todo = {} /\ Up!Stepped(s, Up!HasEntry(s), q)
    BY <1>9 DEF Up!Complete
  <2>2. PICK e \in {"PROCESSING", "COMPLETE", "FAILED", "cleared"} : e = Up!PendingEntry(s, "COMPLETE")
    BY <1>5
  <2>3. /\ q \in Part /\ q.length = v.length /\ q.press = v.press /\ q.live = v.live /\ q.row = v.row
        /\ q.options = v.options /\ q.disturbed = v.disturbed /\ q.worker = "record" /\ q.object = v.object
    BY <1>1, <2>2 DEF Part
  <2> HIDE DEF q
  <2>4. q.row = "pending" /\ ~q.disturbed => Whole(q)
    BY <1>1, <2>1, <2>3 DEF Sound, Whole
  <2> QED
    BY <1>4, <2>1, <2>3, <2>4
<1>10. CASE Up!RunComplete(s)
  <2> DEFINE q == [v EXCEPT !.worker = "ended", !.row = "stored", !.deletesAt = v.options.deletesAt]
  <2>1. v.worker = "record" /\ Up!Stepped(s, v.row = "pending", IF v.row = "pending" THEN q ELSE v)
    BY <1>10 DEF Up!RunComplete
  <2>2. CASE v.row = "pending"
    <3>1. v.options \in Up!Choice /\ v.options.deletesAt \in {"none", "default", "never", "soon"}
      BY <1>1 DEF Part, Up!Choice
    <3>2. /\ q \in Part /\ q.length = v.length /\ q.press = v.press /\ q.live = v.live /\ q.row = "stored"
          /\ q.options = v.options /\ q.disturbed = v.disturbed /\ q.worker = "ended" /\ q.object = v.object
          /\ q.deletesAt = v.options.deletesAt
      BY <1>1, <3>1 DEF Part
    <3>3. Up!Stepped(s, v.row = "pending", q)
      BY <2>1, <2>2
    <3> HIDE DEF q
    <3>4. Sound(q) /\ Follows(part[s], q)
      BY <1>1, <1>3, <2>1, <2>2, <3>2 DEF Sound, Whole, Follows
    <3> QED
      BY <3>2, <3>3, <3>4, SteppedKeeps
  <2>3. CASE v.row # "pending"
    <3>1. Up!Stepped(s, v.row = "pending", v)
      BY <2>1, <2>3
    <3>2. v.row = "pending" /\ ~v.disturbed => Whole(v)
      BY <2>3
    <3> QED
      BY <1>1, <1>2, <1>4, <3>1, <3>2
  <2> QED
    BY <2>2, <2>3
<1> QED
  BY <1>6, <1>7, <1>8, <1>9, <1>10 DEF Up!Work

(* Another tab, clearTemp, and the process.                                  *)
LEMMA OutsideKeeps ==
    ASSUME UpInv, NEW s \in Up!Session,
           Up!DeleteFile(s) \/ Up!ClearEntry(s) \/ \E c \in Up!Chunks : Up!ClearTemp(s, c)
    PROVE  UpInv'
<1> DEFINE v == part[s]
<1>1. v \in Part /\ Sound(v) /\ part \in [Up!Session -> Part]
  BY DEF UpInv, UpTyped
<1>2. UNCHANGED <<list, upScene, options, press, wire, rows>>
  BY DEF Up!DeleteFile, Up!ClearEntry, Up!ClearTemp, Up!pageVars
<1>3. SUFFICES \E q \in Part : part' = [part EXCEPT ![s] = q] /\ Sound(q) /\ Follows(v, q)
  BY <1>2, OneSession, SameWire
<1>4. CASE Up!DeleteFile(s)
  <2> DEFINE q == [v EXCEPT !.row = "gone", !.object = {}]
  <2>1. part' = [part EXCEPT ![s] = q] /\ v.row \in {"pending", "stored"}
    BY <1>1, <1>4 DEF Up!DeleteFile
  <2>2. /\ q \in Part /\ q.length = v.length /\ q.press = v.press /\ q.live = v.live /\ q.row = "gone"
        /\ q.worker = v.worker /\ q.temp = v.temp /\ q.disturbed = v.disturbed
    BY <1>1 DEF Part
  <2>3. v.length # 0
    BY <1>1, <2>1 DEF Sound, Up!NotBegun
  <2> HIDE DEF q
  <2>4. Sound(q) /\ Follows(v, q)
    BY <1>1, <2>1, <2>2, <2>3 DEF Sound, Follows
  <2> QED
    BY <2>1, <2>2, <2>4
<1>5. CASE Up!ClearEntry(s)
  <2> DEFINE q == [v EXCEPT !.entry = "cleared"]
  <2>1. part' = [part EXCEPT ![s] = q] /\ v.entry \notin {"none", "cleared"}
    BY <1>1, <1>5 DEF Up!ClearEntry
  <2>2. /\ q \in Part /\ q.length = v.length /\ q.press = v.press /\ q.live = v.live /\ q.row = v.row
        /\ q.worker = v.worker /\ q.temp = v.temp /\ q.disturbed = v.disturbed /\ q.object = v.object
        /\ q.todo = v.todo /\ q.options = v.options /\ q.deletesAt = v.deletesAt
    BY <1>1 DEF Part
  <2>3. v.length # 0
    BY <1>1, <2>1 DEF Sound, Up!NotBegun
  <2> HIDE DEF q
  <2>4. Sound(q) /\ Follows(v, q)
    BY <1>1, <2>1, <2>2, <2>3 DEF Sound, Whole, Follows
  <2> QED
    BY <2>1, <2>2, <2>4
<1>6. CASE \E c \in Up!Chunks : Up!ClearTemp(s, c)
  <2>1. PICK c \in Up!Chunks : Up!ClearTemp(s, c)
    BY <1>6
  <2> DEFINE q == [v EXCEPT !.temp = @ \ {c}, !.disturbed = TRUE]
  <2>2. part' = [part EXCEPT ![s] = q] /\ c \in v.temp
    BY <1>1, <2>1 DEF Up!ClearTemp
  <2>3. /\ q \in Part /\ q.length = v.length /\ q.press = v.press /\ q.live = v.live /\ q.row = v.row
        /\ q.worker = v.worker /\ q.disturbed = TRUE /\ q.object = v.object
        /\ q.todo = v.todo /\ q.options = v.options /\ q.deletesAt = v.deletesAt
    BY <1>1 DEF Part
  <2>4. v.length # 0
    BY <1>1, <2>2 DEF Sound, Up!NotBegun
  <2> HIDE DEF q
  <2>5. Sound(q) /\ Follows(v, q)
    BY <1>1, <2>3, <2>4 DEF Sound, Follows
  <2> QED
    BY <2>2, <2>3, <2>5
<1> QED
  BY <1>4, <1>5, <1>6

LEMMA UpNextKeeps == UpInv /\ [Up!Next]_(Up!vars) => UpInv'
<1> SUFFICES ASSUME UpInv, [Up!Next]_(Up!vars) PROVE UpInv'
  OBVIOUS
<1>1. CASE UNCHANGED Up!vars
  <2>1. UNCHANGED <<list, options, upScene, press, wire, part, rows>>
    BY <1>1 DEF Up!vars
  <2>2. list' \subseteq Local /\ options' \in Up!Choice
    BY <2>1 DEF UpInv, UpTyped
  <2> QED
    BY <2>1, <2>2, PageKeeps
<1>2. CASE \/ \E f \in Local : Up!Drop(f) \/ Up!AddText(f) \/ Up!Remove(f) \/ Up!RemoveText(f)
           \/ Up!ClearAll \/ Up!ClearSettings
           \/ \E o \in upScene.choices : Up!ChooseOption(o) \/ Up!ChooseEphemeral(o)
  BY <1>2, ChoosingKeeps
<1>3. CASE \E p \in Up!Press : Up!Upload(p) \/ Up!NextChunk(p)
  BY <1>3, UploadKeeps, NextChunkKeeps
<1>4. CASE \E r \in wire : Up!Serve(r) \/ Up!Lose(r) \/ Up!Load(r)
  BY <1>4, UploadServeKeeps, LoseKeeps, LoadKeeps, LoadFilesKeeps DEF Up!Load
<1>5. CASE \E s \in Up!Session : Up!Work(s) \/ Up!DeleteFile(s) \/ Up!ClearEntry(s)
  BY <1>5, WorkKeeps, OutsideKeeps
<1>6. CASE \E s \in Up!Session, c \in Up!Chunks : Up!ClearTemp(s, c)
  BY <1>6, OutsideKeeps
<1>7. CASE Up!Crash
  <2>1. Up!DieWith(part) /\ part \in [Up!Session -> Part] /\ \A s \in Up!Session : Sound(part[s])
    BY <1>7 DEF Up!Crash, UpInv, UpTyped
  <2>2. \A s \in Up!Session : Follows(part[s], part[s])
    BY DEF Follows
  <2> QED
    BY <2>1, <2>2, Dies
<1>8. CASE Up!Start
  <2>1. UNCHANGED <<list, options, upScene, press, wire, part, rows>>
    BY <1>8 DEF Up!Start, Up!pageVars
  <2>2. list' \subseteq Local /\ options' \in Up!Choice
    BY <2>1 DEF UpInv, UpTyped
  <2> QED
    BY <2>1, <2>2, PageKeeps
<1> QED
  BY <1>1, <1>2, <1>3, <1>4, <1>5, <1>6, <1>7, <1>8 DEF Up!Next

LEMMA UpInitially == Up!Init => UpInv
<1> SUFFICES ASSUME Up!Init PROVE UpInv
  OBVIOUS
<1>1. /\ list = {} /\ upScene \in UploadScene /\ options = Up!Unchosen /\ wire = {} /\ rows = {}
      /\ press = [p \in Up!Press |-> Up!NotPressed] /\ part = [s \in Up!Session |-> Up!NotBegun]
  BY DEF Up!Init
<1>2. Up!Unchosen \in Up!Choice
  BY DEF Up!Choice, Up!Unchosen
<1>3. Up!NotBegun \in Part
  BY <1>2 DEF Part, Up!NotBegun
<1>4. UpTyped
  BY <1>1, <1>2, <1>3 DEF UpTyped
<1>5. Sound(Up!NotBegun)
  <2>1. /\ Up!NotBegun.row = "none" /\ Up!NotBegun.worker = "none" /\ Up!NotBegun.object = {} /\ Up!NotBegun.live = FALSE
    BY DEF Up!NotBegun
  <2> QED
    BY <2>1 DEF Sound
<1>6. Waiting /\ Accepted /\ Batches
  BY <1>1 DEF Waiting, Accepted, Batches
<1> QED
  BY <1>1, <1>4, <1>5, <1>6 DEF UpInv

(* What is recorded as stored from the upload page, in a batch or put        *)
(* together from chunks, is whole, and has the options of the press that     *)
(* sent it: whatever the page's list and options became meanwhile, however   *)
(* the requests of several presses meet, and whichever are refused, lost     *)
(* or die with the process (upload/, partial.ts, offload/partial.ts).        *)
THEOREM UploadsWhole == Up!Spec => []UploadsKept
<1>1. UpInv => UploadsKept
  <2> SUFFICES ASSUME UpInv PROVE UploadsKept
    OBVIOUS
  <2>1. \A s \in Up!Session : Sound(part[s])
    BY DEF UpInv
  <2>2. Up!StoredComplete
    BY <2>1 DEF Up!StoredComplete, Sound
  <2>3. Up!AsChosen
    BY <2>1 DEF Up!AsChosen, Sound, UpInv, Batches
  <2> QED
    BY <2>2, <2>3 DEF UploadsKept
<1> QED
  BY <1>1, UpInitially, UpNextKeeps, PTL DEF Up!Spec

-----------------------------------------------------------------------------
(* The page of the files.  The file a dialog shows is on the page, the       *)
(* form of the details is that file's, and what a tab has changed and not    *)
(* seen yet is asked for, or will be when the change is answered.            *)
FormShape(d) == d = Fb!Closed \/ \E o, f, l : d = [open |-> o, of |-> f, limit |-> l]

ChangeOf(pc, kind, files, on, picked, meant, of, l, g) ==
    [pc |-> pc, kind |-> kind, files |-> files, on |-> on, tags |-> picked, meant |-> meant,
     of |-> of, limit |-> l, tag |-> g]

CallShape(c) ==
    \/ c = Fb!Idle
    \/ \E pc, kind, files, on, picked, meant, of, l, g :
         /\ c = ChangeOf(pc, kind, files, on, picked, meant, of, l, g)
         /\ pc \in {"sent", "checked", "refused", "done"}
         /\ kind = "newTag" => files = {}
         /\ kind = "details" => files = {of}

ViewTyped ==
    /\ typed \in [PageTab -> Fb!Query] /\ searched \in [PageTab -> Fb!Query] /\ at \in [PageTab -> Pages]
    /\ \E P : copies \in [PageTab -> [Fb!Key -> P]]

DialogTyped ==
    /\ current \in [PageTab -> Fb!File \union {None}]
    /\ \E S : form \in [PageTab -> S]
    /\ \A t \in PageTab : FormShape(form[t])

CallTyped ==
    /\ \E S : call \in [PageTab -> S]
    /\ \A t \in PageTab : CallShape(call[t])
    /\ owed \in [PageTab -> SUBSET Fb!File]

ShowsOwn ==
    \A t \in PageTab : Fb!OpenFile(t) = current[t] /\ (form[t].open => form[t].of = current[t])

SeesOwn ==
    \A t \in PageTab : owed[t] # {} => t \in pending \/ (call[t].pc = "done" /\ call[t].kind # "newTag")

BrowserInv == ViewTyped /\ DialogTyped /\ CallTyped /\ ShowsOwn /\ SeesOwn

LEMMA KeysAreKeys ==
    ASSUME ViewTyped, NEW t \in PageTab
    PROVE  /\ Fb!KeyNow(t) \in Fb!Key
           /\ \A q, a \in Fb!Query : \A n \in Pages : Fb!KeyOf(q, a, n) \in Fb!Key
<1>1. Fb!All \in Fb!Query
  BY PagesAssumption DEF Fb!FileBrowserAssumption
<1>2. \A q, a \in Fb!Query : \A n \in Pages : Fb!KeyOf(q, a, n) \in Fb!Key
  BY <1>1 DEF Fb!KeyOf, Fb!Key
<1>3. typed[t] \in Fb!Query /\ searched[t] \in Fb!Query /\ at[t] \in Pages
  BY DEF ViewTyped
<1> QED
  BY <1>2, <1>3 DEF Fb!KeyNow

LEMMA OnPage ==
    ASSUME NEW pg, NEW f
    PROVE  /\ Fb!Present(pg, None) = None
           /\ Fb!Present(pg, Fb!Present(pg, f)) = Fb!Present(pg, f)
           /\ f \in Fb!IdsOf(pg) => Fb!Present(pg, f) = f
           /\ Fb!Present(pg, f) \in {f, None}
  BY DEF Fb!Present

LEMMA LimitTyped ==
    ASSUME NEW o, NEW g, NEW m, NEW l
    PROVE  [[open |-> o, of |-> g, limit |-> m] EXCEPT !.limit = l] = [open |-> o, of |-> g, limit |-> l]
<1>1. [open |-> o, of |-> g, limit |-> m] \in [open : {o}, of : {g}, limit : {m, l}]
  OBVIOUS
<1> QED
  BY <1>1

(* A form that is started again is that of the file given.                   *)
LEMMA StartedAgain ==
    ASSUME NEW d, FormShape(d), NEW pg, NEW f
    PROVE  /\ FormShape(Fb!Reset(d, pg, f))
           /\ Fb!Reset(d, pg, f).open => Fb!Reset(d, pg, f).of = f
           /\ FormShape(Fb!FormOf(pg, f)) /\ Fb!FormOf(pg, f).of = f
           /\ FormShape(Fb!Closed) /\ Fb!Closed.open = FALSE
           /\ \A l : d.open => FormShape([d EXCEPT !.limit = l]) /\ [d EXCEPT !.limit = l].of = d.of
<1>1. FormShape(Fb!FormOf(pg, f)) /\ Fb!FormOf(pg, f).of = f
  BY DEF FormShape, Fb!FormOf
<1>2. FormShape(Fb!Closed) /\ Fb!Closed.open = FALSE
  BY DEF FormShape, Fb!Closed
<1>3. ASSUME NEW l, d.open PROVE FormShape([d EXCEPT !.limit = l]) /\ [d EXCEPT !.limit = l].of = d.of
  <2>1. PICK o, g, m : d = [open |-> o, of |-> g, limit |-> m]
    BY <1>2, <1>3 DEF FormShape
  <2>3. [d EXCEPT !.limit = l] = [open |-> o, of |-> g, limit |-> l]
    BY <2>1, LimitTyped
  <2> QED
    BY ZenonT(60), <2>1, <2>3 DEF FormShape
<1>4. Fb!Reset(d, pg, f) = Fb!Closed \/ Fb!Reset(d, pg, f) = Fb!FormOf(pg, f)
  BY DEF Fb!Reset
<1> QED
  BY <1>1, <1>2, <1>3, <1>4

LEMMA DialogStays ==
    ASSUME BrowserInv, UNCHANGED <<typed, searched, at, copies, current, form>>
    PROVE  ViewTyped' /\ DialogTyped' /\ ShowsOwn'
<1>1. ViewTyped'
  BY DEF BrowserInv, ViewTyped, Fb!Query, Fb!Key
<1>2. DialogTyped'
  BY DEF BrowserInv, DialogTyped, FormShape, Fb!Closed
<1>3. ShowsOwn'
  BY DEF BrowserInv, ShowsOwn, Fb!OpenFile, Fb!Present, Fb!IdsOf, Fb!Shown, Fb!KeyNow, Fb!KeyOf
<1> QED
  BY <1>1, <1>2, <1>3

LEMMA CallsStayTyped ==
    ASSUME CallTyped, UNCHANGED call, owed' \in [PageTab -> SUBSET Fb!File]
    PROVE  CallTyped'
<1>1. (\A t \in PageTab : CallShape(call[t])) => \A t \in PageTab : CallShape(call'[t])
  OBVIOUS
<1> QED
  BY <1>1 DEF CallTyped

LEMMA CallStays ==
    ASSUME BrowserInv, UNCHANGED <<call, owed>>, pending \subseteq pending'
    PROVE  CallTyped' /\ SeesOwn'
<1>1. CallTyped /\ SeesOwn
  BY DEF BrowserInv
<1>2. CallTyped'
  <2>1. owed' \in [PageTab -> SUBSET Fb!File]
    BY <1>1 DEF CallTyped
  <2> QED
    BY <1>1, <2>1, CallsStayTyped
<1>3. SeesOwn'
  BY <1>1 DEF SeesOwn
<1> QED
  BY <1>2, <1>3

(* The page is drawn again with what a key, the same or another, holds.      *)
LEMMA DrawnAgain ==
    ASSUME BrowserInv, NEW t \in PageTab, NEW pg, Fb!Rerender(t, pg), Fb!Shown(t)' = pg,
           \A s \in PageTab \ {t} : Fb!Shown(s)' = Fb!Shown(s)
    PROVE  DialogTyped' /\ ShowsOwn' /\ (current[t] = None => current'[t] = None)
           /\ \A s \in PageTab \ {t} : current'[s] = current[s]
<1> DEFINE nav == Fb!SetFiles(current[t], pg)
           f == Fb!Present(pg, nav)
<1>1. /\ current \in [PageTab -> Fb!File \union {None}]
      /\ \A s \in PageTab : FormShape(form[s])
  BY DEF BrowserInv, DialogTyped
<1>2. PICK S : form \in [PageTab -> S]
  BY DEF BrowserInv, DialogTyped
<1>3. nav = f /\ nav \in {current[t], None} /\ f \in Fb!File \union {None} /\ Fb!Present(pg, current[t]) = nav
  BY <1>1, OnPage DEF Fb!SetFiles
<1>4. /\ current' = [current EXCEPT ![t] = f]
      /\ form' = IF pg = Fb!Shown(t) THEN form ELSE [form EXCEPT ![t] = Fb!Reset(form[t], pg, f)]
  BY <1>3 DEF Fb!Rerender
<1> HIDE DEF nav, f
<1>5. current' \in [PageTab -> Fb!File \union {None}] /\ current'[t] = f
      /\ \A s \in PageTab \ {t} : current'[s] = current[s]
  BY <1>1, <1>3, <1>4
<1>6. form' \in [PageTab -> S \union {Fb!Reset(form[t], pg, f)}]
  BY <1>2, <1>4
<1>7. \A s \in PageTab \ {t} : form'[s] = form[s]
  BY <1>2, <1>4
<1>8. Fb!OpenFile(t)' = f
  <2>1. Fb!OpenFile(t)' = Fb!Present(pg, f)
    BY <1>5 DEF Fb!OpenFile, Fb!Present, Fb!IdsOf
  <2> QED
    BY <1>3, <2>1, OnPage DEF f
<1>9. FormShape(form'[t]) /\ (form'[t].open => form'[t].of = f)
  <2>1. CASE pg = Fb!Shown(t)
    <3>1. form'[t] = form[t] /\ Fb!OpenFile(t) = f
      BY <1>3, <1>4, <2>1 DEF Fb!OpenFile
    <3> QED
      BY <1>1, <3>1 DEF BrowserInv, ShowsOwn
  <2>2. CASE pg # Fb!Shown(t)
    <3>1. form'[t] = Fb!Reset(form[t], pg, f)
      BY <1>2, <1>4, <2>2
    <3>2. /\ FormShape(Fb!Reset(form[t], pg, f))
          /\ Fb!Reset(form[t], pg, f).open => Fb!Reset(form[t], pg, f).of = f
      BY ZenonT(60), <1>1, StartedAgain
    <3> QED
      BY <3>1, <3>2
  <2> QED
    BY <2>1, <2>2
<1>10. DialogTyped'
  <2>1. \A s \in PageTab : FormShape(form'[s])
    BY <1>1, <1>7, <1>9
  <2> QED
    BY <1>5, <1>6, <2>1 DEF DialogTyped, FormShape, Fb!Closed
<1>11. ASSUME NEW s \in PageTab \ {t} PROVE Fb!OpenFile(s)' = current'[s] /\ (form'[s].open => form'[s].of = current'[s])
  <2>1. Fb!OpenFile(s)' = Fb!OpenFile(s)
    BY <1>5 DEF Fb!OpenFile, Fb!Present, Fb!IdsOf
  <2> QED
    BY <1>5, <1>7, <2>1 DEF BrowserInv, ShowsOwn
<1>12. ShowsOwn'
  BY <1>5, <1>8, <1>9, <1>11 DEF ShowsOwn
<1> QED
  BY <1>3, <1>5, <1>10, <1>12

(* One tab's dialog and its form change, on the page that is shown.          *)
LEMMA DialogMoves ==
    ASSUME BrowserInv, NEW t \in PageTab, NEW f \in Fb!File \union {None}, NEW d,
           UNCHANGED <<typed, searched, at, copies>>, Fb!Present(Fb!Shown(t), f) = f,
           FormShape(d), d.open => d.of = f,
           current' = [current EXCEPT ![t] = f], form' = [form EXCEPT ![t] = d]
    PROVE  /\ ViewTyped' /\ DialogTyped' /\ ShowsOwn'
           /\ current'[t] = f /\ \A s \in PageTab \ {t} : current'[s] = current[s]
<1>1. /\ current \in [PageTab -> Fb!File \union {None}]
      /\ \A s \in PageTab : FormShape(form[s])
  BY DEF BrowserInv, DialogTyped
<1>2. PICK S : form \in [PageTab -> S]
  BY DEF BrowserInv, DialogTyped
<1>3. /\ current' \in [PageTab -> Fb!File \union {None}] /\ current'[t] = f
      /\ \A s \in PageTab \ {t} : current'[s] = current[s]
  BY <1>1
<1>4. /\ form' \in [PageTab -> S \union {d}] /\ form'[t] = d
      /\ \A s \in PageTab \ {t} : form'[s] = form[s]
  BY <1>2
<1>5. \A s \in PageTab : FormShape(form'[s])
  BY <1>1, <1>4
<1>6. DialogTyped'
  BY <1>3, <1>4, <1>5 DEF DialogTyped, FormShape, Fb!Closed
<1>7. \A s \in PageTab : Fb!Shown(s)' = Fb!Shown(s)
  BY DEF Fb!Shown, Fb!KeyNow, Fb!KeyOf
<1>8. \A s \in PageTab : Fb!OpenFile(s)' = Fb!Present(Fb!Shown(s), current'[s])
  BY <1>7 DEF Fb!OpenFile, Fb!Present, Fb!IdsOf
<1>9. ShowsOwn'
  <2>1. Fb!OpenFile(t)' = current'[t] /\ (form'[t].open => form'[t].of = current'[t])
    BY <1>3, <1>4, <1>8
  <2>2. \A s \in PageTab \ {t} : Fb!OpenFile(s) = Fb!Present(Fb!Shown(s), current[s])
    BY DEF Fb!OpenFile
  <2>3. \A s \in PageTab \ {t} : Fb!OpenFile(s)' = current'[s] /\ (form'[s].open => form'[s].of = current'[s])
    BY <1>3, <1>4, <1>8, <2>2 DEF BrowserInv, ShowsOwn
  <2> QED
    BY <2>1, <2>3 DEF ShowsOwn
<1> QED
  BY <1>3, <1>6, <1>9 DEF BrowserInv, ViewTyped, Fb!Query, Fb!Key

(* One tab's change moves on.                                                *)
LEMMA CallMoves ==
    ASSUME BrowserInv, NEW t \in PageTab, NEW c, CallShape(c),
           call' = [call EXCEPT ![t] = c], pending \subseteq pending',
           NEW more \in SUBSET Fb!File, owed' = [owed EXCEPT ![t] = more],
           more # {} => t \in pending' \/ (c.pc = "done" /\ c.kind # "newTag")
    PROVE  CallTyped' /\ SeesOwn'
<1>1. PICK S : call \in [PageTab -> S]
  BY DEF BrowserInv, CallTyped
<1>2. owed \in [PageTab -> SUBSET Fb!File] /\ \A s \in PageTab : CallShape(call[s])
  BY DEF BrowserInv, CallTyped
<1>3. /\ call' \in [PageTab -> S \union {c}] /\ call'[t] = c
      /\ \A s \in PageTab \ {t} : call'[s] = call[s]
  BY <1>1
<1>4. /\ owed' \in [PageTab -> SUBSET Fb!File] /\ owed'[t] = more
      /\ \A s \in PageTab \ {t} : owed'[s] = owed[s]
  BY <1>2
<1>5. \A s \in PageTab : CallShape(call'[s])
  BY <1>2, <1>3
<1>6. CallTyped'
  BY <1>3, <1>4, <1>5 DEF CallTyped, CallShape, Fb!Idle
<1>7. SeesOwn'
  BY <1>3, <1>4 DEF BrowserInv, SeesOwn
<1> QED
  BY <1>6, <1>7

LEMMA CallMovesOn ==
    ASSUME NEW c, CallShape(c), c.pc # "idle", NEW pc \in {"checked", "refused", "done"}
    PROVE  /\ CallShape([c EXCEPT !.pc = pc])
           /\ [c EXCEPT !.pc = pc].pc = pc /\ [c EXCEPT !.pc = pc].kind = c.kind
<1>1. PICK p, kind, files, on, picked, meant, of, l, g :
        /\ c = ChangeOf(p, kind, files, on, picked, meant, of, l, g)
        /\ kind = "newTag" => files = {}
        /\ kind = "details" => files = {of}
  BY DEF CallShape, Fb!Idle
<1>2. c \in [pc : {p, pc}, kind : {kind}, files : {files}, on : {on}, tags : {picked}, meant : {meant},
             of : {of}, limit : {l}, tag : {g}]
  BY <1>1 DEF ChangeOf
<1>3. [c EXCEPT !.pc = pc] = ChangeOf(pc, kind, files, on, picked, meant, of, l, g)
  BY <1>1, <1>2 DEF ChangeOf
<1>4. CallShape(ChangeOf(pc, kind, files, on, picked, meant, of, l, g))
  BY <1>1 DEF CallShape
<1> QED
  BY <1>1, <1>3, <1>4 DEF ChangeOf

(* What leaves a tab that waits for no answer.                               *)
LEMMA Leaves ==
    ASSUME BrowserInv, NEW t \in PageTab, NEW c, CallShape(c), Fb!Send(t, c)
    PROVE  CallTyped' /\ SeesOwn' /\ UNCHANGED <<typed, searched, at, copies>>
<1>1. /\ call[t] = Fb!Idle /\ call' = [call EXCEPT ![t] = c]
      /\ UNCHANGED <<pending, owed, typed, searched, at, copies>>
  BY DEF Fb!Send, Fb!view
<1>2. owed[t] # {} => t \in pending
  BY <1>1 DEF BrowserInv, SeesOwn, Fb!Idle
<1>3. owed \in [PageTab -> SUBSET Fb!File]
  BY DEF BrowserInv, CallTyped
<1>4. owed' = [owed EXCEPT ![t] = owed[t]] /\ owed[t] \in SUBSET Fb!File
  BY <1>1, <1>3
<1>5. CallTyped' /\ SeesOwn'
  BY <1>1, <1>2, <1>4, CallMoves
<1> QED
  BY <1>1, <1>5

Picking(c, picked, meant) == [c EXCEPT !.tags = picked, !.meant = meant]
Detailing(c, of, l) == [c EXCEPT !.of = of, !.limit = l]
Tagging(c, g) == [c EXCEPT !.tag = g]

LEMMA ChangeFilledIn ==
    ASSUME NEW pc, NEW kind, NEW files, NEW on, NEW e, NEW none, NEW picked, NEW meant, NEW of, NEW l, NEW g
    PROVE  /\ Picking(ChangeOf(pc, kind, files, on, e, e, none, none, none), picked, meant)
                = ChangeOf(pc, kind, files, on, picked, meant, none, none, none)
           /\ Detailing(ChangeOf(pc, kind, files, on, e, e, none, none, none), of, l)
                = ChangeOf(pc, kind, files, on, e, e, of, l, none)
           /\ Tagging(ChangeOf(pc, kind, files, on, e, e, none, none, none), g)
                = ChangeOf(pc, kind, files, on, e, e, none, none, g)
<1> DEFINE c == ChangeOf(pc, kind, files, on, e, e, none, none, none)
<1>1. c \in [pc : {pc}, kind : {kind}, files : {files}, on : {on}, tags : {e, picked}, meant : {e, meant},
             of : {none, of}, limit : {none, l}, tag : {none, g}]
  BY DEF ChangeOf
<1>2. [c EXCEPT !.tags = picked, !.meant = meant]
        = ChangeOf(pc, kind, files, on, picked, meant, none, none, none)
  <2> DEFINE b == ChangeOf(pc, kind, files, on, picked, e, none, none, none)
  <2>1. [c EXCEPT !.tags = picked] = b
    BY <1>1 DEF ChangeOf
  <2>2. b \in [pc : {pc}, kind : {kind}, files : {files}, on : {on}, tags : {picked}, meant : {e, meant},
               of : {none}, limit : {none}, tag : {none}]
    BY DEF ChangeOf
  <2>3. [b EXCEPT !.meant = meant] = ChangeOf(pc, kind, files, on, picked, meant, none, none, none)
    BY <2>2 DEF ChangeOf
  <2> HIDE DEF b, c
  <2> QED
    BY <2>1, <2>3
<1>3. [c EXCEPT !.of = of, !.limit = l] = ChangeOf(pc, kind, files, on, e, e, of, l, none)
  <2> DEFINE b == ChangeOf(pc, kind, files, on, e, e, of, none, none)
  <2>1. [c EXCEPT !.of = of] = b
    BY <1>1 DEF ChangeOf
  <2>2. b \in [pc : {pc}, kind : {kind}, files : {files}, on : {on}, tags : {e}, meant : {e},
               of : {of}, limit : {none, l}, tag : {none}]
    BY DEF ChangeOf
  <2>3. [b EXCEPT !.limit = l] = ChangeOf(pc, kind, files, on, e, e, of, l, none)
    BY <2>2 DEF ChangeOf
  <2> HIDE DEF b, c
  <2> QED
    BY <2>1, <2>3
<1>4. [c EXCEPT !.tag = g] = ChangeOf(pc, kind, files, on, e, e, none, none, g)
  BY <1>1 DEF ChangeOf
<1> QED
  BY <1>2, <1>3, <1>4 DEF Picking, Detailing, Tagging

LEMMA Requested ==
    ASSUME NEW kind, NEW files, NEW on
    PROVE  Fb!On(kind, files, on) = ChangeOf("sent", kind, files, on, {}, {}, None, None, None)
  BY DEF Fb!On, ChangeOf

LEMMA RequestShape ==
    ASSUME NEW kind, NEW files, NEW on, kind \notin {"newTag", "details"}
    PROVE  CallShape(Fb!On(kind, files, on))
<1>1. Fb!On(kind, files, on) = ChangeOf("sent", kind, files, on, {}, {}, None, None, None)
  BY DEF Fb!On, ChangeOf
<1> QED
  BY <1>1 DEF CallShape

LEMMA ShapeOfChange ==
    ASSUME NEW kind, NEW files, NEW on, NEW picked, NEW meant, NEW of, NEW l, NEW g,
           kind = "newTag" => files = {}, kind = "details" => files = {of}
    PROVE  CallShape(ChangeOf("sent", kind, files, on, picked, meant, of, l, g))
  BY DEF CallShape

LEMMA PickedShape ==
    ASSUME NEW f, NEW picked, NEW meant, NEW on
    PROVE  CallShape([Fb!On("tags", {f}, on) EXCEPT !.tags = picked, !.meant = meant])
<1>1. [Fb!On("tags", {f}, on) EXCEPT !.tags = picked, !.meant = meant]
        = ChangeOf("sent", "tags", {f}, on, picked, meant, None, None, None)
  <2>1. Fb!On("tags", {f}, on) = ChangeOf("sent", "tags", {f}, on, {}, {}, None, None, None)
    BY Requested
  <2>2. Picking(ChangeOf("sent", "tags", {f}, on, {}, {}, None, None, None), picked, meant)
          = ChangeOf("sent", "tags", {f}, on, picked, meant, None, None, None)
    BY ChangeFilledIn
  <2> QED
    BY <2>1, <2>2 DEF Picking
<1>2. CallShape(ChangeOf("sent", "tags", {f}, on, picked, meant, None, None, None))
  BY ShapeOfChange
<1> QED
  BY <1>1, <1>2

LEMMA DetailsShape ==
    ASSUME NEW f, NEW l, NEW on
    PROVE  CallShape([Fb!On("details", {f}, on) EXCEPT !.of = f, !.limit = l])
<1>1. [Fb!On("details", {f}, on) EXCEPT !.of = f, !.limit = l]
        = ChangeOf("sent", "details", {f}, on, {}, {}, f, l, None)
  <2>1. Fb!On("details", {f}, on) = ChangeOf("sent", "details", {f}, on, {}, {}, None, None, None)
    BY Requested
  <2>2. Detailing(ChangeOf("sent", "details", {f}, on, {}, {}, None, None, None), f, l)
          = ChangeOf("sent", "details", {f}, on, {}, {}, f, l, None)
    BY ChangeFilledIn
  <2> QED
    BY <2>1, <2>2 DEF Detailing
<1>2. CallShape(ChangeOf("sent", "details", {f}, on, {}, {}, f, l, None))
  BY ShapeOfChange
<1> QED
  BY <1>1, <1>2

LEMMA TagShape ==
    ASSUME NEW kind \in {"newTag", "dropTag"}, NEW g, NEW on
    PROVE  CallShape([Fb!On(kind, {}, on) EXCEPT !.tag = g])
<1>1. [Fb!On(kind, {}, on) EXCEPT !.tag = g]
        = ChangeOf("sent", kind, {}, on, {}, {}, None, None, g)
  <2>1. Fb!On(kind, {}, on) = ChangeOf("sent", kind, {}, on, {}, {}, None, None, None)
    BY Requested
  <2>2. Tagging(ChangeOf("sent", kind, {}, on, {}, {}, None, None, None), g)
          = ChangeOf("sent", kind, {}, on, {}, {}, None, None, g)
    BY ChangeFilledIn
  <2> QED
    BY <2>1, <2>2 DEF Tagging
<1>2. CallShape(ChangeOf("sent", kind, {}, on, {}, {}, None, None, g))
  BY ShapeOfChange
<1> QED
  BY <1>1, <1>2

-----------------------------------------------------------------------------
(* What a step keeps, and what it does not open.                             *)
Kept(s) == current[s] = None => current'[s] = None

LEMMA TurnKeeps ==
    ASSUME BrowserInv, NEW t \in PageTab, NEW q \in Fb!Query, NEW a \in Fb!Query, NEW n \in Pages,
           Fb!Turn(t, q, a, n)
    PROVE  BrowserInv' /\ \A s \in PageTab : Kept(s)
<1> DEFINE k == Fb!KeyOf(q, a, n)
<1>1. /\ typed' = [typed EXCEPT ![t] = q] /\ searched' = [searched EXCEPT ![t] = a] /\ at' = [at EXCEPT ![t] = n]
      /\ Fb!Rerender(t, copies[t][k])
      /\ UNCHANGED <<copies, call, owed>> /\ pending \subseteq pending'
  BY DEF Fb!Turn
<1>2. /\ typed \in [PageTab -> Fb!Query] /\ searched \in [PageTab -> Fb!Query] /\ at \in [PageTab -> Pages]
  BY DEF BrowserInv, ViewTyped
<1>3. /\ typed' \in [PageTab -> Fb!Query] /\ searched' \in [PageTab -> Fb!Query] /\ at' \in [PageTab -> Pages]
      /\ typed'[t] = q /\ searched'[t] = a /\ at'[t] = n
      /\ \A s \in PageTab \ {t} : typed'[s] = typed[s] /\ searched'[s] = searched[s] /\ at'[s] = at[s]
  BY <1>1, <1>2
<1>4. Fb!Shown(t)' = copies[t][k] /\ \A s \in PageTab \ {t} : Fb!Shown(s)' = Fb!Shown(s)
  BY <1>1, <1>3 DEF Fb!Shown, Fb!KeyNow, Fb!KeyOf
<1>5. ViewTyped'
  BY <1>1, <1>3 DEF BrowserInv, ViewTyped, Fb!Query, Fb!Key
<1> HIDE DEF k
<1>6. /\ DialogTyped' /\ ShowsOwn' /\ (current[t] = None => current'[t] = None)
      /\ \A s \in PageTab \ {t} : current'[s] = current[s]
  BY <1>1, <1>4, DrawnAgain
<1>7. CallTyped' /\ SeesOwn'
  BY <1>1, CallStays
<1> QED
  BY <1>5, <1>6, <1>7 DEF BrowserInv, Kept

LEMMA FilesLoadKeep ==
    ASSUME BrowserInv, NEW t \in PageTab, Fb!Load(t)
    PROVE  BrowserInv' /\ \A s \in PageTab : Kept(s)
<1> DEFINE pg == Fb!Listing(Fb!KeyNow(t)[1], at[t])
           k == Fb!KeyNow(t)
<1>1. /\ pending' = pending \ {t}
      /\ copies' = [copies EXCEPT ![t][k] = pg]
      /\ Fb!Rerender(t, pg) /\ owed' = [owed EXCEPT ![t] = {}]
      /\ UNCHANGED <<typed, searched, at, call>>
  BY DEF Fb!Load
<1> HIDE DEF pg
<1>2. PICK P : copies \in [PageTab -> [Fb!Key -> P]]
  BY DEF BrowserInv, ViewTyped
<1>3. k \in Fb!Key
  BY KeysAreKeys DEF BrowserInv
<1> HIDE DEF k
<1>4. /\ copies' \in [PageTab -> [Fb!Key -> P \union {pg}]] /\ copies'[t][k] = pg
      /\ \A s \in PageTab \ {t} : copies'[s] = copies[s]
  BY <1>1, <1>2, <1>3
<1>5. Fb!Shown(t)' = pg /\ \A s \in PageTab \ {t} : Fb!Shown(s)' = Fb!Shown(s)
  BY <1>1, <1>4 DEF Fb!Shown, Fb!KeyNow, Fb!KeyOf, k
<1>6. ViewTyped'
  BY <1>1, <1>4 DEF BrowserInv, ViewTyped, Fb!Query, Fb!Key
<1>7. /\ DialogTyped' /\ ShowsOwn' /\ (current[t] = None => current'[t] = None)
      /\ \A s \in PageTab \ {t} : current'[s] = current[s]
  BY <1>1, <1>5, DrawnAgain
<1>8. CallTyped'
  <2>1. CallTyped
    BY DEF BrowserInv
  <2>2. UNCHANGED call /\ owed' \in [PageTab -> SUBSET Fb!File]
    BY <1>1, <2>1 DEF CallTyped
  <2> QED
    BY <2>1, <2>2, CallsStayTyped
<1>9. SeesOwn'
  BY <1>1 DEF BrowserInv, CallTyped, SeesOwn
<1> QED
  BY <1>6, <1>7, <1>8, <1>9 DEF BrowserInv, Kept

(* Another file is shown, or none.                                           *)
LEMMA ShowFileKeeps ==
    ASSUME BrowserInv, NEW t \in PageTab, NEW f \in Fb!File \union {None},
           f = None \/ f \in Fb!IdsOf(Fb!Shown(t)), Fb!ShowFile(t, f)
    PROVE  /\ BrowserInv' /\ current'[t] = f
           /\ \A s \in PageTab \ {t} : current'[s] = current[s]
<1> DEFINE d == Fb!Reset(form[t], Fb!Shown(t), f)
<1>1. /\ current' = [current EXCEPT ![t] = f] /\ form' = [form EXCEPT ![t] = d]
      /\ UNCHANGED <<typed, searched, at, copies, pending, call, owed>>
  BY DEF Fb!ShowFile, Fb!view
<1>2. FormShape(form[t])
  BY DEF BrowserInv, DialogTyped
<1>3. FormShape(d) /\ (d.open => d.of = f)
  BY ZenonT(60), <1>2, StartedAgain
<1>4. Fb!Present(Fb!Shown(t), f) = f
  BY OnPage
<1> HIDE DEF d
<1>5. /\ ViewTyped' /\ DialogTyped' /\ ShowsOwn'
      /\ current'[t] = f /\ \A s \in PageTab \ {t} : current'[s] = current[s]
  BY <1>1, <1>3, <1>4, DialogMoves
<1>6. CallTyped' /\ SeesOwn'
  BY <1>1, CallStays
<1> QED
  BY <1>5, <1>6 DEF BrowserInv

(* The form of the details opens, is typed in or is closed: its file is      *)
(* still the one shown.                                                      *)
LEMMA DetailsKeep ==
    ASSUME BrowserInv, NEW t \in PageTab, NEW l,
           Fb!OpenDetails(t) \/ Fb!EditDetails(t, l) \/ Fb!CloseDetails(t)
    PROVE  BrowserInv' /\ \A s \in PageTab : Kept(s)
<1>1. UNCHANGED <<typed, searched, at, copies, pending, current, call, owed>>
  BY DEF Fb!OpenDetails, Fb!EditDetails, Fb!CloseDetails, Fb!view
<1>2. PICK d : form' = [form EXCEPT ![t] = d] /\ FormShape(d) /\ (d.open => d.of = current[t])
  <2>1. CASE Fb!OpenDetails(t)
    <3>1. form' = [form EXCEPT ![t] = Fb!FormOf(Fb!Shown(t), current[t])]
      BY <2>1 DEF Fb!OpenDetails, BrowserInv, ShowsOwn
    <3>2. FormShape(Fb!FormOf(Fb!Shown(t), current[t])) /\ Fb!FormOf(Fb!Shown(t), current[t]).of = current[t]
      BY DEF FormShape, Fb!FormOf
    <3> QED
      BY <3>1, <3>2
  <2>2. CASE Fb!EditDetails(t, l)
    <3>1. form' = [form EXCEPT ![t] = [form[t] EXCEPT !.limit = l]] /\ form[t].open
      BY <2>2 DEF Fb!EditDetails
    <3>2. FormShape(form[t]) /\ form[t].of = current[t]
      BY <3>1 DEF BrowserInv, DialogTyped, ShowsOwn
    <3>3. FormShape([form[t] EXCEPT !.limit = l]) /\ [form[t] EXCEPT !.limit = l].of = form[t].of
      BY ZenonT(60), <3>1, <3>2, StartedAgain
    <3> QED
      BY <3>1, <3>2, <3>3
  <2>3. CASE Fb!CloseDetails(t)
    <3>1. form' = [form EXCEPT ![t] = Fb!Closed]
      BY <2>3 DEF Fb!CloseDetails
    <3>2. FormShape(Fb!Closed) /\ Fb!Closed.open = FALSE
      BY DEF FormShape, Fb!Closed
    <3> QED
      BY <3>1, <3>2
  <2> QED
    BY <2>1, <2>2, <2>3
<1>3. /\ current[t] \in Fb!File \union {None} /\ current' = [current EXCEPT ![t] = current[t]]
      /\ Fb!Present(Fb!Shown(t), current[t]) = current[t]
  BY <1>1 DEF BrowserInv, DialogTyped, ShowsOwn, Fb!OpenFile
<1>4. ViewTyped' /\ DialogTyped' /\ ShowsOwn'
  BY <1>1, <1>2, <1>3, DialogMoves
<1>5. CallTyped' /\ SeesOwn'
  BY <1>1, CallStays
<1> QED
  BY <1>1, <1>4, <1>5 DEF BrowserInv, Kept

LEMMA ShownStays ==
    ASSUME BrowserInv, UNCHANGED <<typed, searched, at, copies, current, form>>, CallTyped', SeesOwn'
    PROVE  BrowserInv' /\ \A s \in PageTab : Kept(s)
  BY DialogStays DEF BrowserInv, Kept

LEMMA AllStays ==
    ASSUME BrowserInv, UNCHANGED <<typed, searched, at, copies, current, form, call, owed>>,
           pending \subseteq pending'
    PROVE  BrowserInv' /\ \A s \in PageTab : Kept(s)
  BY DialogStays, CallStays DEF BrowserInv, Kept

(* What only asks, or only answers, keeps the dialog.                        *)
LEMMA SendKeeps ==
    ASSUME BrowserInv, NEW t \in PageTab, NEW c, CallShape(c), Fb!Send(t, c),
           UNCHANGED <<current, form>>
    PROVE  BrowserInv' /\ \A s \in PageTab : Kept(s)
<1>1. CallTyped' /\ SeesOwn' /\ UNCHANGED <<typed, searched, at, copies>>
  BY Leaves
<1> QED
  BY <1>1, ShownStays

LEMMA OpenDialogKeeps ==
    ASSUME BrowserInv, NEW t \in PageTab, NEW f \in Fb!File, Fb!OpenDialog(t, f)
    PROVE  BrowserInv' /\ \A s \in PageTab \ {t} : Kept(s)
<1>1. BrowserInv' /\ \A s \in PageTab \ {t} : current'[s] = current[s]
  BY ShowFileKeeps DEF Fb!OpenDialog
<1> QED
  BY <1>1 DEF Kept

LEMMA CloseDialogKeeps ==
    ASSUME BrowserInv, NEW t \in PageTab, Fb!CloseDialog(t)
    PROVE  BrowserInv' /\ \A s \in PageTab : Kept(s)
<1>1. BrowserInv' /\ current'[t] = None /\ \A s \in PageTab \ {t} : current'[s] = current[s]
  BY ShowFileKeeps DEF Fb!CloseDialog
<1> QED
  BY <1>1 DEF Kept

LEMMA ArrowKeeps ==
    ASSUME BrowserInv, NEW t \in PageTab, NEW f \in Fb!File, Fb!Arrow(t, f)
    PROVE  BrowserInv' /\ \A s \in PageTab : Kept(s)
<1>1. f \in Fb!IdsOf(Fb!Shown(t)) /\ Fb!ShowFile(t, f) /\ current[t] # None
  BY DEF Fb!Arrow, Fb!Neighbour, Fb!IdsOf, Fb!Uncovered, BrowserInv, ShowsOwn
<1>2. BrowserInv' /\ \A s \in PageTab \ {t} : current'[s] = current[s]
  BY <1>1, ShowFileKeeps
<1> QED
  BY <1>1, <1>2 DEF Kept

LEMMA HandleTagsUpdateKeeps ==
    ASSUME BrowserInv, NEW t \in PageTab, Fb!HandleTagsUpdate(t)
    PROVE  BrowserInv' /\ \A s \in PageTab : Kept(s)
<1>1. UNCHANGED <<current, form>>
  BY DEF Fb!HandleTagsUpdate
<1>2. CASE UNCHANGED <<typed, searched, at, copies, pending, call, owed>>
  BY <1>1, <1>2, AllStays
<1>3. CASE \E f, picked, meant :
             Fb!Send(t, [Fb!On("tags", {f}, FALSE) EXCEPT !.tags = picked, !.meant = meant])
  <2>1. PICK f, picked, meant :
           Fb!Send(t, [Fb!On("tags", {f}, FALSE) EXCEPT !.tags = picked, !.meant = meant])
    BY <1>3
  <2>2. CallShape([Fb!On("tags", {f}, FALSE) EXCEPT !.tags = picked, !.meant = meant])
    BY PickedShape
  <2> QED
    BY <1>1, <2>1, <2>2, SendKeeps
<1>4. UNCHANGED <<typed, searched, at, copies, pending, call, owed>>
      \/ \E f, picked, meant :
           Fb!Send(t, [Fb!On("tags", {f}, FALSE) EXCEPT !.tags = picked, !.meant = meant])
  BY DEF Fb!HandleTagsUpdate, Fb!view
<1> QED
  BY <1>2, <1>3, <1>4

LEMMA HandleSaveKeeps ==
    ASSUME BrowserInv, NEW t \in PageTab, Fb!HandleSave(t)
    PROVE  BrowserInv' /\ \A s \in PageTab : Kept(s)
<1> DEFINE f == current[t]
           l == form[t].limit
<1>1. /\ Fb!Send(t, [Fb!On("details", {f}, FALSE) EXCEPT !.of = f, !.limit = l])
      /\ UNCHANGED <<current, form>>
  BY DEF Fb!HandleSave, Fb!dialog, BrowserInv, ShowsOwn
<1>2. CallShape([Fb!On("details", {f}, FALSE) EXCEPT !.of = f, !.limit = l])
  BY DetailsShape
<1> HIDE DEF f, l
<1> QED
  BY <1>1, <1>2, SendKeeps

LEMMA OneFileKeeps ==
    ASSUME BrowserInv, NEW t \in PageTab, NEW f \in Fb!File, Fb!OneFile(t, f)
    PROVE  BrowserInv' /\ \A s \in PageTab : Kept(s)
<1>1. UNCHANGED <<current, form>>
  BY DEF Fb!OneFile, Fb!dialog
<1>2. PICK kind \in {"star", "folder", "delete"} : \E on : Fb!Send(t, Fb!On(kind, {f}, on))
  BY DEF Fb!OneFile, Fb!FavoriteFile, Fb!FolderFile, Fb!DeleteFile
<1>3. PICK on : Fb!Send(t, Fb!On(kind, {f}, on))
  BY <1>2
<1>4. CallShape(Fb!On(kind, {f}, on))
  BY RequestShape
<1> QED
  BY <1>1, <1>3, <1>4, SendKeeps

LEMMA BulkKeeps ==
    ASSUME BrowserInv, NEW t \in PageTab, Fb!Bulk(t)
    PROVE  BrowserInv' /\ \A s \in PageTab : Kept(s)
<1>1. UNCHANGED <<current, form>>
  BY DEF Fb!Bulk, Fb!dialog
<1>2. PICK kind \in {"bulkDelete", "bulkStar", "bulkFolder"} :
           \E on : Fb!Send(t, Fb!On(kind, Fb!SelectedIds(t), on))
  BY DEF Fb!Bulk, Fb!BulkDelete, Fb!BulkFavorite, Fb!HandleAddFolder
<1>3. PICK on : Fb!Send(t, Fb!On(kind, Fb!SelectedIds(t), on))
  BY <1>2
<1>4. CallShape(Fb!On(kind, Fb!SelectedIds(t), on))
  BY RequestShape
<1> QED
  BY <1>1, <1>3, <1>4, SendKeeps

LEMMA ManageTagKeeps ==
    ASSUME BrowserInv, NEW t \in PageTab, NEW g \in Tag, Fb!ManageTag(t, g)
    PROVE  BrowserInv' /\ \A s \in PageTab : Kept(s)
<1>1. UNCHANGED <<current, form>>
  BY DEF Fb!ManageTag, Fb!dialog
<1>2. PICK kind \in {"newTag", "dropTag"} : Fb!Send(t, [Fb!On(kind, {}, FALSE) EXCEPT !.tag = g])
  BY DEF Fb!ManageTag, Fb!CreateTag, Fb!DeleteTag
<1>3. CallShape([Fb!On(kind, {}, FALSE) EXCEPT !.tag = g])
  BY TagShape
<1> QED
  BY <1>1, <1>2, <1>3, SendKeeps

-----------------------------------------------------------------------------
(* The server's side.                                                        *)
LEMMA OwedTyped ==
    ASSUME BrowserInv, NEW t \in PageTab, UNCHANGED owed
    PROVE  owed' = [owed EXCEPT ![t] = owed[t]] /\ owed[t] \in SUBSET Fb!File
  BY DEF BrowserInv, CallTyped

LEMMA CheckKeeps ==
    ASSUME BrowserInv, NEW t \in PageTab, Fb!Check(t) \/ Fb!ApplyFails(t)
    PROVE  BrowserInv' /\ \A s \in PageTab : Kept(s)
<1>1. /\ call[t].pc \in {"sent", "checked"}
      /\ UNCHANGED <<typed, searched, at, copies, pending, current, form, owed>>
  BY DEF Fb!Check, Fb!ApplyFails, Fb!view, Fb!dialog
<1>2. PICK pc \in {"checked", "refused"} : call' = [call EXCEPT ![t] = [call[t] EXCEPT !.pc = pc]]
  BY DEF Fb!Check, Fb!ApplyFails, Fb!Goto
<1> DEFINE c == [call[t] EXCEPT !.pc = pc]
<1>3. CallShape(call[t])
  BY DEF BrowserInv, CallTyped
<1>4. CallShape(c)
  BY <1>1, <1>3, CallMovesOn
<1>5. owed[t] # {} => t \in pending
  BY <1>1 DEF BrowserInv, SeesOwn
<1> HIDE DEF c
<1>6. owed' = [owed EXCEPT ![t] = owed[t]] /\ owed[t] \in SUBSET Fb!File
  BY <1>1, OwedTyped
<1>7. call' = [call EXCEPT ![t] = c]
  BY <1>2 DEF c
<1>8. CallTyped' /\ SeesOwn'
  BY <1>1, <1>4, <1>5, <1>6, <1>7, CallMoves
<1> QED
  BY <1>1, <1>8, ShownStays

(* A tag that is made changes no file.                                       *)
LEMMA NewTagOwesNothing ==
    ASSUME BrowserInv, NEW t \in PageTab, Fb!Apply(t), call[t].kind = "newTag"
    PROVE  {f \in Fb!File : row'[f] # row[f]} = {}
<1>1. call[t].files = {}
  <2>1. CallShape(call[t]) /\ call[t] # Fb!Idle
    BY DEF BrowserInv, CallTyped, Fb!Apply, Fb!Idle
  <2>2. PICK pc, kind, files, on, picked, meant, of, l, g :
          /\ call[t] = ChangeOf(pc, kind, files, on, picked, meant, of, l, g)
          /\ kind = "newTag" => files = {}
    BY <2>1 DEF CallShape
  <2> QED
    BY <2>2 DEF ChangeOf
<1>2. \A f \in Fb!File : row'[f] = IF f \notin Fb!Alive THEN None ELSE row[f]
  BY <1>1 DEF Fb!Apply, Fb!Untagged
<1> QED
  BY <1>2 DEF Fb!Alive

LEMMA ApplyKeeps ==
    ASSUME BrowserInv, NEW t \in PageTab, Fb!Apply(t)
    PROVE  BrowserInv' /\ \A s \in PageTab : Kept(s)
<1> DEFINE c == [call[t] EXCEPT !.pc = "done"]
           wrote == {f \in Fb!File : row'[f] # row[f]}
<1>1. /\ call[t].pc = "checked" /\ call' = [call EXCEPT ![t] = c]
      /\ owed' = [owed EXCEPT ![t] = owed[t] \union wrote]
      /\ UNCHANGED <<typed, searched, at, copies, pending, current, form>>
  BY DEF Fb!Apply, Fb!Goto, Fb!view, Fb!dialog
<1>2. CallShape(call[t]) /\ owed[t] \in SUBSET Fb!File
  BY DEF BrowserInv, CallTyped
<1>3. CallShape(c) /\ c.pc = "done" /\ c.kind = call[t].kind
  BY <1>1, <1>2, CallMovesOn
<1>4. owed[t] # {} => t \in pending
  BY <1>1 DEF BrowserInv, SeesOwn
<1>5. call[t].kind = "newTag" => wrote = {}
  BY NewTagOwesNothing
<1>6. owed[t] \union wrote \in SUBSET Fb!File
  BY <1>2
<1>7. owed[t] \union wrote # {} => t \in pending' \/ (c.pc = "done" /\ c.kind # "newTag")
  BY <1>1, <1>3, <1>4, <1>5
<1> HIDE DEF c, wrote
<1>8. CallTyped' /\ SeesOwn'
  BY <1>1, <1>3, <1>6, <1>7, CallMoves
<1> QED
  BY <1>1, <1>8, ShownStays

LEMMA FileAnswerKeeps ==
    ASSUME BrowserInv, NEW t \in PageTab, Fb!Answer(t)
    PROVE  BrowserInv' /\ \A s \in PageTab : Kept(s)
<1>1. /\ call' = [call EXCEPT ![t] = Fb!Idle] /\ call[t].pc \in {"done", "refused"}
      /\ pending' = IF call[t].kind = "newTag" \/ (call[t].kind = "details" /\ call[t].pc # "done")
                    THEN pending ELSE pending \union {t}
      /\ UNCHANGED <<typed, searched, at, copies, owed>>
  BY DEF Fb!Answer, Fb!MutateFiles, Fb!Kind
<1>2. CallTyped' /\ SeesOwn'
  <2>1. owed[t] # {} => t \in pending'
    BY <1>1 DEF BrowserInv, SeesOwn
  <2>2. owed' = [owed EXCEPT ![t] = owed[t]] /\ owed[t] \in SUBSET Fb!File
    BY <1>1, OwedTyped
  <2>3. CallShape(Fb!Idle) /\ pending \subseteq pending'
    BY <1>1 DEF CallShape
  <2> QED
    BY <1>1, <2>1, <2>2, <2>3, CallMoves
<1>3. FormShape(form[t]) /\ current[t] \in Fb!File \union {None}
  BY DEF BrowserInv, DialogTyped
<1>4. PICK S : form \in [PageTab -> S]
  BY DEF BrowserInv, DialogTyped
<1>5. PICK f, d : /\ f \in {current[t], None} /\ FormShape(d) /\ (d.open => d.of = f)
                  /\ Fb!Present(Fb!Shown(t), f) = f
                  /\ current' = [current EXCEPT ![t] = f] /\ form' = [form EXCEPT ![t] = d]
  <2>1. current = [current EXCEPT ![t] = current[t]] /\ form = [form EXCEPT ![t] = form[t]]
    BY <1>4 DEF BrowserInv, DialogTyped
  <2>2. Fb!Present(Fb!Shown(t), current[t]) = current[t] /\ (form[t].open => form[t].of = current[t])
    BY DEF BrowserInv, ShowsOwn, Fb!OpenFile
  <2>3. CASE call[t].pc = "done" /\ Fb!Kind(t, {"delete"}) /\ call[t].on
    <3> DEFINE d == Fb!Reset(form[t], Fb!Shown(t), None)
    <3>1. current' = [current EXCEPT ![t] = None] /\ form' = [form EXCEPT ![t] = d]
      BY <2>3 DEF Fb!Answer
    <3>2. FormShape(d) /\ (d.open => d.of = None)
      BY ZenonT(60), <1>3, StartedAgain
    <3>3. Fb!Present(Fb!Shown(t), None) = None
      BY OnPage
    <3> HIDE DEF d
    <3> QED
      BY <3>1, <3>2, <3>3
  <2>4. CASE ~(call[t].pc = "done" /\ Fb!Kind(t, {"delete"}) /\ call[t].on)
    <3>1. current' = current
          /\ form' = IF call[t].pc = "done" /\ Fb!Kind(t, {"details"}) THEN [form EXCEPT ![t] = Fb!Closed] ELSE form
      BY <2>4 DEF Fb!Answer
    <3>2. FormShape(Fb!Closed) /\ Fb!Closed.open = FALSE
      BY DEF FormShape, Fb!Closed
    <3> QED
      BY <1>3, <2>1, <2>2, <3>1, <3>2
  <2> QED
    BY <2>3, <2>4
<1>6. /\ ViewTyped' /\ DialogTyped' /\ ShowsOwn'
      /\ current'[t] = f /\ \A s \in PageTab \ {t} : current'[s] = current[s]
  BY <1>1, <1>3, <1>5, DialogMoves
<1> QED
  BY <1>2, <1>5, <1>6 DEF BrowserInv, Kept

-----------------------------------------------------------------------------
LEMMA BrowserStep ==
    ASSUME BrowserInv, [Fb!Next]_(Fb!vars)
    PROVE  BrowserInv' /\ \A s \in PageTab : Kept(s) \/ \E f \in Fb!File : Fb!OpenDialog(s, f)
<1>1. CASE UNCHANGED Fb!vars
  BY <1>1, AllStays DEF Fb!vars, Fb!view, Fb!dialog
<1>2. CASE Fb!Next
  <2>1. PICK t \in PageTab :
        \/ \E q \in Fb!Query : Fb!Type(t, q)
        \/ \E n \in Pages : Fb!GoToPage(t, n)
        \/ Fb!Debounce(t) \/ Fb!Load(t) \/ Fb!Refocus(t)
        \/ \E f \in Fb!File : Fb!OpenDialog(t, f) \/ Fb!Arrow(t, f) \/ Fb!OneFile(t, f) \/ Fb!Select(t, f)
        \/ Fb!CloseDialog(t)
        \/ Fb!FocusTags(t) \/ Fb!HandleTagsUpdate(t)
        \/ \E g \in Tag : Fb!HandleValueSelect(t, g) \/ Fb!ManageTag(t, g)
        \/ Fb!OpenDetails(t) \/ Fb!CloseDetails(t) \/ Fb!HandleSave(t)
        \/ \E l \in Limit \union {None} : Fb!EditDetails(t, l)
        \/ Fb!Bulk(t)
        \/ Fb!Check(t) \/ Fb!Apply(t) \/ Fb!ApplyFails(t) \/ Fb!Answer(t)
    BY <1>2 DEF Fb!Next
  <2>2. typed[t] \in Fb!Query /\ searched[t] \in Fb!Query /\ at[t] \in Pages /\ Fb!All \in Fb!Query
    BY PagesAssumption DEF BrowserInv, ViewTyped, Fb!FileBrowserAssumption
  <2>3. CASE \/ \E q \in Fb!Query : Fb!Type(t, q)
             \/ \E n \in Pages : Fb!GoToPage(t, n)
             \/ Fb!Debounce(t)
    <3>1. PICK q \in Fb!Query, a \in Fb!Query, n \in Pages : Fb!Turn(t, q, a, n)
      BY <2>2, <2>3 DEF Fb!Type, Fb!GoToPage, Fb!Debounce
    <3> QED
      BY <3>1, TurnKeeps
  <2>4. CASE Fb!Load(t)
    BY <2>4, FilesLoadKeep
  <2>6. CASE Fb!Refocus(t) \/ Fb!FocusTags(t) \/ \E f \in Fb!File : Fb!Select(t, f)
    BY <2>6, AllStays DEF Fb!Refocus, Fb!FocusTags, Fb!Select, Fb!view, Fb!dialog
  <2>7. CASE \E g \in Tag : Fb!HandleValueSelect(t, g)
    BY <2>7, AllStays DEF Fb!HandleValueSelect, Fb!view, Fb!dialog
  <2>8. CASE \E f \in Fb!File : Fb!OpenDialog(t, f)
    BY <2>8, OpenDialogKeeps
  <2>9. CASE \E f \in Fb!File : Fb!Arrow(t, f) \/ Fb!OneFile(t, f)
    BY <2>9, ArrowKeeps, OneFileKeeps
  <2>10. CASE Fb!CloseDialog(t) \/ Fb!HandleTagsUpdate(t) \/ Fb!HandleSave(t) \/ Fb!Bulk(t)
    BY <2>10, CloseDialogKeeps, HandleTagsUpdateKeeps, HandleSaveKeeps, BulkKeeps
  <2>11. CASE \E g \in Tag : Fb!ManageTag(t, g)
    BY <2>11, ManageTagKeeps
  <2>12. CASE \/ Fb!OpenDetails(t) \/ Fb!CloseDetails(t)
              \/ \E l \in Limit \union {None} : Fb!EditDetails(t, l)
    BY <2>12, DetailsKeep
  <2>13. CASE Fb!Check(t) \/ Fb!Apply(t) \/ Fb!ApplyFails(t) \/ Fb!Answer(t)
    BY <2>13, CheckKeeps, ApplyKeeps, FileAnswerKeeps
  <2> QED
    BY <2>1, <2>3, <2>4, <2>6, <2>7, <2>8, <2>9, <2>10, <2>11, <2>12, <2>13
<1> QED
  BY <1>1, <1>2

LEMMA BrowserStart == Fb!Init => BrowserInv
<1> SUFFICES ASSUME Fb!Init PROVE BrowserInv
  OBVIOUS
<1>1. /\ typed = [t \in PageTab |-> Fb!All] /\ searched = typed /\ at = [t \in PageTab |-> 1]
      /\ copies = [t \in PageTab |-> [k \in Fb!Key |-> <<>>]]
      /\ current = [t \in PageTab |-> None] /\ form = [t \in PageTab |-> Fb!Closed]
      /\ call = [t \in PageTab |-> Fb!Idle] /\ owed = [t \in PageTab |-> {}]
  BY DEF Fb!Init
<1>2. ViewTyped
  <2>1. copies \in [PageTab -> [Fb!Key -> {<<>>}]]
    BY <1>1
  <2> QED
    BY <1>1, <2>1, PagesAssumption DEF ViewTyped, Fb!FileBrowserAssumption
<1>3. DialogTyped
  <2>1. form \in [PageTab -> {Fb!Closed}]
    BY <1>1
  <2> QED
    BY <1>1, <2>1 DEF DialogTyped, FormShape
<1>4. CallTyped
  <2>1. call \in [PageTab -> {Fb!Idle}]
    BY <1>1
  <2> QED
    BY <1>1, <2>1 DEF CallTyped, CallShape
<1>5. ShowsOwn
  BY <1>1, OnPage DEF ShowsOwn, Fb!OpenFile, Fb!Closed
<1>6. SeesOwn
  BY <1>1 DEF SeesOwn
<1> QED
  BY <1>2, <1>3, <1>4, <1>5, <1>6 DEF BrowserInv

LEMMA BrowserSays == BrowserInv => Fb!OwnDetails /\ Fb!OwnChangesShown
<1> SUFFICES ASSUME BrowserInv PROVE Fb!OwnDetails /\ Fb!OwnChangesShown
  OBVIOUS
<1>1. Fb!OwnDetails
  BY DEF BrowserInv, CallTyped, CallShape, ChangeOf, Fb!Idle, Fb!OwnDetails
<1>2. Fb!OwnChangesShown
  BY DEF BrowserInv, SeesOwn, Fb!OwnChangesShown, Fb!Resting, Fb!Idle
<1> QED
  BY <1>1, <1>2

LEMMA BrowserOpens ==
    ASSUME BrowserInv, [Fb!Next]_(Fb!vars)
    PROVE  Fb!ReopenStepFormula
<1>1. BrowserInv' /\ \A s \in PageTab : Kept(s) \/ \E f \in Fb!File : Fb!OpenDialog(s, f)
  BY BrowserStep
<1>2. \A t \in PageTab : Fb!OpenFile(t) = current[t] /\ Fb!OpenFile(t)' = current'[t]
  BY <1>1 DEF BrowserInv, ShowsOwn
<1> QED
  BY <1>1, <1>2 DEF Fb!ReopenStepFormula, Kept

(* No file's dialog opens but on a click on that file: once a search, a      *)
(* page or a deletion has taken the file away it stays closed, also when     *)
(* the file comes back (FileViewer.tsx, FileModal.tsx).                      *)
THEOREM FilesReopen == Fb!Spec => NeverReopens
<1>1. BrowserInv /\ [Fb!Next]_(Fb!vars) => BrowserInv'
  BY BrowserStep
<1>2. BrowserInv /\ [Fb!Next]_(Fb!vars) => [Fb!ReopenStepFormula]_fbVars
  BY BrowserOpens
<1> QED
  BY <1>1, <1>2, BrowserStart, PTL DEF Fb!Spec, NeverReopens

-----------------------------------------------------------------------------
(* The page of the short URLs.  What is typed in a dialog apart, a form is   *)
(* the row as it was listed, so that an edit sends nothing else; a URL is    *)
(* counted while the call that makes it is between its lookup and its row,   *)
(* and so is a name.                                                         *)
IsRow(r) == r = [f \in Su!Fields |-> r[f]]

AsListed(d) ==
    /\ d = [of |-> d.of, was |-> d.was, form |-> d.form, touched |-> d.touched]
    /\ IsRow(d.was) /\ IsRow(d.form)
    /\ \A f \in {"vanity", "limit", "on"} \ d.touched : d.form[f] = d.was[f]
    /\ "locked" \notin d.touched => d.form["locked"] = FALSE

PostOf(kind, stage, of, body, meant) ==
    [kind |-> kind, at |-> stage, of |-> of, body |-> body, meant |-> meant]

Wellposted(c) == \E kind, stage, of, body, meant :
    /\ c = PostOf(kind, stage, of, body, meant)
    /\ c = Su!Quiet \/ (kind = "post" => stage # "find" /\ IsRow(body))
    /\ kind = "patch" => DOMAIN body \subseteq meant \union {"limit"}

UrlsTyped ==
    /\ \E S : urls \in [Url -> S]
    /\ \A u \in Url : urls[u] = None \/ IsRow(urls[u])
    /\ \E S : listed \in [PageTab -> S]
    /\ \A t \in PageTab, u \in Url : listed[t][u] = None \/ IsRow(listed[t][u])

EditsTyped ==
    /\ \E S : dialog \in [PageTab -> S]
    /\ \A t \in PageTab : AsListed(dialog[t])

PostsTyped ==
    /\ \E S : post \in [PageTab -> S]
    /\ \A t \in PageTab : Wellposted(post[t])

UnreadTyped == \E S : unread \in [PageTab -> S]

Adding == {t \in PageTab : post[t].kind = "post" /\ post[t].at \in {"vanity", "write"}}
Asks(c, w) == "vanity" \in DOMAIN c.body /\ c.body["vanity"] = w
NamingCalls(w) == {t \in PageTab : post[t].at = "write" /\ post[t].kind \in {"post", "patch"} /\ Asks(post[t], w)}
Named(w) == {u \in Su!Live : urls[u].vanity = w}

InQuota == Cardinality(Su!Live) + Cardinality(Adding) <= (MaxUrls - 1) + Cardinality(PageTab)
InTurn == \A w \in Vanity : Cardinality(Named(w)) + Cardinality(NamingCalls(w)) <= Cardinality(PageTab)

UrlsInv == UrlsTyped /\ EditsTyped /\ PostsTyped /\ UnreadTyped /\ InQuota /\ InTurn /\ Su!OwnShown

LEMMA UrlsCounted == \A S : Su!Cardinality(S) = Cardinality(S)
  BY DEF Cardinality, Su!Cardinality

LEMMA UrlsFinite ==
    /\ IsFiniteSet(Url) /\ IsFiniteSet(PageTab) /\ PageTab # {}
    /\ MaxUrls \in Nat /\ MaxUrls >= 1 /\ None \notin Vanity
    /\ IsFiniteSet(Su!Live) /\ Cardinality(Su!Live) \in Nat
    /\ IsFiniteSet(Adding) /\ Cardinality(Adding) \in Nat
    /\ Cardinality(PageTab) \in Nat /\ Cardinality(PageTab) >= 1
    /\ Cardinality(Adding) <= Cardinality(PageTab)
    /\ \A w : /\ IsFiniteSet(Named(w)) /\ Cardinality(Named(w)) \in Nat
              /\ IsFiniteSet(NamingCalls(w)) /\ Cardinality(NamingCalls(w)) \in Nat
              /\ Cardinality(NamingCalls(w)) <= Cardinality(PageTab)
<1>1. /\ IsFiniteSet(Url) /\ IsFiniteSet(PageTab) /\ PageTab # {}
      /\ MaxUrls \in Nat /\ MaxUrls >= 1 /\ None \notin Vanity
  BY PagesAssumption DEF Su!ShortUrlsAssumption, Su!IsFiniteSet, IsFiniteSet
<1>2. Su!Live \in SUBSET Url /\ Adding \in SUBSET PageTab
      /\ \A w : Named(w) \in SUBSET Url /\ NamingCalls(w) \in SUBSET PageTab
  BY DEF Su!Live, Adding, Named, NamingCalls
<1>3. \A S \in SUBSET Url : IsFiniteSet(S) /\ Cardinality(S) \in Nat
  BY <1>1, FS_Subset, FS_CardinalityType
<1>4. \A S \in SUBSET PageTab : IsFiniteSet(S) /\ Cardinality(S) \in Nat /\ Cardinality(S) <= Cardinality(PageTab)
  BY <1>1, FS_Subset, FS_CardinalityType
<1>5. Cardinality(PageTab) \in Nat /\ Cardinality(PageTab) >= 1
  <2>1. Cardinality(PageTab) \in Nat /\ Cardinality(PageTab) # 0
    BY <1>1, FS_CardinalityType, FS_EmptySet
  <2> QED
    BY <2>1
<1> QED
  BY <1>1, <1>2, <1>3, <1>4, <1>5

LEMMA RowsAreRows ==
    /\ IsRow(Su!Plain)
    /\ \A v : IsRow(Su!NewUrl(v))
    /\ \A r, v, f : IsRow(r) => IsRow([r EXCEPT ![f] = v])
<1>1. ASSUME NEW r, NEW v, NEW f, IsRow(r) PROVE IsRow([r EXCEPT ![f] = v])
  BY <1>1 DEF IsRow
<1>2. IsRow(Su!Plain)
  BY DEF IsRow, Su!Plain, Su!Fields
<1> QED
  BY <1>1, <1>2 DEF Su!NewUrl

(* A call that has moved on.                                                 *)
LEMMA PostMoves ==
    ASSUME UrlsInv, NEW t \in PageTab, NEW c, Wellposted(c), post' = [post EXCEPT ![t] = c]
    PROVE  /\ PostsTyped' /\ post'[t] = c /\ \A s \in PageTab \ {t} : post'[s] = post[s]
<1>1. PICK S : post \in [PageTab -> S]
  BY DEF UrlsInv, PostsTyped
<1>2. /\ post' \in [PageTab -> S \union {c}] /\ post'[t] = c
      /\ \A s \in PageTab \ {t} : post'[s] = post[s]
  BY <1>1
<1>3. \A s \in PageTab : Wellposted(post'[s])
  BY <1>2 DEF UrlsInv, PostsTyped
<1>4. PostsTyped'
  <2>1. ASSUME NEW s \in PageTab PROVE Wellposted(post[s])'
    BY <1>3 DEF Wellposted, Su!Quiet, IsRow, Su!Fields, PostOf
  <2> QED
    BY <1>2, <2>1 DEF PostsTyped
<1> QED
  BY <1>2, <1>4

LEMMA StageMoves ==
    ASSUME NEW c, Wellposted(c), c.at # "post", NEW stage, stage # "find"
    PROVE  /\ Wellposted([c EXCEPT !.at = stage])
           /\ [c EXCEPT !.at = stage].at = stage /\ [c EXCEPT !.at = stage].kind = c.kind
           /\ [c EXCEPT !.at = stage].body = c.body /\ [c EXCEPT !.at = stage].of = c.of
           /\ c.kind = "post" => IsRow(c.body) /\ c.at # "find"
<1>1. PICK kind, a, of, body, meant :
        /\ c = PostOf(kind, a, of, body, meant)
        /\ c = Su!Quiet \/ (kind = "post" => a # "find" /\ IsRow(body))
        /\ kind = "patch" => DOMAIN body \subseteq meant \union {"limit"}
  BY DEF Wellposted
<1>2. c \in [kind : {kind}, at : {a, stage}, of : {of}, body : {body}, meant : {meant}]
  BY <1>1 DEF PostOf
<1>3. [c EXCEPT !.at = stage] = PostOf(kind, stage, of, body, meant)
  BY <1>1, <1>2 DEF PostOf
<1>4. kind = "post" => a # "find" /\ IsRow(body)
  BY <1>1 DEF PostOf, Su!Quiet
<1>5. Wellposted(PostOf(kind, stage, of, body, meant))
  BY <1>1, <1>4 DEF Wellposted
<1> QED
  BY <1>1, <1>3, <1>4, <1>5 DEF PostOf

(* What does not grow stays in its bounds.                                   *)
LEMMA QuotaKeeps ==
    ASSUME UrlsInv, Su!Live' \subseteq Su!Live, Adding' \subseteq Adding
    PROVE  InQuota'
<1>1. /\ Cardinality(Su!Live') \in Nat /\ Cardinality(Su!Live') <= Cardinality(Su!Live)
      /\ Cardinality(Adding') \in Nat /\ Cardinality(Adding') <= Cardinality(Adding)
  BY UrlsFinite, FS_Subset, FS_CardinalityType
<1>2. Cardinality(Su!Live) + Cardinality(Adding) <= (MaxUrls - 1) + Cardinality(PageTab)
  BY DEF UrlsInv, InQuota
<1>3. Cardinality(Su!Live') + Cardinality(Adding') <= (MaxUrls - 1) + Cardinality(PageTab)
  BY <1>1, <1>2, UrlsFinite
<1> QED
  BY <1>3 DEF InQuota

LEMMA NameKeeps ==
    ASSUME UrlsInv, NEW w \in Vanity, Named(w)' \subseteq Named(w), NamingCalls(w)' \subseteq NamingCalls(w)
    PROVE  Cardinality(Named(w)') + Cardinality(NamingCalls(w)') <= Cardinality(PageTab)
<1>1. /\ Cardinality(Named(w)') \in Nat /\ Cardinality(Named(w)') <= Cardinality(Named(w))
      /\ Cardinality(NamingCalls(w)') \in Nat /\ Cardinality(NamingCalls(w)') <= Cardinality(NamingCalls(w))
  BY UrlsFinite, FS_Subset, FS_CardinalityType
<1>2. Cardinality(Named(w)) + Cardinality(NamingCalls(w)) <= Cardinality(PageTab)
  BY DEF UrlsInv, InTurn
<1> QED
  BY <1>1, <1>2, UrlsFinite

LEMMA NamesKeep ==
    ASSUME UrlsInv, \A w \in Vanity : Named(w)' \subseteq Named(w) /\ NamingCalls(w)' \subseteq NamingCalls(w)
    PROVE  InTurn'
<1>1. \A w \in Vanity : Cardinality(Named(w)') + Cardinality(NamingCalls(w)') <= Cardinality(PageTab)
  BY NameKeeps
<1> QED
  BY <1>1 DEF InTurn

LEMMA UrlsStay ==
    ASSUME UrlsInv, UNCHANGED urls
    PROVE  /\ Su!Live' = Su!Live /\ \A w : Named(w)' = Named(w)
           /\ (\E S : urls \in [Url -> S])' /\ \A u \in Url : urls'[u] = None \/ IsRow(urls'[u])
<1>1. Su!Live' = Su!Live
  BY DEF Su!Live
<1>2. \A w : Named(w)' = Named(w)
  BY <1>1 DEF Named
<1> QED
  BY <1>1, <1>2 DEF UrlsInv, UrlsTyped

LEMMA PostsStay ==
    ASSUME UrlsInv, UNCHANGED post
    PROVE  PostsTyped' /\ Adding' = Adding /\ \A w : NamingCalls(w)' = NamingCalls(w)
<1>1. \A s \in PageTab : Wellposted(post'[s])
  BY DEF UrlsInv, PostsTyped
<1>2. ASSUME NEW s \in PageTab PROVE Wellposted(post[s])'
  BY <1>1 DEF Wellposted, Su!Quiet, IsRow, Su!Fields, PostOf
<1>3. PostsTyped'
  BY <1>2 DEF UrlsInv, PostsTyped
<1> QED
  BY <1>3 DEF Adding, NamingCalls, Asks

LEMMA TypedAnew ==
    ASSUME UrlsInv, \E S : urls' \in [Url -> S], \A u \in Url : urls'[u] = None \/ IsRow(urls'[u]),
           UNCHANGED <<listed, dialog, unread>>
    PROVE  UrlsTyped' /\ EditsTyped' /\ UnreadTyped'
<1>1. UrlsTyped'
  <2>1. \A u \in Url : (urls[u] = None \/ IsRow(urls[u]))'
    BY DEF IsRow, Su!Fields
  <2>2. ASSUME NEW t \in PageTab, NEW u \in Url PROVE (listed[t][u] = None \/ IsRow(listed[t][u]))'
    <3>1. listed[t][u] = None \/ IsRow(listed[t][u])
      BY DEF UrlsInv, UrlsTyped
    <3> QED
      BY <3>1 DEF IsRow, Su!Fields
  <2>3. (\E S : listed \in [PageTab -> S])'
    BY DEF UrlsInv, UrlsTyped
  <2> QED
    BY <2>1, <2>2, <2>3 DEF UrlsTyped
<1>2. EditsTyped'
  <2>1. ASSUME NEW t \in PageTab PROVE AsListed(dialog[t])'
    <3>1. AsListed(dialog[t])
      BY DEF UrlsInv, EditsTyped
    <3>2. dialog'[t] = dialog[t]
      OBVIOUS
    <3>3. AsListed(dialog'[t])
      BY <3>1, <3>2
    <3> QED
      BY <3>3 DEF AsListed, IsRow, Su!Fields
  <2> QED
    BY <2>1 DEF UrlsInv, EditsTyped
<1>3. UnreadTyped'
  BY DEF UrlsInv, UnreadTyped
<1> QED
  BY <1>1, <1>2, <1>3

LEMMA ShownKeeps ==
    ASSUME UrlsInv, UNCHANGED <<again, unread, view>>
    PROVE  Su!OwnShown'
  BY DEF UrlsInv, Su!OwnShown

(* A tab calls: nothing is counted or named before it is looked up.          *)
LEMMA CallsKeep ==
    ASSUME UrlsInv, NEW t \in PageTab, NEW kind, NEW stage, NEW u, NEW body, NEW meant,
           Su!Calls(t, kind, stage, u, body, meant),
           kind = "post" => stage = "count" /\ IsRow(body),
           kind = "patch" => stage = "find" /\ DOMAIN body \subseteq meant \union {"limit"}
    PROVE  UrlsInv'
<1> DEFINE c == PostOf(kind, stage, u, body, meant)
<1>1. /\ post' = [post EXCEPT ![t] = c]
      /\ UNCHANGED <<urls, view, listed, again, dialog, unread>>
  BY DEF Su!Calls, PostOf
<1>2. Wellposted(c)
  BY DEF Wellposted
<1>3. c.kind = kind /\ c.at = stage
  BY DEF PostOf
<1> HIDE DEF c
<1>4. /\ PostsTyped' /\ post'[t] = c /\ \A s \in PageTab \ {t} : post'[s] = post[s]
  BY <1>1, <1>2, PostMoves
<1>5. Adding' \subseteq Adding
  BY <1>3, <1>4 DEF Adding
<1>6. \A w : NamingCalls(w)' \subseteq NamingCalls(w)
  BY <1>3, <1>4 DEF NamingCalls, Asks
<1>7. /\ Su!Live' = Su!Live /\ \A w : Named(w)' = Named(w)
      /\ (\E S : urls \in [Url -> S])' /\ \A x \in Url : urls'[x] = None \/ IsRow(urls'[x])
  BY <1>1, UrlsStay
<1>8. InQuota' /\ InTurn'
  BY <1>5, <1>6, <1>7, QuotaKeeps, NamesKeep
<1>9. UrlsTyped' /\ EditsTyped' /\ UnreadTyped' /\ Su!OwnShown'
  BY <1>1, <1>7, TypedAnew, ShownKeeps
<1> QED
  BY <1>4, <1>8, <1>9 DEF UrlsInv

LEMMA ShortenKeeps ==
    ASSUME UrlsInv, NEW t \in PageTab, NEW v, Su!Shorten(t, v)
    PROVE  UrlsInv'
<1>1. Su!Calls(t, "post", "count", None, Su!NewUrl(v), Su!Fields) /\ IsRow(Su!NewUrl(v))
  BY RowsAreRows DEF Su!Shorten
<1> QED
  BY <1>1, CallsKeep

LEMMA SaveKeeps ==
    ASSUME UrlsInv, NEW t \in PageTab, Su!Save(t)
    PROVE  UrlsInv'
<1> DEFINE d == dialog[t]
           body == [f \in Su!Sent(d) |-> d.form[f]]
<1>1. Su!Calls(t, "patch", "find", d.of, body, d.touched)
  BY DEF Su!Save
<1>2. DOMAIN body \subseteq d.touched \union {"limit"}
  <2>0. AsListed(d)
    BY DEF UrlsInv, EditsTyped
  <2> HIDE DEF d
  <2>1. PICK of, was, frm, touched :
          /\ d = [of |-> of, was |-> was, form |-> frm, touched |-> touched]
          /\ \A f \in {"vanity", "limit", "on"} \ touched : frm[f] = was[f]
          /\ "locked" \notin touched => frm["locked"] = FALSE
    BY <2>0 DEF AsListed
  <2>2. d.was = was /\ d.form = frm /\ d.touched = touched
    BY <2>1
  <2>3. "vanity" \notin touched => frm["vanity"] = was["vanity"]
    BY <2>1
  <2>4. "on" \notin touched => frm["on"] = was["on"]
    BY <2>1
  <2>5. "locked" \notin touched => frm["locked"] = FALSE
    BY <2>1
  <2>6. Su!Sent(d) \subseteq touched \union {"limit"}
    BY <2>2, <2>3, <2>4, <2>5 DEF Su!Sent
  <2> QED
    BY <2>2, <2>6
<1> HIDE DEF body, d
<1> QED
  BY <1>1, <1>2, CallsKeep

LEMMA UnprotectKeeps ==
    ASSUME UrlsInv, NEW t \in PageTab, Su!Unprotect(t)
    PROVE  UrlsInv'
<1> DEFINE body == [f \in {"locked"} |-> FALSE]
<1>1. Su!Calls(t, "patch", "find", dialog[t].of, body, {"locked"})
  BY DEF Su!Unprotect
<1>2. DOMAIN body \subseteq {"locked"} \union {"limit"}
  OBVIOUS
<1> HIDE DEF body
<1> QED
  BY <1>1, <1>2, CallsKeep

LEMMA DeleteKeeps ==
    ASSUME UrlsInv, NEW t \in PageTab, NEW u, Su!Delete(t, u)
    PROVE  UrlsInv'
<1>1. Su!Calls(t, "delete", "write", u, << >>, {})
  BY DEF Su!Delete
<1> QED
  BY <1>1, CallsKeep

-----------------------------------------------------------------------------
(* The routes.                                                               *)
LEMMA TurnsTo ==
    ASSUME UrlsInv, NEW t \in PageTab, NEW stage \in {"vanity", "write", "done", "error"},
           post[t].at # "post", post' = [post EXCEPT ![t].at = stage]
    PROVE  /\ PostsTyped' /\ \A s \in PageTab \ {t} : post'[s] = post[s]
           /\ post'[t].at = stage /\ post'[t].kind = post[t].kind
           /\ post'[t].body = post[t].body
           /\ post[t].kind = "post" => IsRow(post[t].body) /\ post[t].at # "find"
<1> DEFINE c == [post[t] EXCEPT !.at = stage]
<1>1. post' = [post EXCEPT ![t] = c]
  OBVIOUS
<1>2. Wellposted(post[t])
  BY DEF UrlsInv, PostsTyped
<1>3. /\ Wellposted(c) /\ c.at = stage /\ c.kind = post[t].kind /\ c.body = post[t].body
      /\ post[t].kind = "post" => IsRow(post[t].body) /\ post[t].at # "find"
  BY <1>2, StageMoves
<1> HIDE DEF c
<1>4. PostsTyped' /\ post'[t] = c /\ \A s \in PageTab \ {t} : post'[s] = post[s]
  BY <1>1, <1>3, PostMoves
<1> QED
  BY <1>3, <1>4

LEMMA LooksUp ==
    ASSUME UrlsInv, UNCHANGED <<urls, view, listed, again, dialog, unread>>, PostsTyped', InQuota', InTurn'
    PROVE  UrlsInv'
<1>1. (\E S : urls \in [Url -> S])' /\ \A x \in Url : urls'[x] = None \/ IsRow(urls'[x])
  BY UrlsStay
<1>2. UrlsTyped' /\ EditsTyped' /\ UnreadTyped' /\ Su!OwnShown'
  BY <1>1, TypedAnew, ShownKeeps
<1> QED
  BY <1>2 DEF UrlsInv

LEMMA CountUrlsKeeps ==
    ASSUME UrlsInv, NEW t \in PageTab, Su!CountUrls(t)
    PROVE  UrlsInv'
<1>1. /\ post[t].at = "count"
      /\ UNCHANGED <<urls, view, listed, again, dialog, unread>>
  BY DEF Su!CountUrls, Su!pageVars
<1> DEFINE stage == IF Cardinality(Su!Live) + 1 > MaxUrls THEN "error" ELSE "vanity"
<1>2. post' = [post EXCEPT ![t].at = stage]
  BY UrlsCounted DEF Su!CountUrls, Su!Turns
<1>3. stage \in {"vanity", "error"} /\ (stage = "vanity" => Cardinality(Su!Live) + 1 <= MaxUrls)
  BY UrlsFinite
<1> HIDE DEF stage
<1>4. /\ PostsTyped' /\ \A s \in PageTab \ {t} : post'[s] = post[s]
      /\ post'[t].at = stage /\ post'[t].kind = post[t].kind
  BY <1>1, <1>2, <1>3, TurnsTo
<1>5. /\ Su!Live' = Su!Live /\ \A w : Named(w)' = Named(w)
  BY <1>1, UrlsStay
<1>6. InTurn'
  <2>1. \A w : NamingCalls(w)' \subseteq NamingCalls(w)
    BY <1>3, <1>4 DEF NamingCalls, Asks
  <2> QED
    BY <1>5, <2>1, NamesKeep
<1>7. InQuota'
  <2>1. CASE stage = "error"
    <3>1. Adding' \subseteq Adding
      BY <1>4, <2>1 DEF Adding
    <3> QED
      BY <1>5, <3>1, QuotaKeeps
  <2>2. CASE stage = "vanity"
    <3>1. Adding' \in SUBSET PageTab
      BY DEF Adding
    <3>2. Cardinality(Adding') \in Nat /\ Cardinality(Adding') <= Cardinality(PageTab)
      BY <3>1, UrlsFinite, FS_Subset, FS_CardinalityType
    <3>3. Cardinality(Su!Live) + Cardinality(Adding') <= (MaxUrls - 1) + Cardinality(PageTab)
      BY <1>3, <2>2, <3>2, UrlsFinite
    <3> QED
      BY <1>5, <3>3 DEF InQuota
  <2> QED
    BY <1>3, <2>1, <2>2
<1> QED
  BY <1>1, <1>4, <1>6, <1>7, LooksUp

LEMMA FindUrlKeeps ==
    ASSUME UrlsInv, NEW t \in PageTab, Su!FindUrl(t)
    PROVE  UrlsInv'
<1>1. /\ post[t].at = "find"
      /\ UNCHANGED <<urls, view, listed, again, dialog, unread>>
  BY DEF Su!FindUrl, Su!pageVars
<1>2. PICK stage \in {"vanity", "error"} : post' = [post EXCEPT ![t].at = stage]
  BY DEF Su!FindUrl, Su!Turns
<1>3. /\ PostsTyped' /\ \A s \in PageTab \ {t} : post'[s] = post[s]
      /\ post'[t].at = stage /\ post'[t].kind = post[t].kind
      /\ post[t].kind = "post" => post[t].at # "find"
  BY <1>1, <1>2, TurnsTo
<1>4. Adding' \subseteq Adding
  BY <1>1, <1>3 DEF Adding
<1>5. \A w : NamingCalls(w)' \subseteq NamingCalls(w)
  BY <1>2, <1>3 DEF NamingCalls, Asks
<1>6. /\ Su!Live' = Su!Live /\ \A w : Named(w)' = Named(w)
  BY <1>1, UrlsStay
<1>7. InQuota' /\ InTurn'
  BY <1>4, <1>5, <1>6, QuotaKeeps, NamesKeep
<1> QED
  BY <1>1, <1>3, <1>7, LooksUp

(* A name that is looked up is nobody's, so that those who are about to      *)
(* take it are no more than the tabs.                                        *)
LEMMA CheckVanityKeeps ==
    ASSUME UrlsInv, NEW t \in PageTab, Su!CheckVanity(t)
    PROVE  UrlsInv'
<1>1. /\ post[t].at = "vanity"
      /\ UNCHANGED <<urls, view, listed, again, dialog, unread>>
  BY DEF Su!CheckVanity, Su!pageVars
<1> DEFINE wanted == IF "vanity" \in DOMAIN post[t].body THEN post[t].body["vanity"] ELSE None
           stage == IF wanted # None /\ \E u \in Su!Live : urls[u].vanity = wanted THEN "error" ELSE "write"
<1>2. post' = [post EXCEPT ![t].at = stage]
  BY DEF Su!CheckVanity, Su!Turns
<1>3. stage \in {"write", "error"}
  OBVIOUS
<1>4. ASSUME NEW w \in Vanity, stage = "write", Asks(post[t], w) PROVE Named(w) = {}
  <2>1. wanted = w /\ w # None
    BY <1>4, UrlsFinite DEF Asks
  <2> QED
    BY <1>4, <2>1 DEF Named
<1> HIDE DEF stage
<1>5. /\ PostsTyped' /\ \A s \in PageTab \ {t} : post'[s] = post[s]
      /\ post'[t].at = stage /\ post'[t].kind = post[t].kind /\ post'[t].body = post[t].body
  BY <1>1, <1>2, <1>3, TurnsTo
<1>6. Adding' \subseteq Adding
  BY <1>1, <1>5 DEF Adding
<1>7. /\ Su!Live' = Su!Live /\ \A w : Named(w)' = Named(w)
  BY <1>1, UrlsStay
<1>8. InQuota'
  BY <1>6, <1>7, QuotaKeeps
<1>9. ASSUME NEW w \in Vanity
      PROVE  Cardinality(Named(w)') + Cardinality(NamingCalls(w)') <= Cardinality(PageTab)
  <2>1. CASE stage = "write" /\ Asks(post[t], w)
    <3>1. Named(w)' = {}
      BY <1>4, <1>7, <2>1
    <3>2. NamingCalls(w)' \in SUBSET PageTab
      BY DEF NamingCalls
    <3>3. Cardinality(NamingCalls(w)') \in Nat /\ Cardinality(NamingCalls(w)') <= Cardinality(PageTab)
      BY <3>2, UrlsFinite, FS_Subset, FS_CardinalityType
    <3> QED
      BY <3>1, <3>3, UrlsFinite, FS_EmptySet
  <2>2. CASE ~(stage = "write" /\ Asks(post[t], w))
    <3>1. NamingCalls(w)' \subseteq NamingCalls(w)
      BY <1>5, <2>2 DEF NamingCalls, Asks
    <3> QED
      BY <1>7, <3>1, NameKeeps
  <2> QED
    BY <2>1, <2>2
<1>10. InTurn'
  BY <1>9 DEF InTurn
<1> QED
  BY <1>1, <1>5, <1>8, <1>10, LooksUp

LEMMA OneMore ==
    ASSUME NEW S, IsFiniteSet(S), NEW x
    PROVE  /\ IsFiniteSet(S \union {x}) /\ Cardinality(S \union {x}) \in Nat
           /\ Cardinality(S \union {x}) <= Cardinality(S) + 1
<1>1. /\ IsFiniteSet(S \union {x})
      /\ Cardinality(S \union {x}) = IF x \in S THEN Cardinality(S) ELSE Cardinality(S) + 1
  BY FS_AddElement
<1>2. Cardinality(S) \in Nat
  BY FS_CardinalityType
<1> QED
  BY <1>1, <1>2

(* A name is taken by a call that was about to.                              *)
LEMMA NameTaken ==
    ASSUME UrlsInv, NEW w \in Vanity, NEW t \in NamingCalls(w), NEW u,
           Named(w)' \subseteq Named(w) \union {u}, NamingCalls(w)' \subseteq NamingCalls(w) \ {t}
    PROVE  Cardinality(Named(w)') + Cardinality(NamingCalls(w)') <= Cardinality(PageTab)
<1>1. /\ IsFiniteSet(Named(w) \union {u}) /\ Cardinality(Named(w) \union {u}) \in Nat
      /\ Cardinality(Named(w) \union {u}) <= Cardinality(Named(w)) + 1
  <2>1. IsFiniteSet(Named(w)) /\ Cardinality(Named(w)) \in Nat
    BY UrlsFinite
  <2> QED
    BY <2>1, OneMore
<1>2. Cardinality(Named(w)') <= Cardinality(Named(w) \union {u}) /\ Cardinality(Named(w)') \in Nat
  BY <1>1, FS_Subset, FS_CardinalityType
<1>3. IsFiniteSet(NamingCalls(w) \ {t}) /\ Cardinality(NamingCalls(w) \ {t}) = Cardinality(NamingCalls(w)) - 1
  BY UrlsFinite, FS_RemoveElement
<1>4. Cardinality(NamingCalls(w)') <= Cardinality(NamingCalls(w) \ {t}) /\ Cardinality(NamingCalls(w)') \in Nat
  BY <1>3, FS_Subset, FS_CardinalityType
<1>5. Cardinality(Named(w)) + Cardinality(NamingCalls(w)) <= Cardinality(PageTab)
  BY DEF UrlsInv, InTurn
<1> QED
  BY <1>1, <1>2, <1>3, <1>4, <1>5, UrlsFinite

LEMMA TypedNow ==
    ASSUME \E S : urls' \in [Url -> S], \A u \in Url : urls'[u] = None \/ IsRow(urls'[u]),
           \E S : listed' \in [PageTab -> S],
           \A t \in PageTab, u \in Url : listed'[t][u] = None \/ IsRow(listed'[t][u])
    PROVE  UrlsTyped'
<1>1. \A u \in Url : (urls[u] = None \/ IsRow(urls[u]))'
  BY DEF IsRow, Su!Fields
<1>2. \A t \in PageTab, u \in Url : (listed[t][u] = None \/ IsRow(listed[t][u]))'
  BY DEF IsRow, Su!Fields
<1> QED
  BY <1>1, <1>2 DEF UrlsTyped

LEMMA TypedStays ==
    ASSUME UrlsInv, UNCHANGED <<urls, listed>>
    PROVE  UrlsTyped'
<1>1. /\ \E S : urls' \in [Url -> S]
      /\ \E S : listed' \in [PageTab -> S]
      /\ \A u \in Url : urls'[u] = None \/ IsRow(urls'[u])
      /\ \A t \in PageTab, u \in Url : listed'[t][u] = None \/ IsRow(listed'[t][u])
  BY DEF UrlsInv, UrlsTyped
<1> QED
  BY <1>1, TypedNow

(* A dialog that has moved on.                                               *)
LEMMA EditMoves ==
    ASSUME UrlsInv, NEW t \in PageTab, NEW d, AsListed(d), dialog' = [dialog EXCEPT ![t] = d]
    PROVE  EditsTyped'
<1>1. PICK S : dialog \in [PageTab -> S]
  BY DEF UrlsInv, EditsTyped
<1>2. dialog' \in [PageTab -> S \union {d}] /\ \A s \in PageTab : AsListed(dialog'[s])
  BY <1>1 DEF UrlsInv, EditsTyped
<1>3. ASSUME NEW s \in PageTab PROVE AsListed(dialog[s])'
  <2>1. AsListed(dialog'[s])
    BY <1>2
  <2> QED
    BY <2>1 DEF AsListed, IsRow, Su!Fields
<1> QED
  BY <1>2, <1>3 DEF EditsTyped

LEMMA PageMoves ==
    ASSUME UrlsInv, UNCHANGED <<urls, view, listed, again, post, unread>>, EditsTyped'
    PROVE  UrlsInv'
<1>1. /\ PostsTyped' /\ Adding' = Adding /\ \A w : NamingCalls(w)' = NamingCalls(w)
      /\ Su!Live' = Su!Live /\ \A w : Named(w)' = Named(w)
  BY PostsStay, UrlsStay
<1>2. InQuota' /\ InTurn'
  BY <1>1, QuotaKeeps, NamesKeep
<1>3. UrlsTyped' /\ Su!OwnShown' /\ UnreadTyped'
  BY TypedStays, ShownKeeps DEF UrlsInv, UnreadTyped
<1> QED
  BY <1>1, <1>2, <1>3 DEF UrlsInv

LEMMA QuietPosted == Wellposted(Su!Quiet)
<1>1. Su!Quiet = PostOf(None, None, None, << >>, {})
  BY DEF Su!Quiet, PostOf
<1>2. DOMAIN << >> = {}
  OBVIOUS
<1> QED
  BY <1>1, <1>2 DEF Wellposted

LEMMA CreateKeeps ==
    ASSUME UrlsInv, NEW t \in PageTab, NEW u \in Url, Su!Create(t, u)
    PROVE  UrlsInv'
<1> DEFINE b == post[t].body
           c == [[post[t] EXCEPT !.at = "done"] EXCEPT !.of = u]
<1>1. /\ post[t].at = "write" /\ post[t].kind = "post"
      /\ urls' = [urls EXCEPT ![u] = b] /\ post' = [post EXCEPT ![t] = c]
      /\ UNCHANGED <<view, listed, again, dialog, unread>>
  <2>1. PICK S : post \in [PageTab -> S]
    BY DEF UrlsInv, PostsTyped
  <2>2. post' = [post EXCEPT ![t].at = "done", ![t].of = u]
    BY DEF Su!Create
  <2>3. post' = [post EXCEPT ![t] = c]
    BY <2>1, <2>2
  <2> QED
    BY <2>3 DEF Su!Create, Su!pageVars
<1>2. Wellposted(post[t])
  BY DEF UrlsInv, PostsTyped
<1>3. Wellposted(c) /\ c.at = "done" /\ IsRow(b)
  <2>1. PICK kind, a, of, body, meant :
          /\ post[t] = PostOf(kind, a, of, body, meant)
          /\ post[t] = Su!Quiet \/ (kind = "post" => a # "find" /\ IsRow(body))
          /\ kind = "patch" => DOMAIN body \subseteq meant \union {"limit"}
    BY <1>2 DEF Wellposted
  <2>2. kind = "post" /\ a = "write" /\ b = body
    BY <1>1, <2>1 DEF PostOf
  <2>3. IsRow(body)
    BY <1>1, <2>1, <2>2 DEF Su!Quiet
  <2>4. post[t] \in [kind : {kind}, at : {a, "done"}, of : {of, u}, body : {body}, meant : {meant}]
    BY <2>1 DEF PostOf
  <2>5. [post[t] EXCEPT !.at = "done"] = PostOf(kind, "done", of, body, meant)
    BY <2>1, <2>4 DEF PostOf
  <2>6. PostOf(kind, "done", of, body, meant) \in
          [kind : {kind}, at : {"done"}, of : {of, u}, body : {body}, meant : {meant}]
    BY DEF PostOf
  <2>7. [PostOf(kind, "done", of, body, meant) EXCEPT !.of = u] = PostOf(kind, "done", u, body, meant)
    BY <2>6 DEF PostOf
  <2>8. c = PostOf(kind, "done", u, body, meant)
    BY <2>5, <2>7
  <2>9. Wellposted(PostOf(kind, "done", u, body, meant))
    BY <2>2, <2>3 DEF Wellposted
  <2> QED
    BY <2>2, <2>3, <2>8, <2>9 DEF PostOf
<1> HIDE DEF c
<1>4. PostsTyped' /\ post'[t] = c /\ \A s \in PageTab \ {t} : post'[s] = post[s]
  BY <1>1, <1>3, PostMoves
<1>5. PICK S : urls \in [Url -> S]
  BY DEF UrlsInv, UrlsTyped
<1> HIDE DEF b
<1>6. /\ urls' \in [Url -> S \union {b}] /\ urls'[u] = b
      /\ \A x \in Url \ {u} : urls'[x] = urls[x]
  BY <1>1, <1>5
<1>7. \A x \in Url : urls'[x] = None \/ IsRow(urls'[x])
  BY <1>3, <1>6 DEF UrlsInv, UrlsTyped
<1>8. UrlsTyped' /\ EditsTyped' /\ UnreadTyped' /\ Su!OwnShown'
  BY <1>1, <1>6, <1>7, TypedAnew, ShownKeeps
<1>9. InQuota'
  <2>1. /\ Su!Live' \subseteq Su!Live \union {u} /\ t \in Adding /\ Adding' \subseteq Adding \ {t}
    BY <1>1, <1>3, <1>4, <1>6 DEF Su!Live, Adding
  <2>2. IsFiniteSet(Su!Live \union {u}) /\ Cardinality(Su!Live \union {u}) <= Cardinality(Su!Live) + 1
        /\ Cardinality(Su!Live \union {u}) \in Nat
    BY UrlsFinite, OneMore
  <2>3. Cardinality(Su!Live') <= Cardinality(Su!Live \union {u}) /\ Cardinality(Su!Live') \in Nat
    BY <2>1, <2>2, FS_Subset, FS_CardinalityType
  <2>4. IsFiniteSet(Adding \ {t}) /\ Cardinality(Adding \ {t}) = Cardinality(Adding) - 1
    BY <2>1, UrlsFinite, FS_RemoveElement
  <2>5. Cardinality(Adding') <= Cardinality(Adding \ {t}) /\ Cardinality(Adding') \in Nat
    BY <2>1, <2>4, FS_Subset, FS_CardinalityType
  <2>6. Cardinality(Su!Live) + Cardinality(Adding) <= (MaxUrls - 1) + Cardinality(PageTab)
    BY DEF UrlsInv, InQuota
  <2>7. Cardinality(Su!Live') + Cardinality(Adding') <= (MaxUrls - 1) + Cardinality(PageTab)
    BY <2>2, <2>3, <2>4, <2>5, <2>6, UrlsFinite
  <2> QED
    BY <2>7 DEF InQuota
<1>10. ASSUME NEW w \in Vanity
       PROVE  Cardinality(Named(w)') + Cardinality(NamingCalls(w)') <= Cardinality(PageTab)
  <2>1. NamingCalls(w)' \subseteq NamingCalls(w) \ {t}
    BY <1>3, <1>4 DEF NamingCalls, Asks
  <2>2. CASE b.vanity = w
    <3>1. t \in NamingCalls(w)
      BY <1>1, <1>3, <2>2 DEF NamingCalls, Asks, IsRow, Su!Fields, b
    <3>2. Named(w)' \subseteq Named(w) \union {u}
      BY <1>6 DEF Named, Su!Live
    <3> QED
      BY <2>1, <3>1, <3>2, NameTaken
  <2>3. CASE b.vanity # w
    <3>1. Named(w)' \subseteq Named(w)
      BY <1>6, <2>3 DEF Named, Su!Live
    <3> QED
      BY <2>1, <3>1, NameKeeps
  <2> QED
    BY <2>2, <2>3
<1>11. InTurn'
  BY <1>10 DEF InTurn
<1> QED
  BY <1>4, <1>8, <1>9, <1>11 DEF UrlsInv

LEMMA UpdateKeeps ==
    ASSUME UrlsInv, NEW t \in PageTab, Su!Update(t)
    PROVE  UrlsInv'
<1> DEFINE u == post[t].of
           b == post[t].body
           r == [f \in Su!Fields |-> IF f \in DOMAIN b THEN b[f] ELSE urls[u][f]]
<1>1. /\ post[t].at = "write" /\ post[t].kind = "patch"
      /\ urls' = IF u \in Su!Live THEN [urls EXCEPT ![u] = r] ELSE urls
      /\ UNCHANGED <<view, listed, again, dialog, unread>>
  BY DEF Su!Update, Su!pageVars
<1>2. PICK stage \in {"done", "error"} : post' = [post EXCEPT ![t].at = stage]
  BY DEF Su!Update, Su!Turns
<1>3. /\ PostsTyped' /\ \A s \in PageTab \ {t} : post'[s] = post[s]
      /\ post'[t].at = stage /\ post'[t].kind = post[t].kind
  BY <1>1, <1>2, TurnsTo
<1>4. IsRow(r)
  BY DEF IsRow
<1>5. r.vanity = IF "vanity" \in DOMAIN b THEN b["vanity"] ELSE urls[u].vanity
  BY DEF Su!Fields
<1> HIDE DEF r
<1>6. PICK S : urls \in [Url -> S]
  BY DEF UrlsInv, UrlsTyped
<1>7. /\ urls' \in [Url -> S \union {r}]
      /\ u \in Su!Live => u \in Url /\ urls'[u] = r
      /\ \A x \in Url \ {u} : urls'[x] = urls[x]
      /\ u \notin Su!Live => urls' = urls
  BY <1>1, <1>6 DEF Su!Live
<1>8. \A x \in Url : urls'[x] = None \/ IsRow(urls'[x])
  BY <1>4, <1>7 DEF UrlsInv, UrlsTyped
<1>9. UrlsTyped' /\ EditsTyped' /\ UnreadTyped' /\ Su!OwnShown'
  BY <1>1, <1>7, <1>8, TypedAnew, ShownKeeps
<1>10. InQuota'
  <2>1. Su!Live' \subseteq Su!Live
    BY <1>7 DEF Su!Live
  <2>2. Adding' \subseteq Adding
    BY <1>1, <1>2, <1>3 DEF Adding
  <2> QED
    BY <2>1, <2>2, QuotaKeeps
<1>11. ASSUME NEW w \in Vanity
       PROVE  Cardinality(Named(w)') + Cardinality(NamingCalls(w)') <= Cardinality(PageTab)
  <2>1. NamingCalls(w)' \subseteq NamingCalls(w) \ {t}
    BY <1>2, <1>3 DEF NamingCalls, Asks
  <2>2. CASE Asks(post[t], w)
    <3>1. t \in NamingCalls(w)
      BY <1>1, <2>2 DEF NamingCalls
    <3>2. Named(w)' \subseteq Named(w) \union {u}
      BY <1>7 DEF Named, Su!Live
    <3> QED
      BY <2>1, <3>1, <3>2, NameTaken
  <2>3. CASE ~Asks(post[t], w)
    <3>1. ASSUME NEW x \in Named(w)' PROVE x \in Named(w)
      <4>1. x \in Url /\ urls'[x] # None /\ urls'[x].vanity = w
        BY <3>1 DEF Named, Su!Live
      <4>2. CASE x = u /\ u \in Su!Live
        <5>1. r.vanity = w
          BY <1>7, <4>1, <4>2
        <5>2. urls[u].vanity = w
          BY <1>5, <2>3, <5>1 DEF Asks
        <5> QED
          BY <4>2, <5>2 DEF Named
      <4>3. CASE ~(x = u /\ u \in Su!Live)
        <5>1. urls'[x] = urls[x]
          BY <1>7, <4>1, <4>3
        <5> QED
          BY <4>1, <5>1 DEF Named, Su!Live
      <4> QED
        BY <4>2, <4>3
    <3>2. Named(w)' \subseteq Named(w)
      BY <3>1
    <3> QED
      BY <2>1, <3>2, NameKeeps
  <2> QED
    BY <2>2, <2>3
<1>12. InTurn'
  BY <1>11 DEF InTurn
<1> QED
  BY <1>3, <1>9, <1>10, <1>12 DEF UrlsInv

LEMMA EraseKeeps ==
    ASSUME UrlsInv, NEW t \in PageTab, Su!Erase(t)
    PROVE  UrlsInv'
<1> DEFINE u == post[t].of
<1>1. /\ post[t].at = "write"
      /\ urls' = [urls EXCEPT ![u] = None]
      /\ UNCHANGED <<view, listed, again, dialog, unread>>
  BY DEF Su!Erase, Su!pageVars
<1>2. PICK stage \in {"done", "error"} : post' = [post EXCEPT ![t].at = stage]
  BY DEF Su!Erase, Su!Turns
<1>3. /\ PostsTyped' /\ \A s \in PageTab \ {t} : post'[s] = post[s]
      /\ post'[t].at = stage /\ post'[t].kind = post[t].kind
  BY <1>1, <1>2, TurnsTo
<1>4. PICK S : urls \in [Url -> S]
  BY DEF UrlsInv, UrlsTyped
<1>5. /\ urls' \in [Url -> S \union {None}]
      /\ \A x \in Url : urls'[x] \in {urls[x], None}
  BY <1>1, <1>4
<1>6. \A x \in Url : urls'[x] = None \/ IsRow(urls'[x])
  BY <1>5 DEF UrlsInv, UrlsTyped
<1>7. UrlsTyped' /\ EditsTyped' /\ UnreadTyped' /\ Su!OwnShown'
  BY <1>1, <1>5, <1>6, TypedAnew, ShownKeeps
<1>8. Su!Live' \subseteq Su!Live /\ \A w : Named(w)' \subseteq Named(w)
  BY <1>5 DEF Su!Live, Named
<1>9. Adding' \subseteq Adding /\ \A w : NamingCalls(w)' \subseteq NamingCalls(w)
  BY <1>2, <1>3 DEF Adding, NamingCalls, Asks
<1>10. InQuota' /\ InTurn'
  BY <1>8, <1>9, QuotaKeeps, NamesKeep
<1> QED
  BY <1>3, <1>7, <1>10 DEF UrlsInv

-----------------------------------------------------------------------------
(* The answer, and the page.                                                 *)
LEMMA UrlAnswerKeeps ==
    ASSUME UrlsInv, NEW t \in PageTab, Su!Answer(t)
    PROVE  UrlsInv'
<1> DEFINE k == post[t].kind
           fresh == {d \in {<<k, post[t].of>>} : post[t].at = "done"}
<1>1. /\ post[t].at \in {"done", "error"} /\ post' = [post EXCEPT ![t] = Su!Quiet]
      /\ again' = again \union {s \in {t} : Su!Reads(t)}
      /\ unread' = [unread EXCEPT ![t] = unread[t] \union fresh]
      /\ \/ dialog' = [dialog EXCEPT ![t] = Su!Closed]
         \/ dialog' = [dialog EXCEPT ![t] = dialog[t]]
      /\ UNCHANGED <<urls, view, listed>>
  BY DEF Su!Answer
<1>2. PostsTyped' /\ Adding' \subseteq Adding /\ \A w : NamingCalls(w)' \subseteq NamingCalls(w)
  <2>1. Wellposted(Su!Quiet)
    BY QuietPosted
  <2>2. PostsTyped' /\ post'[t] = Su!Quiet /\ \A s \in PageTab \ {t} : post'[s] = post[s]
    BY <1>1, <2>1, PostMoves
  <2> QED
    BY <2>2 DEF Adding, NamingCalls, Asks, Su!Quiet
<1>3. /\ Su!Live' = Su!Live /\ \A w : Named(w)' = Named(w)
  BY <1>1, UrlsStay
<1>4. InQuota' /\ InTurn'
  BY <1>2, <1>3, QuotaKeeps, NamesKeep
<1>5. UrlsTyped'
  BY <1>1, TypedStays
<1>6. EditsTyped'
  <2>1. AsListed(Su!Closed) /\ AsListed(dialog[t])
    <3>1. AsListed(Su!Closed)
      BY RowsAreRows DEF AsListed, Su!Closed, Su!Plain
    <3> QED
      BY <3>1 DEF UrlsInv, EditsTyped
  <2> QED
    BY <1>1, <2>1, EditMoves
<1>7. UnreadTyped' /\ Su!OwnShown'
  <2>1. PICK S : unread \in [PageTab -> S]
    BY DEF UrlsInv, UnreadTyped
  <2> DEFINE more == unread[t] \union fresh
  <2>2. /\ unread' \in [PageTab -> S \union {more}] /\ unread'[t] = more
        /\ \A s \in PageTab \ {t} : unread'[s] = unread[s]
    BY <1>1, <2>1
  <2>3. ASSUME NEW s \in PageTab \ again', NEW d \in unread'[s]
        PROVE  d[1] # "delete" /\ (d[1] = "patch" => view[s] = "search") /\ (d[1] = "post" => view[s] # "grid")
    <3>1. CASE d \in unread[s]
      BY <1>1, <2>3, <3>1 DEF UrlsInv, Su!OwnShown
    <3>2. CASE d \notin unread[s]
      <4>1. s = t /\ d \in fresh
        BY <2>2, <2>3, <3>2
      <4>2. d[1] = k /\ post[t].at = "done"
        BY <4>1
      <4>3. ~Su!Reads(t)
        BY <1>1, <2>3, <4>1
      <4> QED
        BY <4>1, <4>2, <4>3 DEF Su!Reads
    <3> QED
      BY <3>1, <3>2
  <2> QED
    BY ZenonT(60), <1>1, <2>2, <2>3 DEF UnreadTyped, Su!OwnShown
<1> QED
  BY <1>2, <1>4, <1>5, <1>6, <1>7 DEF UrlsInv

LEMMA OpensKeeps ==
    ASSUME UrlsInv, NEW t \in PageTab, NEW u \in Url, Su!EditCard(t, u) \/ Su!EditRow(t, u)
    PROVE  UrlsInv'
<1> DEFINE r == listed[t][u]
           frm == [r EXCEPT !.locked = FALSE]
           d == [of |-> u, was |-> r, form |-> frm, touched |-> {}]
<1>1. /\ dialog' = [dialog EXCEPT ![t] = d] /\ r # None
      /\ UNCHANGED <<urls, view, listed, again, post, unread>>
  BY DEF Su!EditCard, Su!EditRow, Su!Cards, Su!TableRows, Su!Opens
<1>2. IsRow(r)
  BY <1>1 DEF UrlsInv, UrlsTyped
<1>3. AsListed(d)
  <2>1. IsRow(frm) /\ frm["locked"] = FALSE /\ \A f \in {"vanity", "limit", "on"} : frm[f] = r[f]
    BY <1>2 DEF IsRow, Su!Fields
  <2> HIDE DEF r, frm
  <2> QED
    BY <1>2, <2>1 DEF AsListed
<1> HIDE DEF d
<1> QED
  BY <1>1, <1>3, EditMoves, PageMoves

LEMMA CloseKeeps ==
    ASSUME UrlsInv, NEW t \in PageTab, Su!Close(t)
    PROVE  UrlsInv'
<1>1. /\ dialog' = [dialog EXCEPT ![t] = Su!Closed]
      /\ UNCHANGED <<urls, view, listed, again, post, unread>>
  BY DEF Su!Close
<1>2. AsListed(Su!Closed)
  BY RowsAreRows DEF AsListed, Su!Closed, Su!Plain
<1> QED
  BY <1>1, <1>2, EditMoves, PageMoves

LEMMA TypeKeeps ==
    ASSUME UrlsInv, NEW t \in PageTab, NEW g \in Su!Fields, NEW v, Su!Type(t, g, v)
    PROVE  UrlsInv'
<1> DEFINE d == dialog[t]
           frm == [d.form EXCEPT ![g] = v]
           touched == d.touched \union {g}
           e == [[d EXCEPT !.form = frm] EXCEPT !.touched = touched]
<1>1. /\ dialog' = [dialog EXCEPT ![t] = e]
      /\ UNCHANGED <<urls, view, listed, again, post, unread>>
  BY DEF Su!Type
<1>2. AsListed(d)
  BY DEF UrlsInv, EditsTyped
<1>3. AsListed(e)
  <2>1. PICK of, was, frm0, touched0 :
          /\ d = [of |-> of, was |-> was, form |-> frm0, touched |-> touched0]
          /\ IsRow(was) /\ IsRow(frm0)
          /\ \A f \in {"vanity", "limit", "on"} \ touched0 : frm0[f] = was[f]
          /\ "locked" \notin touched0 => frm0["locked"] = FALSE
    BY <1>2 DEF AsListed
  <2> HIDE DEF d
  <2>2. d.form = frm0 /\ d.touched = touched0
    BY <2>1
  <2>3. /\ IsRow(frm)
        /\ \A f \in {"vanity", "limit", "on", "locked"} \ {g} : frm[f] = frm0[f]
    BY <2>1, <2>2 DEF IsRow, Su!Fields
  <2>4. /\ \A f \in {"vanity", "limit", "on"} \ touched : frm[f] = was[f]
        /\ "locked" \notin touched => frm["locked"] = FALSE
    BY <2>1, <2>2, <2>3
  <2>5. [of |-> of, was |-> was, form |-> frm0, touched |-> touched0]
          \in [of : {of}, was : {was}, form : {frm0, frm}, touched : {touched0, touched}]
    OBVIOUS
  <2>6. [[of |-> of, was |-> was, form |-> frm0, touched |-> touched0] EXCEPT !.form = frm]
          = [of |-> of, was |-> was, form |-> frm, touched |-> touched0]
    BY <2>5
  <2>7. [of |-> of, was |-> was, form |-> frm, touched |-> touched0]
          \in [of : {of}, was : {was}, form : {frm}, touched : {touched0, touched}]
    OBVIOUS
  <2>8. [[of |-> of, was |-> was, form |-> frm, touched |-> touched0] EXCEPT !.touched = touched]
          = [of |-> of, was |-> was, form |-> frm, touched |-> touched]
    BY <2>7
  <2>9. e = [of |-> of, was |-> was, form |-> frm, touched |-> touched]
    BY <2>1, <2>6, <2>8
  <2> HIDE DEF e, frm, touched
  <2> QED
    BY <2>1, <2>3, <2>4, <2>9 DEF AsListed
<1> HIDE DEF e
<1> QED
  BY <1>1, <1>3, EditMoves, PageMoves

LEMMA RefetchKeeps ==
    ASSUME UrlsInv, NEW t \in PageTab, Su!Refetch(t)
    PROVE  UrlsInv'
<1> DEFINE rows0 == Su!Fetched(t)
<1>1. /\ listed' = [listed EXCEPT ![t] = rows0] /\ again' = again \ {t}
      /\ unread' = [unread EXCEPT ![t] = {}]
      /\ UNCHANGED <<urls, view, dialog, post>>
  BY DEF Su!Refetch
<1>2. \A u \in Url : rows0[u] = None \/ IsRow(rows0[u])
  BY RowsAreRows DEF Su!Fetched, UrlsInv, UrlsTyped
<1> HIDE DEF rows0
<1>3. UrlsTyped'
  <2>1. PICK S : listed \in [PageTab -> S]
    BY DEF UrlsInv, UrlsTyped
  <2>2. /\ listed' \in [PageTab -> S \union {rows0}] /\ listed'[t] = rows0
        /\ \A s \in PageTab \ {t} : listed'[s] = listed[s]
    BY <1>1, <2>1
  <2>3. \A s \in PageTab, u \in Url : listed'[s][u] = None \/ IsRow(listed'[s][u])
    BY <1>2, <2>2 DEF UrlsInv, UrlsTyped
  <2>4. (\E R : urls \in [Url -> R])' /\ \A u \in Url : urls'[u] = None \/ IsRow(urls'[u])
    BY <1>1, UrlsStay
  <2> QED
    BY <2>2, <2>3, <2>4, TypedNow
<1>4. UnreadTyped' /\ Su!OwnShown'
  <2>1. PICK S : unread \in [PageTab -> S]
    BY DEF UrlsInv, UnreadTyped
  <2>2. /\ unread' \in [PageTab -> S \union {{}}] /\ unread'[t] = {}
        /\ \A s \in PageTab \ {t} : unread'[s] = unread[s]
    BY <1>1, <2>1
  <2>3. ASSUME NEW s \in PageTab \ again', NEW d \in unread'[s]
        PROVE  d[1] # "delete" /\ (d[1] = "patch" => view[s] = "search") /\ (d[1] = "post" => view[s] # "grid")
    <3>1. s # t /\ d \in unread[s] /\ s \notin again
      BY <1>1, <2>2, <2>3
    <3> QED
      BY <3>1 DEF UrlsInv, Su!OwnShown
  <2> QED
    BY ZenonT(60), <1>1, <2>2, <2>3 DEF UnreadTyped, Su!OwnShown
<1>5. EditsTyped'
  <2>1. AsListed(dialog[t]) /\ dialog' = [dialog EXCEPT ![t] = dialog[t]]
    BY <1>1 DEF UrlsInv, EditsTyped
  <2> QED
    BY <2>1, EditMoves
<1>6. /\ PostsTyped' /\ Adding' = Adding /\ \A w : NamingCalls(w)' = NamingCalls(w)
      /\ Su!Live' = Su!Live /\ \A w : Named(w)' = Named(w)
  BY <1>1, PostsStay, UrlsStay
<1>7. InQuota' /\ InTurn'
  BY <1>6, QuotaKeeps, NamesKeep
<1> QED
  BY <1>3, <1>4, <1>5, <1>6, <1>7 DEF UrlsInv

-----------------------------------------------------------------------------
LEMMA UrlsStep == UrlsInv /\ [Su!Next]_(Su!vars) => UrlsInv'
<1> SUFFICES ASSUME UrlsInv, [Su!Next]_(Su!vars) PROVE UrlsInv'
  OBVIOUS
<1>1. CASE UNCHANGED Su!vars
  <2>1. UNCHANGED <<urls, view, listed, again, dialog, post, unread>>
    BY <1>1 DEF Su!vars
  <2>2. PostsTyped' /\ InQuota' /\ InTurn'
    BY <2>1, PostsStay, UrlsStay, QuotaKeeps, NamesKeep
  <2> QED
    BY <2>1, <2>2, LooksUp
<1>2. CASE Su!Next
  <2>1. PICK t \in PageTab :
          \/ \E v \in Vanity \union {None} : Su!Shorten(t, v)
          \/ \E u \in Url : Su!EditCard(t, u) \/ Su!EditRow(t, u) \/ Su!Delete(t, u) \/ Su!Create(t, u)
          \/ \E f \in Su!Fields : \E v \in Su!Values(f) : Su!Type(t, f, v)
          \/ Su!Close(t) \/ Su!Save(t) \/ Su!Unprotect(t)
          \/ Su!CountUrls(t) \/ Su!FindUrl(t) \/ Su!CheckVanity(t) \/ Su!Update(t) \/ Su!Erase(t)
          \/ Su!Answer(t) \/ Su!Refetch(t)
    BY <1>2 DEF Su!Next
  <2>2. CASE \E v \in Vanity \union {None} : Su!Shorten(t, v)
    BY <2>2, ShortenKeeps
  <2>3. CASE \E u \in Url : Su!EditCard(t, u) \/ Su!EditRow(t, u)
    BY <2>3, OpensKeeps
  <2>4. CASE \E u \in Url : Su!Delete(t, u) \/ Su!Create(t, u)
    BY <2>4, DeleteKeeps, CreateKeeps
  <2>5. CASE \E f \in Su!Fields : \E v \in Su!Values(f) : Su!Type(t, f, v)
    BY <2>5, TypeKeeps
  <2>6. CASE Su!Close(t) \/ Su!Save(t) \/ Su!Unprotect(t)
    BY <2>6, CloseKeeps, SaveKeeps, UnprotectKeeps
  <2>7. CASE Su!CountUrls(t) \/ Su!FindUrl(t) \/ Su!CheckVanity(t) \/ Su!Update(t) \/ Su!Erase(t)
    BY <2>7, CountUrlsKeeps, FindUrlKeeps, CheckVanityKeeps, UpdateKeeps, EraseKeeps
  <2>8. CASE Su!Answer(t) \/ Su!Refetch(t)
    BY <2>8, UrlAnswerKeeps, RefetchKeeps
  <2> QED
    BY <2>1, <2>2, <2>3, <2>4, <2>5, <2>6, <2>7, <2>8
<1> QED
  BY <1>1, <1>2

LEMMA UrlsStart == Su!Init => UrlsInv
<1> SUFFICES ASSUME Su!Init PROVE UrlsInv
  OBVIOUS
<1>1. PICK first : made = {first}
  BY DEF Su!Init
<1>2. /\ urls = [u \in Url |-> IF u \in made THEN Su!Plain ELSE None]
      /\ listed = [t \in PageTab |-> urls] /\ again = {}
      /\ dialog = [t \in PageTab |-> Su!Closed] /\ post = [t \in PageTab |-> Su!Quiet]
      /\ unread = [t \in PageTab |-> {}]
  BY DEF Su!Init
<1>3. UrlsTyped
  <2>1. \A u \in Url : urls[u] = None \/ IsRow(urls[u])
    BY <1>2, RowsAreRows
  <2>2. urls \in [Url -> {Su!Plain, None}] /\ listed \in [PageTab -> {urls}]
    BY <1>2
  <2> QED
    BY <2>1, <2>2 DEF UrlsTyped
<1>4. EditsTyped
  <2>1. AsListed(Su!Closed)
    BY RowsAreRows DEF AsListed, Su!Closed, Su!Plain
  <2>2. dialog \in [PageTab -> {Su!Closed}]
    BY <1>2
  <2> QED
    BY <2>1, <2>2 DEF EditsTyped
<1>5. PostsTyped
  <2>1. post \in [PageTab -> {Su!Quiet}]
    BY <1>2
  <2> QED
    BY <2>1, QuietPosted DEF PostsTyped
<1>6. UnreadTyped /\ Su!OwnShown
  <2>1. unread \in [PageTab -> {{}}]
    BY <1>2
  <2> QED
    BY <2>1 DEF UnreadTyped, Su!OwnShown
<1>7. Adding = {} /\ \A w : NamingCalls(w) = {}
  BY <1>2 DEF Adding, NamingCalls, Su!Quiet
<1>8. InQuota
  <2>1. Su!Live \subseteq {first}
    BY <1>1, <1>2 DEF Su!Live
  <2>2. IsFiniteSet({first}) /\ Cardinality({first}) = 1
    BY FS_Singleton
  <2>3. Cardinality(Su!Live) <= 1
    BY <2>1, <2>2, FS_Subset
  <2> QED
    BY <1>7, <2>3, UrlsFinite, FS_EmptySet DEF InQuota
<1>9. InTurn
  <2>1. ASSUME NEW w \in Vanity PROVE Named(w) = {}
    <3>1. w # None
      BY UrlsFinite
    <3> QED
      BY <1>2, <3>1 DEF Named, Su!Live, Su!Plain
  <2> QED
    BY <1>7, <2>1, UrlsFinite, FS_EmptySet DEF InTurn
<1> QED
  BY <1>3, <1>4, <1>5, <1>6, <1>8, <1>9 DEF UrlsInv

LEMMA UrlsSay == UrlsInv => Su!OwnEdits /\ Su!OwnShown /\ Su!UrlsBounded
<1> SUFFICES ASSUME UrlsInv PROVE Su!OwnEdits /\ Su!OwnShown /\ Su!UrlsBounded
  OBVIOUS
<1>1. Su!OwnEdits
  BY DEF UrlsInv, PostsTyped, Wellposted, PostOf, Su!OwnEdits
<1>2. Su!UrlsBounded
  <2>1. Cardinality(Su!Live) + Cardinality(Adding) <= (MaxUrls - 1) + Cardinality(PageTab)
    BY DEF UrlsInv, InQuota
  <2>2. Cardinality(Su!Live) + 1 <= MaxUrls + Cardinality(PageTab)
    BY <2>1, UrlsFinite
  <2>3. ASSUME NEW w \in Vanity PROVE Cardinality({u \in Su!Live : urls[u].vanity = w}) <= Cardinality(PageTab)
    <3>1. Cardinality(Named(w)) + Cardinality(NamingCalls(w)) <= Cardinality(PageTab)
      BY DEF UrlsInv, InTurn
    <3>2. Cardinality(Named(w)) <= Cardinality(PageTab)
      BY <3>1, UrlsFinite
    <3> QED
      BY <3>2 DEF Named
  <2> QED
    BY <2>2, <2>3, UrlsCounted DEF Su!UrlsBounded
<1> QED
  BY <1>1, <1>2 DEF UrlsInv

(* The dialogs of a file and of a short URL write what is theirs whatever    *)
(* is opened, turned to and loaded in between; a tab that rests shows what   *)
(* it has itself done; and no interleaving of calls passes the quota of      *)
(* URLs, or shares a name, by more than the calls that can be under way at   *)
(* once (EditFileDetailsModal.tsx, EditUrlModal.tsx, api/user/urls).         *)
THEOREM DetailsAreOwn == Fb!Spec /\ Su!Spec => []OwnDetails
<1>1. Fb!Spec => [](Fb!OwnDetails /\ Fb!OwnChangesShown)
  <2>1. BrowserInv /\ [Fb!Next]_(Fb!vars) => BrowserInv'
    BY BrowserStep
  <2> QED
    BY <2>1, BrowserStart, BrowserSays, PTL DEF Fb!Spec
<1>2. Su!Spec => [](Su!OwnEdits /\ Su!OwnShown /\ Su!UrlsBounded)
  BY UrlsStart, UrlsStep, UrlsSay, PTL DEF Su!Spec
<1> QED
  BY <1>1, <1>2, PTL DEF OwnDetails

-----------------------------------------------------------------------------
(* The settings: the credentials of each provider, the fields that a form  *)
(* sends as null when they are blank, and the switches of whole forms.     *)
Groups == {Sv!Discord3, Sv!Google3, Sv!Github3, Sv!Oidc5}

Blankable ==
    {"coreDefaultDomain", "filesDefaultExpiration", "filesMaxExpiration", "filesDisabledTypesDefault",
     "websiteTitleLogo", "websiteLoginBackground", "websiteDefaultAvatar", "websiteTos", "ratelimitWindow",
     "httpWebhookOnUpload", "httpWebhookOnShorten", "discordWebhookUrl", "discordUsername", "discordAvatarUrl",
     "discordOnUploadWebhookUrl", "discordOnUploadUsername", "discordOnUploadAvatarUrl",
     "discordOnUploadContent", "discordOnShortenWebhookUrl", "discordOnShortenUsername",
     "discordOnShortenAvatarUrl", "discordOnShortenContent", "pwaTitle", "pwaShortName", "pwaDescription"}
    \union Sv!OauthTexts

Gates == {"chunksEnabled", "invitesEnabled", "ratelimitEnabled", "pwaEnabled"}

(* What the proofs need to know of a form, and of all but one of them.     *)
FormKnown(f) ==
    f.nulls \subseteq Blankable /\ f.fields \intersect Blankable \subseteq f.nulls /\ f.gate \subseteq Gates
WithoutProviders(f) == f.fields \intersect Sv!OauthTexts = {}

LEMMA PlainForm ==
    ASSUME NEW f
    PROVE  Sv!Plain(f).fields = f /\ Sv!Plain(f).nulls = {} /\ Sv!Plain(f).gate = {}
  BY DEF Sv!Plain

LEMMA GatedRecord ==
    ASSUME NEW f, NEW n, NEW s
    PROVE  /\ Sv!Plain(f) \in [fields : {f}, nulls : {{}, n}, omits : BOOLEAN, gate : {{}, {s}}]
           /\ Sv!Gated(f, s) \in [fields : {f}, nulls : {{}, n}, omits : BOOLEAN, gate : {{}, {s}}]
<1>1. Sv!Plain(f) \in [fields : {f}, nulls : {{}, n}, omits : BOOLEAN, gate : {{}, {s}}]
  BY DEF Sv!Plain
<1> QED BY <1>1 DEF Sv!Gated

LEMMA GatedForm ==
    ASSUME NEW f, NEW s
    PROVE  Sv!Gated(f, s).fields = f /\ Sv!Gated(f, s).nulls = {} /\ Sv!Gated(f, s).gate = {s}
<1>1. Sv!Plain(f) \in [fields : {f}, nulls : {{}}, omits : BOOLEAN, gate : {{}, {s}}]
  BY DEF Sv!Plain
<1> QED BY <1>1 DEF Sv!Gated

LEMMA TurnedForm ==
    ASSUME NEW f, NEW n, NEW s
    PROVE  /\ [Sv!Gated(f, s) EXCEPT !.nulls = n].fields = f
           /\ [Sv!Gated(f, s) EXCEPT !.nulls = n].nulls = n
           /\ [Sv!Gated(f, s) EXCEPT !.nulls = n].gate = {s}
<1>1. Sv!Gated(f, s) \in [fields : {f}, nulls : {{}, n}, omits : BOOLEAN, gate : {{}, {s}}]
  BY GatedRecord
<1>2. Sv!Gated(f, s).gate = {s}
  BY GatedForm
<1> QED BY <1>1, <1>2

LEMMA BlankedForm ==
    ASSUME NEW f, NEW n
    PROVE  /\ Sv!Blanked(f, n) \in [fields : {f}, nulls : {n}, omits : BOOLEAN, gate : {{}}]
           /\ Sv!Blanked(f, n).fields = f /\ Sv!Blanked(f, n).nulls = n /\ Sv!Blanked(f, n).gate = {}
<1>1. /\ Sv!Plain(f) \in [fields : {f}, nulls : {{}, n}, omits : BOOLEAN, gate : {{}}]
      /\ Sv!Plain(f).fields = f /\ Sv!Plain(f).nulls = {}
  BY DEF Sv!Plain
<1> QED
  BY <1>1 DEF Sv!Blanked

LEMMA TrimmedForm ==
    ASSUME NEW f, NEW n
    PROVE  Sv!Trimmed(f, n).fields = f /\ Sv!Trimmed(f, n).nulls = n /\ Sv!Trimmed(f, n).omits /\ Sv!Trimmed(f, n).gate = {}
  BY BlankedForm DEF Sv!Trimmed

LEMMA Texts ==
    Sv!OauthTexts = {"oauthDiscordClientId", "oauthDiscordClientSecret", "oauthGoogleClientId",
        "oauthGoogleClientSecret", "oauthGithubClientId", "oauthGithubClientSecret",
        "oauthOidcClientId", "oauthOidcClientSecret", "oauthOidcAuthorizeUrl", "oauthOidcTokenUrl",
        "oauthOidcUserinfoUrl", "oauthDiscordRedirectUri", "oauthGoogleRedirectUri",
        "oauthGithubRedirectUri", "oauthOidcRedirectUri"}
  BY DEF Sv!OauthTexts, Sv!Discord3, Sv!Google3, Sv!Github3, Sv!Oidc5, Sv!Redirects

LEMMA CoreKnown == FormKnown(Sv!Core) /\ WithoutProviders(Sv!Core)
<1> DEFINE n == {"coreDefaultDomain"}
           f == {"coreReturnHttpsUrls", "coreDefaultDomain", "coreTempDirectory", "coreTrustProxy"}
<1>1. Sv!Core = Sv!Blanked(f, n)
  BY DEF Sv!Core
<1>2. Sv!Core.fields = f /\ Sv!Core.nulls = n /\ Sv!Core.gate = {}
  <2> HIDE DEF f, n
  <2> QED
    BY <1>1, BlankedForm
<1>3. n \subseteq Blankable
  BY Texts DEF Blankable
<1>4. f \intersect Blankable \subseteq n
  BY Texts DEF Blankable
<1>5. f \intersect Sv!OauthTexts = {}
  BY Texts
<1> QED
  BY <1>2, <1>3, <1>4, <1>5 DEF FormKnown, WithoutProviders, Gates

LEMMA ChunksKnown == FormKnown(Sv!Chunks) /\ WithoutProviders(Sv!Chunks)
<1> DEFINE n == {}
           f == {"chunksEnabled", "chunksMax", "chunksSize"}
<1>1. Sv!Chunks = Sv!Gated(f, "chunksEnabled")
  BY DEF Sv!Chunks
<1>2. Sv!Chunks.fields = f /\ Sv!Chunks.nulls = n /\ Sv!Chunks.gate = {"chunksEnabled"}
  <2> HIDE DEF f
  <2> QED
    BY <1>1, GatedForm
<1>3. n \subseteq Blankable
  BY Texts DEF Blankable
<1>4. f \intersect Blankable \subseteq n
  BY Texts DEF Blankable
<1>5. f \intersect Sv!OauthTexts = {}
  BY Texts
<1> QED
  BY <1>2, <1>3, <1>4, <1>5 DEF FormKnown, WithoutProviders, Gates

LEMMA TasksKnown == FormKnown(Sv!Tasks) /\ WithoutProviders(Sv!Tasks)
<1> DEFINE n == {}
           f == {"tasksDeleteInterval", "tasksClearInvitesInterval", "tasksMaxViewsInterval",
                 "tasksThumbnailsInterval", "tasksMetricsInterval", "tasksCleanThumbnailsInterval"}
<1>1. Sv!Tasks = Sv!Plain(f)
  BY DEF Sv!Tasks
<1>2. Sv!Tasks.fields = f /\ Sv!Tasks.nulls = n /\ Sv!Tasks.gate = {}
  <2> HIDE DEF f
  <2> QED
    BY <1>1, PlainForm
<1>3. n \subseteq Blankable
  BY Texts DEF Blankable
<1>4. f \intersect Blankable \subseteq n
  BY Texts DEF Blankable
<1>5. f \intersect Sv!OauthTexts = {}
  BY Texts
<1> QED
  BY <1>2, <1>3, <1>4, <1>5 DEF FormKnown, WithoutProviders, Gates

LEMMA FilesKnown == FormKnown(Sv!Files) /\ WithoutProviders(Sv!Files)
<1> DEFINE n == {"filesDefaultExpiration", "filesMaxExpiration", "filesDisabledTypesDefault"}
           f == {"filesRoute", "filesLength", "filesDefaultFormat", "filesDisabledTypes",
                 "filesDisabledTypesDefault", "filesDisabledExtensions", "filesMaxFileSize",
                 "filesDefaultExpiration", "filesMaxExpiration", "filesAssumeMimetypes",
                 "filesDefaultDateFormat", "filesRemoveGpsMetadata",
                 "filesRandomWordsNumAdjectives", "filesRandomWordsSeparator",
                 "filesDefaultCompressionFormat", "filesMaxFilesPerUpload",
                 "filesExtensionlessUrls"}
<1>1. Sv!Files = Sv!Blanked(f, n)
  BY DEF Sv!Files
<1>2. Sv!Files.fields = f /\ Sv!Files.nulls = n /\ Sv!Files.gate = {}
  <2> HIDE DEF f, n
  <2> QED
    BY <1>1, BlankedForm
<1>3. n \subseteq Blankable
  BY Texts DEF Blankable
<1>4. f \intersect Blankable \subseteq n
  BY Texts DEF Blankable
<1>5. f \intersect Sv!OauthTexts = {}
  BY Texts
<1> QED
  BY <1>2, <1>3, <1>4, <1>5 DEF FormKnown, WithoutProviders, Gates

LEMMA UrlsKnown == FormKnown(Sv!Urls) /\ WithoutProviders(Sv!Urls)
<1> DEFINE n == {}
           f == {"urlsRoute", "urlsLength"}
<1>1. Sv!Urls = Sv!Plain(f)
  BY DEF Sv!Urls
<1>2. Sv!Urls.fields = f /\ Sv!Urls.nulls = n /\ Sv!Urls.gate = {}
  <2> HIDE DEF f
  <2> QED
    BY <1>1, PlainForm
<1>3. n \subseteq Blankable
  BY Texts DEF Blankable
<1>4. f \intersect Blankable \subseteq n
  BY Texts DEF Blankable
<1>5. f \intersect Sv!OauthTexts = {}
  BY Texts
<1> QED
  BY <1>2, <1>3, <1>4, <1>5 DEF FormKnown, WithoutProviders, Gates

LEMMA FeaturesKnown == FormKnown(Sv!Features) /\ WithoutProviders(Sv!Features)
<1> DEFINE n == {}
           f == {"featuresImageCompression", "featuresRobotsTxt", "featuresHealthcheck",
                 "featuresUserRegistration", "featuresOauthRegistration",
                 "featuresDeleteOnMaxViews", "featuresThumbnailsEnabled",
                 "featuresThumbnailsNumberThreads", "featuresThumbnailsFormat",
                 "featuresThumbnailsInstantaneous", "featuresMetricsEnabled",
                 "featuresMetricsAdminOnly", "featuresMetricsShowUserSpecific",
                 "featuresVersionChecking", "featuresVersionAPI"}
<1>1. Sv!Features = Sv!Plain(f)
  BY DEF Sv!Features
<1>2. Sv!Features.fields = f /\ Sv!Features.nulls = n /\ Sv!Features.gate = {}
  <2> HIDE DEF f
  <2> QED
    BY <1>1, PlainForm
<1>3. n \subseteq Blankable
  BY Texts DEF Blankable
<1>4. f \intersect Blankable \subseteq n
  BY Texts DEF Blankable
<1>5. f \intersect Sv!OauthTexts = {}
  BY Texts
<1> QED
  BY <1>2, <1>3, <1>4, <1>5 DEF FormKnown, WithoutProviders, Gates

LEMMA InvitesKnown == FormKnown(Sv!Invites) /\ WithoutProviders(Sv!Invites)
<1> DEFINE n == {}
           f == {"invitesEnabled", "invitesLength"}
<1>1. Sv!Invites = Sv!Gated(f, "invitesEnabled")
  BY DEF Sv!Invites
<1>2. Sv!Invites.fields = f /\ Sv!Invites.nulls = n /\ Sv!Invites.gate = {"invitesEnabled"}
  <2> HIDE DEF f
  <2> QED
    BY <1>1, GatedForm
<1>3. n \subseteq Blankable
  BY Texts DEF Blankable
<1>4. f \intersect Blankable \subseteq n
  BY Texts DEF Blankable
<1>5. f \intersect Sv!OauthTexts = {}
  BY Texts
<1> QED
  BY <1>2, <1>3, <1>4, <1>5 DEF FormKnown, WithoutProviders, Gates

LEMMA WebsiteKnown == FormKnown(Sv!Website) /\ WithoutProviders(Sv!Website)
<1> DEFINE n == {"websiteTitleLogo", "websiteLoginBackground", "websiteDefaultAvatar", "websiteTos"}
           f == {"websiteTitle", "websiteTitleLogo", "websiteExternalLinks",
                 "websiteLoginBackground", "websiteLoginBackgroundBlur", "websiteDefaultAvatar",
                 "websiteTos", "websiteThemeDefault", "websiteThemeDark", "websiteThemeLight"}
<1>1. Sv!Website = Sv!Blanked(f, n)
  BY DEF Sv!Website
<1>2. Sv!Website.fields = f /\ Sv!Website.nulls = n /\ Sv!Website.gate = {}
  <2> HIDE DEF f, n
  <2> QED
    BY <1>1, BlankedForm
<1>3. n \subseteq Blankable
  BY Texts DEF Blankable
<1>4. f \intersect Blankable \subseteq n
  BY Texts DEF Blankable
<1>5. f \intersect Sv!OauthTexts = {}
  BY Texts
<1> QED
  BY <1>2, <1>3, <1>4, <1>5 DEF FormKnown, WithoutProviders, Gates

LEMMA MfaKnown == FormKnown(Sv!Mfa) /\ WithoutProviders(Sv!Mfa)
<1> DEFINE n == {}
           f == {"mfaTotpEnabled", "mfaTotpIssuer", "mfaPasskeysEnabled", "mfaPasskeysRpID",
                 "mfaPasskeysOrigin"}
<1>1. Sv!Mfa = Sv!Plain(f)
  BY DEF Sv!Mfa
<1>2. Sv!Mfa.fields = f /\ Sv!Mfa.nulls = n /\ Sv!Mfa.gate = {}
  <2> HIDE DEF f
  <2> QED
    BY <1>1, PlainForm
<1>3. n \subseteq Blankable
  BY Texts DEF Blankable
<1>4. f \intersect Blankable \subseteq n
  BY Texts DEF Blankable
<1>5. f \intersect Sv!OauthTexts = {}
  BY Texts
<1> QED
  BY <1>2, <1>3, <1>4, <1>5 DEF FormKnown, WithoutProviders, Gates

LEMMA RatelimitKnown == FormKnown(Sv!Ratelimit) /\ WithoutProviders(Sv!Ratelimit)
<1> DEFINE n == {"ratelimitWindow"}
           f == {"ratelimitEnabled", "ratelimitMax", "ratelimitWindow", "ratelimitAdminBypass",
                 "ratelimitAllowList"}
<1>1. Sv!Ratelimit = [Sv!Gated(f, "ratelimitEnabled") EXCEPT !.nulls = n]
  BY DEF Sv!Ratelimit
<1>2. Sv!Ratelimit.fields = f /\ Sv!Ratelimit.nulls = n /\ Sv!Ratelimit.gate = {"ratelimitEnabled"}
  <2> HIDE DEF f, n
  <2> QED
    BY <1>1, TurnedForm
<1>3. n \subseteq Blankable
  BY Texts DEF Blankable
<1>4. f \intersect Blankable \subseteq n
  BY Texts DEF Blankable
<1>5. f \intersect Sv!OauthTexts = {}
  BY Texts
<1> QED
  BY <1>2, <1>3, <1>4, <1>5 DEF FormKnown, WithoutProviders, Gates

LEMMA HttpWebhookKnown == FormKnown(Sv!HttpWebhook) /\ WithoutProviders(Sv!HttpWebhook)
<1> DEFINE n == {"httpWebhookOnUpload", "httpWebhookOnShorten"}
           f == n
<1>1. Sv!HttpWebhook = Sv!Trimmed(f, n)
  BY DEF Sv!HttpWebhook
<1>2. Sv!HttpWebhook.fields = f /\ Sv!HttpWebhook.nulls = n /\ Sv!HttpWebhook.gate = {}
  <2> HIDE DEF f, n
  <2> QED
    BY <1>1, TrimmedForm
<1>3. n \subseteq Blankable
  BY Texts DEF Blankable
<1>4. f \intersect Blankable \subseteq n
  BY Texts DEF Blankable
<1>5. f \intersect Sv!OauthTexts = {}
  BY Texts
<1> QED
  BY <1>2, <1>3, <1>4, <1>5 DEF FormKnown, WithoutProviders, Gates

LEMMA DiscordMainKnown == FormKnown(Sv!DiscordMain) /\ WithoutProviders(Sv!DiscordMain)
<1> DEFINE n == {"discordWebhookUrl", "discordUsername", "discordAvatarUrl"}
           f == n
<1>1. Sv!DiscordMain = Sv!Trimmed(f, n)
  BY DEF Sv!DiscordMain
<1>2. Sv!DiscordMain.fields = f /\ Sv!DiscordMain.nulls = n /\ Sv!DiscordMain.gate = {}
  <2> HIDE DEF f, n
  <2> QED
    BY <1>1, TrimmedForm
<1>3. n \subseteq Blankable
  BY Texts DEF Blankable
<1>4. f \intersect Blankable \subseteq n
  BY Texts DEF Blankable
<1>5. f \intersect Sv!OauthTexts = {}
  BY Texts
<1> QED
  BY <1>2, <1>3, <1>4, <1>5 DEF FormKnown, WithoutProviders, Gates

LEMMA DiscordOnUploadKnown == FormKnown(Sv!DiscordOnUpload) /\ WithoutProviders(Sv!DiscordOnUpload)
<1> DEFINE n == {"discordOnUploadWebhookUrl", "discordOnUploadUsername", "discordOnUploadAvatarUrl",
                 "discordOnUploadContent"}
           f == n \union {"discordOnUploadEmbed"}
<1>1. Sv!DiscordOnUpload = Sv!Trimmed(f, n)
  BY DEF Sv!DiscordOnUpload
<1>2. Sv!DiscordOnUpload.fields = f /\ Sv!DiscordOnUpload.nulls = n /\ Sv!DiscordOnUpload.gate = {}
  <2> HIDE DEF f, n
  <2> QED
    BY <1>1, TrimmedForm
<1>3. n \subseteq Blankable
  BY Texts DEF Blankable
<1>4. f \intersect Blankable \subseteq n
  BY Texts DEF Blankable
<1>5. f \intersect Sv!OauthTexts = {}
  BY Texts
<1> QED
  BY <1>2, <1>3, <1>4, <1>5 DEF FormKnown, WithoutProviders, Gates

LEMMA DiscordOnShortenKnown == FormKnown(Sv!DiscordOnShorten) /\ WithoutProviders(Sv!DiscordOnShorten)
<1> DEFINE n == {"discordOnShortenWebhookUrl", "discordOnShortenUsername",
                 "discordOnShortenAvatarUrl", "discordOnShortenContent"}
           f == n \union {"discordOnShortenEmbed"}
<1>1. Sv!DiscordOnShorten = Sv!Trimmed(f, n)
  BY DEF Sv!DiscordOnShorten
<1>2. Sv!DiscordOnShorten.fields = f /\ Sv!DiscordOnShorten.nulls = n /\ Sv!DiscordOnShorten.gate = {}
  <2> HIDE DEF f, n
  <2> QED
    BY <1>1, TrimmedForm
<1>3. n \subseteq Blankable
  BY Texts DEF Blankable
<1>4. f \intersect Blankable \subseteq n
  BY Texts DEF Blankable
<1>5. f \intersect Sv!OauthTexts = {}
  BY Texts
<1> QED
  BY <1>2, <1>3, <1>4, <1>5 DEF FormKnown, WithoutProviders, Gates

LEMMA PWAKnown == FormKnown(Sv!PWA) /\ WithoutProviders(Sv!PWA)
<1> DEFINE n == {"pwaTitle", "pwaShortName", "pwaDescription"}
           f == n \union {"pwaEnabled", "pwaThemeColor", "pwaBackgroundColor"}
<1>1. Sv!PWA = [Sv!Gated(f, "pwaEnabled") EXCEPT !.nulls = n]
  BY DEF Sv!PWA
<1>2. Sv!PWA.fields = f /\ Sv!PWA.nulls = n /\ Sv!PWA.gate = {"pwaEnabled"}
  <2> HIDE DEF f, n
  <2> QED
    BY <1>1, TurnedForm
<1>3. n \subseteq Blankable
  BY Texts DEF Blankable
<1>4. f \intersect Blankable \subseteq n
  BY Texts DEF Blankable
<1>5. f \intersect Sv!OauthTexts = {}
  BY Texts
<1> QED
  BY <1>2, <1>3, <1>4, <1>5 DEF FormKnown, WithoutProviders, Gates

LEMMA DomainsKnown == FormKnown(Sv!Domains) /\ WithoutProviders(Sv!Domains)
<1> DEFINE n == {}
           f == {"domains"}
<1>1. Sv!Domains = Sv!Plain(f)
  BY DEF Sv!Domains
<1>2. Sv!Domains.fields = f /\ Sv!Domains.nulls = n /\ Sv!Domains.gate = {}
  <2> HIDE DEF f
  <2> QED
    BY <1>1, PlainForm
<1>3. n \subseteq Blankable
  BY Texts DEF Blankable
<1>4. f \intersect Blankable \subseteq n
  BY Texts DEF Blankable
<1>5. f \intersect Sv!OauthTexts = {}
  BY Texts
<1> QED
  BY <1>2, <1>3, <1>4, <1>5 DEF FormKnown, WithoutProviders, Gates

LEMMA OauthKnown ==
    /\ FormKnown(Sv!Oauth) /\ Sv!Oauth.nulls = Sv!OauthTexts /\ Sv!Oauth.omits
    /\ Sv!OauthTexts \subseteq Sv!Oauth.fields
<1> DEFINE f == {"oauthBypassLocalLogin", "oauthLoginOnly", "oauthDiscordAllowedIds",
                 "oauthDiscordDeniedIds"} \union Sv!OauthTexts
<1>1. /\ Sv!Oauth.fields = f /\ Sv!Oauth.nulls = Sv!OauthTexts /\ Sv!Oauth.omits /\ Sv!Oauth.gate = {}
  <2>1. Sv!Oauth = Sv!Trimmed(f, Sv!OauthTexts)
    BY DEF Sv!Oauth
  <2> HIDE DEF f
  <2> QED
    BY <2>1, TrimmedForm
<1>2. Sv!OauthTexts \subseteq Blankable
  BY DEF Blankable
<1>3. f \intersect Blankable \subseteq Sv!OauthTexts
  BY DEF Blankable
<1> QED
  BY <1>1, <1>2, <1>3 DEF FormKnown, Gates

LEMMA FormsKnown ==
    ASSUME NEW p \in Sv!Part
    PROVE  FormKnown(Sv!Form[p]) /\ (p # "oauth" => WithoutProviders(Sv!Form[p]))
<1>1. Sv!Part = {"core", "chunks", "tasks", "files", "urls", "features", "invites", "website",
                 "oauth", "mfa", "ratelimit", "httpWebhook", "discordMain", "discordOnUpload", "discordOnShorten", "pwa", "domains"}
  BY DEF Sv!Part, Sv!Form
<1>2. Sv!Form["core"] = Sv!Core
  BY DEF Sv!Form
<1>3. Sv!Form["chunks"] = Sv!Chunks
  BY DEF Sv!Form
<1>4. Sv!Form["tasks"] = Sv!Tasks
  BY DEF Sv!Form
<1>5. Sv!Form["files"] = Sv!Files
  BY DEF Sv!Form
<1>6. Sv!Form["urls"] = Sv!Urls
  BY DEF Sv!Form
<1>7. Sv!Form["features"] = Sv!Features
  BY DEF Sv!Form
<1>8. Sv!Form["invites"] = Sv!Invites
  BY DEF Sv!Form
<1>9. Sv!Form["website"] = Sv!Website
  BY DEF Sv!Form
<1>10. Sv!Form["mfa"] = Sv!Mfa
  BY DEF Sv!Form
<1>11. Sv!Form["ratelimit"] = Sv!Ratelimit
  BY DEF Sv!Form
<1>12. Sv!Form["httpWebhook"] = Sv!HttpWebhook
  BY DEF Sv!Form
<1>13. Sv!Form["discordMain"] = Sv!DiscordMain
  BY DEF Sv!Form
<1>14. Sv!Form["discordOnUpload"] = Sv!DiscordOnUpload
  BY DEF Sv!Form
<1>15. Sv!Form["discordOnShorten"] = Sv!DiscordOnShorten
  BY DEF Sv!Form
<1>16. Sv!Form["pwa"] = Sv!PWA
  BY DEF Sv!Form
<1>17. Sv!Form["domains"] = Sv!Domains
  BY DEF Sv!Form
<1>18. Sv!Form["oauth"] = Sv!Oauth
  BY DEF Sv!Form
<1> QED
  BY <1>1, <1>2, <1>3, <1>4, <1>5, <1>6, <1>7, <1>8, <1>9, <1>10, <1>11, <1>12, <1>13, <1>14, <1>15, <1>16, <1>17, <1>18,
     CoreKnown, ChunksKnown, TasksKnown, FilesKnown, UrlsKnown, FeaturesKnown, InvitesKnown, WebsiteKnown, MfaKnown, RatelimitKnown, HttpWebhookKnown, DiscordMainKnown, DiscordOnUploadKnown, DiscordOnShortenKnown, PWAKnown, DomainsKnown, OauthKnown


(* The texts of the providers are settings and no switches.                *)
LEMMA Gateless == \A k \in Sv!OauthTexts : k \in Sv!Setting /\ k \notin Sv!Switch
<1>1. "oauth" \in Sv!Part /\ Sv!Form["oauth"] = Sv!Oauth
  BY DEF Sv!Part, Sv!Form
<1>2. Sv!OauthTexts \subseteq Sv!Setting
  BY <1>1, OauthKnown DEF Sv!Setting
<1>3. \A p \in Sv!Part : Sv!Form[p].gate \subseteq Gates
  BY FormsKnown DEF FormKnown
<1>4. Sv!Switch \subseteq Gates \union {"mfaPasskeysEnabled"}
  <2>1. \A k \in Sv!Switch : k = "mfaPasskeysEnabled" \/ \E p \in Sv!Part : k \in Sv!Form[p].gate
    BY DEF Sv!Switch
  <2> QED BY <1>3, <2>1
<1>5. Sv!OauthTexts \intersect (Gates \union {"mfaPasskeysEnabled"}) = {}
  BY Texts DEF Gates
<1> QED BY <1>2, <1>4, <1>5

(* What can be in the row, and in a form.                                  *)
Values == {"old", "new", "null", "empty", "on", "off", "odd"}

(* The settings whose value may have its type and no meaning.              *)
Fatal == {"websiteExternalLinks", "discordOnUploadEmbed", "discordOnShortenEmbed", "ratelimitWindow"}

(* One of them has such a value, and the environment does not hide it.     *)
OddRow == \E k \in Fatal \ FromEnv : stored[k] = "odd"

(* The settings of which a PATCH turns a blank into null.                  *)
Rewritten == {"websiteDefaultAvatar", "mfaPasskeysRpID", "mfaPasskeysOrigin"}

Fields(p) == Sv!Form[p].fields
Own(t) == UNION {Fields(p) : p \in Openable[t]}

(* A row in which nothing is blank that is null when blank, no provider    *)
(* has a redirect URI, and each has all of its credentials or none.        *)
SoundRow ==
    /\ stored \in [Sv!Setting -> Values]
    /\ \A k \in Sv!Setting : stored[k] = "empty" => k \notin Blankable \union Rewritten
    /\ \A k \in Sv!Setting : stored[k] = "odd" => k \in Fatal
    /\ \A k \in Sv!Redirects : stored[k] = "null"
    /\ \A g \in Groups : (\A k \in g : stored[k] = "null") \/ (\A k \in g : stored[k] # "null")

(* A copy of the row that is up to date where t works.                     *)
Agrees(t, r) == \A k \in Own(t) : r[k] = stored[k]

(* A form in which nothing differs from the row but what was entered.      *)
FormSound(t, w) ==
    /\ w.part \in Openable[t] /\ w.values \in [Fields(w.part) -> Values]
    /\ w.entered \subseteq Fields(w.part) \ Sv!Redirects
    /\ \A k \in Fields(w.part) : IF k \in w.entered THEN w.values[k] # "null" ELSE w.values[k] = stored[k]

TabShape(w) ==
    \/ w = Sv!Closed
    \/ w = Sv!Showing(w.part, w.values, w.entered)
    \/ w = [at |-> "saved", row |-> w.row]
    \/ w = [at |-> "read", row |-> w.row, config |-> w.config]

(* What t saved without a meaning is about to end the server, or has.      *)
Condemned(t) == \/ tab[t].at = "saved" \/ ~up
                \/ tab[t].at = "read" /\ ~Sv!Valid(tab[t].config)

(* A tab whose form may still be saved has what is stored, as has its copy *)
(* unless a save of its was cut off by a crash; what it waits for after a  *)
(* save is what it saved; and what was read back can be served with unless *)
(* the row is refused.                                                     *)
SoundTab(t) ==
    /\ TabShape(tab[t])
    /\ tab[t].at = "form" => FormSound(t, tab[t]) /\ saves[t] < MostSaves[t]
    /\ tab[t].at \in {"saved", "read"} => Agrees(t, tab[t].row) /\ saves[t] # 0
    /\ tab[t].at = "read" => Sv!Valid(tab[t].config) \/ OddRow
    /\ \A k \in Own(t) \intersect (Fatal \ FromEnv) : stored[k] = "odd" => Condemned(t)
    /\ tab[t].at \in {"closed", "form"} /\ (instance = "tabs" \/ saves[t] = 0) => Agrees(t, cache[t])

(* The tabs at work.                                                       *)
Works(t) == (instance = "tabs" /\ t \in {left, right}) \/ (instance = "parts" /\ t = any)

(* The server runs with the row, or is about to.                           *)
Runs ==
    /\ up /\ tab[any].at \in {"closed", "form"} => live = Sv!Effective(stored)
    /\ tab[any].at = "read" => tab[any].config = Sv!Effective(stored)

SettingsTyped ==
    /\ \E S : tab \in [Tab -> S]
    /\ \E S : cache \in [Tab -> S]
    /\ \E S : asked \in [Sv!Setting -> S]
    /\ saves \in [Tab -> Nat]

(* A server that two tabs ended does not start again.                      *)
Down == instance = "tabs" /\ ~up

PagesSound ==
    /\ SettingsTyped
    /\ IF Down THEN OddRow ELSE \A t \in Tab : IF Works(t) THEN SoundTab(t) ELSE tab[t] = Sv!Closed
    /\ instance = "tabs" => Sv!EditsStand
    /\ instance = "parts" => Runs

SettingsInv == SoundRow /\ (instance \in {"tabs", "parts"} => PagesSound)

(* The two tabs have parts of their own; the third saves once, so that     *)
(* what it holds after a crash is never sent; in a form one enters values, *)
(* with a meaning or without, blanks, and no redirect URI; and the environment gives a provider       *)
(* everything or nothing.                                                  *)
EnvWhole(g, r) == g \subseteq FromEnv \/ (g \union {r}) \intersect FromEnv = {}

PartsApart ==
    /\ {left, right, any} \subseteq Tab
    /\ \A t \in Tab : Openable[t] \subseteq Sv!Part
    /\ Own(left) \intersect Own(right) = {}
    /\ \A t \in Tab : \A e \in Enters[t] :
         e[1] \in Sv!Setting \ Sv!Redirects /\ e[2] \in Values \ {"null"}
    /\ MostSaves \in [Tab -> Nat] /\ MostSaves[any] <= 1
    /\ EnvWhole(Sv!Discord3, "oauthDiscordRedirectUri")
    /\ EnvWhole(Sv!Google3, "oauthGoogleRedirectUri")
    /\ EnvWhole(Sv!Github3, "oauthGithubRedirectUri")
    /\ EnvWhole(Sv!Oidc5, "oauthOidcRedirectUri")

LEMMA GroupsOfTexts ==
    /\ \A g \in Groups : g \subseteq Sv!OauthTexts /\ g \intersect Sv!Redirects = {}
    /\ Sv!Redirects \subseteq Sv!OauthTexts /\ Sv!OauthTexts \subseteq Blankable
    /\ (Rewritten \union Fatal) \intersect Sv!OauthTexts = {}
<1>1. (Rewritten \union Fatal) \intersect Sv!OauthTexts = {}
  BY Texts DEF Rewritten, Fatal
<1>2. /\ Sv!Discord3 \intersect Sv!Redirects = {} /\ Sv!Google3 \intersect Sv!Redirects = {}
      /\ Sv!Github3 \intersect Sv!Redirects = {} /\ Sv!Oidc5 \intersect Sv!Redirects = {}
  BY DEF Sv!Discord3, Sv!Google3, Sv!Github3, Sv!Oidc5, Sv!Redirects
<1> QED
  BY <1>1, <1>2 DEF Groups, Sv!OauthTexts, Blankable

(* A sound row can be started with.                                        *)
LEMMA ProviderKept ==
    ASSUME SoundRow, NEW g \in Groups, NEW r \in Sv!Redirects, EnvWhole(g, r)
    PROVE  Sv!ProviderValid(Sv!Effective(stored), g, r)
<1>1. \A k \in g \union {r} : k \in Sv!Setting
  BY GroupsOfTexts, Gateless
<1>2. \A k \in g \union {r} :
        /\ k \in FromEnv => Sv!Effective(stored)[k] = "env"
        /\ k \notin FromEnv => Sv!Effective(stored)[k] = stored[k]
  BY <1>1 DEF Sv!Effective
<1>3. CASE g \subseteq FromEnv
  BY <1>2, <1>3 DEF Sv!ProviderValid
<1>4. CASE (g \union {r}) \intersect FromEnv = {}
  <2>1. \A k \in g \union {r} : Sv!Effective(stored)[k] = stored[k]
    BY <1>2, <1>4
  <2> QED BY <2>1 DEF SoundRow, Sv!ProviderValid
<1> QED BY <1>3, <1>4 DEF EnvWhole

LEMMA KnownSettings ==
    /\ {"websiteTos"} \union Fatal \subseteq Sv!Setting
    /\ "websiteTos" \in Blankable
<1>1. /\ Sv!Form["website"] = Sv!Website /\ Sv!Form["ratelimit"] = Sv!Ratelimit
      /\ Sv!Form["discordOnUpload"] = Sv!DiscordOnUpload /\ Sv!Form["discordOnShorten"] = Sv!DiscordOnShorten
      /\ {"website", "ratelimit", "discordOnUpload", "discordOnShorten"} \subseteq Sv!Part
  BY DEF Sv!Form, Sv!Part
<1>2. {"websiteTos", "websiteExternalLinks"} \subseteq Sv!Website.fields
  BY BlankedForm DEF Sv!Website
<1>3. "ratelimitWindow" \in Sv!Ratelimit.fields
  BY TurnedForm DEF Sv!Ratelimit
<1>4. "discordOnUploadEmbed" \in Sv!DiscordOnUpload.fields
  BY TrimmedForm DEF Sv!DiscordOnUpload
<1>5. "discordOnShortenEmbed" \in Sv!DiscordOnShorten.fields
  BY TrimmedForm DEF Sv!DiscordOnShorten
<1>6. "websiteTos" \in Blankable
  BY DEF Blankable
<1> QED BY <1>1, <1>2, <1>3, <1>4, <1>5, <1>6 DEF Sv!Setting, Fatal

(* Nothing else takes such a value, and no configuration may have it.      *)
LEMMA OddTaken == ASSUME NEW k, Sv!Takes(k, "odd") PROVE k \in Fatal
<1>1. /\ Sv!SiteSchema["odd"] = {"websiteExternalLinks"}
      /\ Sv!AccessSchema["odd"] = {"ratelimitWindow", "discordOnUploadEmbed", "discordOnShortenEmbed"}
  BY DEF Sv!SiteSchema, Sv!AccessSchema
<1>2. k \in Sv!SiteSchema["odd"] \union Sv!AccessSchema["odd"]
  BY DEF Sv!Takes
<1> QED BY <1>1, <1>2 DEF Fatal

LEMMA OddRefused == ASSUME NEW c, NEW k \in Fatal, c[k] = "odd" PROVE ~Sv!Valid(c)
  BY DEF Fatal, Sv!Valid, Sv!WebsiteValid, Sv!EmbedsValid, Sv!WindowValid

LEMMA RowRefused == ASSUME OddRow PROVE ~Sv!Valid(Sv!Effective(stored))
<1>1. PICK k \in Fatal \ FromEnv : stored[k] = "odd"
  BY DEF OddRow
<1>2. Sv!Effective(stored)[k] = "odd"
  BY <1>1, KnownSettings DEF Sv!Effective
<1> QED BY <1>1, <1>2, OddRefused

LEMMA RowStarts ==
    ASSUME PartsApart, SoundRow, ~OddRow PROVE Sv!KeepsStarting
<1>1. Sv!ProvidersValid(Sv!Effective(stored))
  <2>1. {Sv!Discord3, Sv!Google3, Sv!Github3, Sv!Oidc5} \subseteq Groups
    BY DEF Groups
  <2>2. {"oauthDiscordRedirectUri", "oauthGoogleRedirectUri", "oauthGithubRedirectUri",
         "oauthOidcRedirectUri"} \subseteq Sv!Redirects
    BY DEF Sv!Redirects
  <2> QED BY <2>1, <2>2, ProviderKept DEF PartsApart, Sv!ProvidersValid
<1>2. \A k \in Sv!Setting : Sv!Effective(stored)[k] = "env" \/ Sv!Effective(stored)[k] = stored[k]
  BY DEF Sv!Effective
<1>3. \A k \in Fatal : Sv!Effective(stored)[k] # "odd"
  BY KnownSettings DEF OddRow, Sv!Effective
<1>4. Sv!Effective(stored)["websiteTos"] # "empty"
  BY <1>2, KnownSettings DEF SoundRow
<1>5. /\ Sv!WebsiteValid(Sv!Effective(stored)) /\ Sv!EmbedsValid(Sv!Effective(stored))
      /\ Sv!WindowValid(Sv!Effective(stored))
  BY <1>3, <1>4 DEF Fatal, Sv!WebsiteValid, Sv!EmbedsValid, Sv!WindowValid
<1> QED BY <1>1, <1>5 DEF Sv!KeepsStarting, Sv!Valid

-----------------------------------------------------------------------------
(* What a form sends.                                                      *)
LEMMA SentIs ==
    ASSUME NEW t
    PROVE  /\ DOMAIN Sv!Sent(t) \subseteq Fields(tab[t].part)
           /\ \A k \in DOMAIN Sv!Sent(t) : Sv!Sent(t)[k] =
                IF tab[t].values[k] = "empty" /\ k \in Sv!Form[tab[t].part].nulls THEN "null"
                ELSE tab[t].values[k]
           /\ \A k \in Fields(tab[t].part) \ DOMAIN Sv!Sent(t) : tab[t].values[k] = "null"
  BY DEF Sv!Sent, Fields

(* What was not entered is sent as it is stored; what is written is sound. *)
LEMMA SavedIs ==
    ASSUME PartsApart, SoundRow, NEW t \in Tab, FormSound(t, tab[t])
    PROVE  /\ Sv!Saved(Sv!Sent(t)) \in [Sv!Setting -> Values]
           /\ \A k \in Sv!Setting \ tab[t].entered : Sv!Saved(Sv!Sent(t))[k] = stored[k]
           /\ \A k \in Sv!Setting : Sv!Saved(Sv!Sent(t))[k] = "empty" => k \notin Blankable \union Rewritten
<1> DEFINE w == tab[t]
           f == Fields(w.part)
           body == Sv!Sent(t)
           written == Sv!Saved(body)
<1>1. /\ f \subseteq Sv!Setting /\ Sv!Form[w.part].nulls \subseteq Blankable
      /\ f \intersect Blankable \subseteq Sv!Form[w.part].nulls
  BY FormsKnown DEF PartsApart, FormSound, FormKnown, Fields, Sv!Setting
<1>2. \A k \in Sv!Setting :
        written[k] = IF k \in DOMAIN body THEN Sv!Transformed(k, body[k]) ELSE stored[k]
  BY DEF Sv!Saved
<1>3. written = [k \in Sv!Setting |-> written[k]]
  BY DEF Sv!Saved
<1>4. \A k \in DOMAIN body :
        /\ k \in f /\ body[k] \in Values
        /\ body[k] = "empty" => k \notin Blankable
        /\ k \notin w.entered => body[k] = stored[k]
  BY <1>1, SentIs DEF FormSound, SoundRow, Values
<1>5. \A k \in DOMAIN body :
        /\ written[k] \in Values
        /\ written[k] = "empty" => k \notin Blankable \union Rewritten
        /\ k \notin w.entered => written[k] = stored[k]
  BY <1>1, <1>2, <1>4 DEF Sv!Transformed, Rewritten, SoundRow, Values
<1> HIDE DEF written, body, f, w
<1>6. \A k \in Sv!Setting : written[k] \in Values
  BY <1>2, <1>5 DEF SoundRow
<1>7. written \in [Sv!Setting -> Values]
  BY <1>3, <1>6
<1>8. \A k \in Sv!Setting \ w.entered : written[k] = stored[k]
  BY <1>2, <1>5
<1>9. \A k \in Sv!Setting : written[k] = "empty" => k \notin Blankable \union Rewritten
  BY <1>2, <1>5 DEF SoundRow
<1> QED BY <1>7, <1>8, <1>9 DEF written, body, w

LEMMA TextsOfOauth ==
    ASSUME NEW p \in Sv!Part, p # "oauth" PROVE Fields(p) \intersect Sv!OauthTexts = {}
  BY FormsKnown DEF WithoutProviders, Fields

(* A provider has all of its credentials or none after a save too: if one  *)
(* is sent, all are; and if none is, those that were there were blanked.   *)
LEMMA GroupSent ==
    ASSUME PartsApart, SoundRow, NEW t \in Tab, FormSound(t, tab[t]), Sv!Accepted(Sv!Sent(t)),
           NEW g \in Groups
    PROVE  \/ \A k \in g : Sv!Saved(Sv!Sent(t))[k] = "null"
           \/ \A k \in g : Sv!Saved(Sv!Sent(t))[k] # "null"
<1> DEFINE w == tab[t]
           body == Sv!Sent(t)
           written == Sv!Saved(body)
<1>1. \A k \in g : /\ k \in Sv!Setting /\ k \in Sv!OauthTexts /\ k \in Blankable
                  /\ k \notin Rewritten /\ k \notin Fatal /\ k \notin Sv!Switch
  BY GroupsOfTexts, Gateless
<1>2. w.part \in Sv!Part /\ w.entered \subseteq Fields(w.part)
  BY DEF PartsApart, FormSound
<1>3. CASE w.part # "oauth"
  <2>1. \A k \in g : k \notin w.entered
    BY <1>1, <1>2, <1>3, TextsOfOauth
  <2>2. \A k \in g : written[k] = stored[k]
    BY <1>1, <2>1, SavedIs
  <2> QED BY <2>2 DEF SoundRow
<1>4. CASE w.part = "oauth"
  <2>1. Sv!Form["oauth"] = Sv!Oauth
    BY DEF Sv!Form
  <2>2. \A k \in g : k \in Fields(w.part) /\ k \in Sv!Form[w.part].nulls
    BY <1>1, <1>4, <2>1, OauthKnown DEF Fields
  <2>3. \A k \in g : w.values[k] \in Values
    BY <2>2 DEF FormSound
  <2>4. \A k \in g : k \in DOMAIN body => body[k] # "empty" /\ body[k] \in Values /\ Sv!Takes(k, body[k])
    BY <2>2, <2>3, SentIs DEF Sv!Accepted, Values
  <2>5. \A k \in g : k \in DOMAIN body => body[k] \in {"old", "new", "null"}
    <3>1. \A k \in g : k \in DOMAIN body => body[k] # "odd"
      BY <1>1, <2>4, OddTaken
    <3> QED BY <1>1, <2>4, <3>1 DEF Sv!Takes, Values
  <2>6. \A k \in g : k \in DOMAIN body => Sv!Transformed(k, body[k]) = body[k]
    BY <1>1 DEF Sv!Transformed, Rewritten
  <2>7. \A k \in g : Sv!Has(body, k) <=> k \in DOMAIN body /\ body[k] # "null"
    BY <2>5, <2>6 DEF Sv!Has
  <2>8. \A k \in g : written[k] = IF k \in DOMAIN body THEN body[k] ELSE stored[k]
    BY <1>1, <2>6 DEF Sv!Saved
  <2>9. (\E k \in g : Sv!Has(body, k)) => \A k \in g : Sv!Has(body, k)
    BY DEF Sv!Accepted, Sv!RefinementsHold, Sv!CredentialsTogether, Groups
  <2>10. CASE \A k \in g : Sv!Has(body, k)
    BY <2>7, <2>8, <2>10
  <2>11. CASE \A k \in g : ~Sv!Has(body, k)
    <3>1. \A k \in g : k \in DOMAIN body => written[k] = "null"
      BY <2>7, <2>8, <2>11
    <3>2. \A k \in g : k \notin DOMAIN body => w.values[k] = "null"
      BY <2>2, SentIs
    <3>3. \A k \in g : k \notin DOMAIN body => stored[k] = "null"
      BY <2>2, <3>2 DEF FormSound
    <3> QED BY <2>8, <3>1, <3>3
  <2> QED BY <2>9, <2>10, <2>11
<1> QED BY <1>3, <1>4

LEMMA SaveSound ==
    ASSUME PartsApart, SoundRow, NEW t \in Tab, FormSound(t, tab[t]), Sv!Accepted(Sv!Sent(t)),
           stored' = Sv!Saved(Sv!Sent(t))
    PROVE  SoundRow'
<1>1. \A g \in Groups : (\A k \in g : stored'[k] = "null") \/ (\A k \in g : stored'[k] # "null")
  BY GroupSent
<1>2. \A k \in Sv!Redirects : k \in Sv!Setting /\ k \notin tab[t].entered
  BY GroupsOfTexts, Gateless DEF FormSound
<1>3. \A k \in Sv!Redirects : stored'[k] = "null"
  BY <1>2, SavedIs DEF SoundRow
<1>4. stored' \in [Sv!Setting -> Values] /\ \A k \in Sv!Setting : stored'[k] = "empty" => k \notin Blankable \union Rewritten
  BY SavedIs
<1>5. ASSUME NEW k \in Sv!Setting, stored'[k] = "odd" PROVE k \in Fatal
  <2>1. stored'[k] = IF k \in DOMAIN Sv!Sent(t) THEN Sv!Transformed(k, Sv!Sent(t)[k]) ELSE stored[k]
    BY DEF Sv!Saved
  <2>2. CASE k \in DOMAIN Sv!Sent(t)
    <3>1. Sv!Sent(t)[k] = "odd"
      BY <1>5, <2>1, <2>2 DEF Sv!Transformed
    <3> QED BY <2>2, <3>1, OddTaken DEF Sv!Accepted
  <2>3. CASE k \notin DOMAIN Sv!Sent(t)
    BY <1>5, <2>1, <2>3 DEF SoundRow
  <2> QED BY <2>2, <2>3
<1> QED BY <1>1, <1>3, <1>4, <1>5 DEF SoundRow

LEMMA DefaultsSound ==
    ASSUME stored = Sv!Defaults PROVE SoundRow
<1>1. \A k \in Sv!OauthTexts : k \notin Sv!Off /\ k \in Sv!Unset
  BY Texts DEF Sv!Off, Sv!Unset
<1>2. \A k \in Sv!OauthTexts : Sv!Defaults[k] = "null"
  BY <1>1, Gateless DEF Sv!Defaults
<1>3. \A k \in Sv!Setting : Sv!Defaults[k] \in {"off", "on", "null", "old"}
  BY DEF Sv!Defaults
<1>4. Sv!Defaults \in [Sv!Setting -> Values]
  BY <1>3 DEF Sv!Defaults, Values
<1> QED BY <1>2, <1>3, <1>4, GroupsOfTexts DEF SoundRow

LEMMA SettingsBegin ==
    ASSUME PartsApart, MCInit PROVE SettingsInv
<1>1. stored = Sv!Defaults
  BY DEF MCInit, Sv!Init
<1>2. ASSUME instance \in {"tabs", "parts"} PROVE PagesSound
  <2>1. Sv!Init
    BY <1>2 DEF MCInit
  <2>2. SettingsTyped
    <3>1. tab \in [Tab -> {Sv!Closed}] /\ cache \in [Tab -> {Sv!Defaults}]
          /\ asked \in [Sv!Setting -> {"nothing"}] /\ saves \in [Tab -> Nat]
      BY <2>1 DEF Sv!Init
    <3> QED BY <3>1 DEF SettingsTyped
  <2>3. up /\ \A t \in Tab : tab[t] = Sv!Closed /\ tab[t].at = "closed" /\ cache[t] = stored
    BY <2>1 DEF Sv!Init, Sv!Closed
  <2>4. \A k \in Fatal : stored[k] # "odd"
    BY <1>1, KnownSettings DEF Sv!Defaults
  <2>7. \A t \in Tab : SoundTab(t)
    BY <2>3, <2>4 DEF SoundTab, TabShape, Agrees
  <2>5. Sv!EditsStand
    BY <2>1 DEF Sv!Init, Sv!EditsStand
  <2>6. Runs
    BY <2>1, <2>3 DEF Runs, Sv!Init, PartsApart
  <2> QED BY <2>2, <2>3, <2>5, <2>6, <2>7 DEF PagesSound, Down
<1> QED BY <1>1, <1>2, DefaultsSound DEF SettingsInv

(* A step of another tab, or of the server.                                *)
LEMMA OthersKeep ==
    ASSUME NEW s \in Tab, SoundTab(s), tab'[s] = tab[s], cache'[s] = cache[s], saves'[s] = saves[s],
           UNCHANGED instance, \A k \in Own(s) : stored'[k] = stored[k],
           up' => up, OddRow => OddRow'
    PROVE  SoundTab(s)'
<1>1. ASSUME FormSound(s, tab[s]) PROVE FormSound(s, tab[s])'
  <2>1. Fields(tab[s].part) \subseteq Own(s)
    BY <1>1 DEF FormSound, Own
  <2> QED BY <1>1, <2>1 DEF FormSound
<1>2. \A r : Agrees(s, r) => \A k \in Own(s) : r[k] = stored'[k]
  BY DEF Agrees
<1>3. Condemned(s) => Condemned(s)'
  BY DEF Condemned
<1> QED BY <1>1, <1>2, <1>3 DEF SoundTab, TabShape, Agrees

(* What is left to be shown of a step of one tab.                          *)
LEMMA WorkerStep ==
    ASSUME PartsApart, SettingsInv, instance \in {"tabs", "parts"}, UNCHANGED instance,
           NEW t \in Tab, Works(t), SettingsTyped', SoundRow', SoundTab(t)',
           \A s \in Tab \ {t} : tab'[s] = tab[s] /\ cache'[s] = cache[s] /\ saves'[s] = saves[s],
           \A k \in Sv!Setting \ Own(t) : stored'[k] = stored[k],
           ~Down, UNCHANGED up, OddRow => OddRow',
           instance = "tabs" => Sv!EditsStand',
           instance = "parts" => Runs'
    PROVE  SettingsInv'
<1>1. ASSUME NEW s \in Tab \ {t}, Works(s) PROVE SoundTab(s)'
  <2>1. Own(s) \intersect Own(t) = {}
    BY <1>1 DEF Works, PartsApart
  <2>2. Own(s) \subseteq Sv!Setting
    BY DEF PartsApart, Own, Fields, Sv!Setting
  <2>3. SoundTab(s)
    BY <1>1 DEF SettingsInv, PagesSound
  <2>4. \A k \in Own(s) : stored'[k] = stored[k]
    BY <2>1, <2>2
  <2> QED BY <2>3, <2>4, OthersKeep
<1>2. ASSUME NEW s \in Tab, ~Works(s) PROVE tab'[s] = Sv!Closed
  BY <1>2 DEF SettingsInv, PagesSound
<1>3. \A s \in Tab : Works(s)' <=> Works(s)
  BY DEF Works
<1>4. \A s \in Tab : IF Works(s)' THEN SoundTab(s)' ELSE tab'[s] = Sv!Closed
  BY <1>1, <1>2, <1>3
<1> QED BY <1>4 DEF SettingsInv, PagesSound, Down

LEMMA Typing ==
    ASSUME SettingsTyped, NEW t \in Tab,
           tab' = tab \/ \E x : tab' = [tab EXCEPT ![t] = x],
           cache' = cache \/ \E x : cache' = [cache EXCEPT ![t] = x],
           \E S : asked' \in [Sv!Setting -> S],
           saves' = saves \/ saves' = [saves EXCEPT ![t] = @ + 1]
    PROVE  /\ SettingsTyped'
           /\ \A s \in Tab \ {t} : tab'[s] = tab[s] /\ cache'[s] = cache[s] /\ saves'[s] = saves[s]
<1>1. PICK S : tab \in [Tab -> S]
  BY DEF SettingsTyped
<1>2. \E R : tab' \in [Tab -> R]
  <2>1. CASE tab' = tab
    BY <1>1, <2>1
  <2>2. ASSUME NEW x, tab' = [tab EXCEPT ![t] = x] PROVE \E R : tab' \in [Tab -> R]
    <3>1. tab' \in [Tab -> S \union {x}]
      BY <1>1, <2>2
    <3> QED BY <3>1
  <2> QED BY <2>1, <2>2
<1>3. PICK Q : cache \in [Tab -> Q]
  BY DEF SettingsTyped
<1>4. \E R : cache' \in [Tab -> R]
  <2>1. CASE cache' = cache
    BY <1>3, <2>1
  <2>2. ASSUME NEW x, cache' = [cache EXCEPT ![t] = x] PROVE \E R : cache' \in [Tab -> R]
    <3>1. cache' \in [Tab -> Q \union {x}]
      BY <1>3, <2>2
    <3> QED BY <3>1
  <2> QED BY <2>1, <2>2
<1>5. saves' \in [Tab -> Nat] /\ \A s \in Tab \ {t} : saves'[s] = saves[s]
  BY DEF SettingsTyped
<1>6. \A s \in Tab \ {t} : tab'[s] = tab[s] /\ cache'[s] = cache[s]
  BY <1>1, <1>3
<1> QED BY <1>2, <1>4, <1>5, <1>6 DEF SettingsTyped

LEMMA FetchKeeps ==
    ASSUME PartsApart, SettingsInv, instance \in {"tabs", "parts"}, UNCHANGED instance,
           NEW t \in Tab, Works(t), ~Down, Sv!Fetch(t)
    PROVE  SettingsInv'
<1>1. /\ UNCHANGED <<stored, live, up, tab, asked, saves>> /\ cache' = [cache EXCEPT ![t] = stored]
  BY DEF Sv!Fetch
<1>2. SettingsTyped /\ SoundTab(t) /\ SoundRow
  BY DEF SettingsInv, PagesSound
<1>3. cache'[t] = stored
  BY <1>1, <1>2 DEF SettingsTyped
<1>4. SoundRow'
  BY <1>1, <1>2 DEF SoundRow
<1>5. SoundTab(t)'
  BY <1>1, <1>2, <1>3 DEF SoundTab, TabShape, Agrees, FormSound, Condemned, OddRow
<1>6. (instance = "tabs" => Sv!EditsStand') /\ (instance = "parts" => Runs')
  BY <1>1 DEF SettingsInv, PagesSound, Sv!EditsStand, Runs
<1>7. SettingsTyped' /\ \A s \in Tab \ {t} : tab'[s] = tab[s] /\ cache'[s] = cache[s] /\ saves'[s] = saves[s]
  <2>1. \E S : asked' \in [Sv!Setting -> S]
    BY <1>1, <1>2 DEF SettingsTyped
  <2> QED BY <1>1, <1>2, <2>1, Typing
<1>8. OddRow => OddRow'
  BY <1>1 DEF OddRow
<1> QED BY <1>1, <1>4, <1>5, <1>6, <1>7, <1>8, WorkerStep

(* A step that leaves the row and what is recorded of it alone.            *)
LEMMA PageStep ==
    ASSUME PartsApart, SettingsInv, instance \in {"tabs", "parts"}, UNCHANGED instance,
           NEW t \in Tab, Works(t), ~Down, UNCHANGED <<stored, up, asked, saves>>,
           NEW x, tab' = [tab EXCEPT ![t] = x],
           cache' = cache \/ \E y : cache' = [cache EXCEPT ![t] = y],
           SoundTab(t)', instance = "parts" => Runs'
    PROVE  SettingsInv'
<1>1. SettingsTyped /\ SoundRow
  BY DEF SettingsInv, PagesSound
<1>2. SoundRow'
  BY <1>1 DEF SoundRow
<1>3. instance = "tabs" => Sv!EditsStand'
  BY DEF SettingsInv, PagesSound, Sv!EditsStand
<1>4. \E S : asked' \in [Sv!Setting -> S]
  BY <1>1 DEF SettingsTyped
<1>5. SettingsTyped' /\ \A s \in Tab \ {t} : tab'[s] = tab[s] /\ cache'[s] = cache[s] /\ saves'[s] = saves[s]
  BY <1>1, <1>4, Typing
<1>6. OddRow => OddRow'
  BY DEF OddRow
<1> QED BY <1>2, <1>3, <1>5, <1>6, WorkerStep

(* The form that may be opened may be saved, and has what is stored.       *)
LEMMA ShowsStored ==
    ASSUME PartsApart, SettingsInv, instance \in {"tabs", "parts"}, NEW t \in Tab, Works(t), ~Down,
           tab[t].at \in {"closed", "form"}, saves[t] < MostSaves[t]
    PROVE  Agrees(t, cache[t])
<1>1. saves[t] \in Nat /\ MostSaves[t] \in Nat
  BY DEF SettingsInv, PagesSound, SettingsTyped, PartsApart
<1>2. instance = "tabs" \/ saves[t] = 0
  BY <1>1 DEF Works, PartsApart
<1> QED BY <1>2 DEF SettingsInv, PagesSound, SoundTab

LEMMA OpenKeeps ==
    ASSUME PartsApart, SettingsInv, instance \in {"tabs", "parts"}, UNCHANGED instance,
           NEW t \in Tab, Works(t), ~Down, NEW p \in Openable[t], Sv!Open(t, p),
           tab'[t].at = "form" => saves[t] < MostSaves[t]
    PROVE  SettingsInv'
<1> DEFINE v == [k \in Sv!Form[p].fields |-> cache[t][k]]
           w == Sv!Showing(p, v, {})
<1>1. /\ UNCHANGED <<stored, live, up, cache, asked, saves>> /\ tab' = [tab EXCEPT ![t] = w]
      /\ tab[t] = Sv!Closed
  BY DEF Sv!Open
<1>2. SettingsTyped /\ SoundTab(t) /\ SoundRow
  BY DEF SettingsInv, PagesSound
<1>3. tab'[t] = w
  BY <1>1, <1>2 DEF SettingsTyped
<1>4. w.at = "form" /\ w.part = p /\ w.values = v /\ w.entered = {} /\ w = Sv!Showing(w.part, w.values, w.entered)
  BY DEF Sv!Showing
<1>5. Sv!Closed.at = "closed"
  BY DEF Sv!Closed
<1>6. saves[t] < MostSaves[t] /\ Agrees(t, cache[t])
  BY <1>1, <1>3, <1>4, <1>5, ShowsStored
<1>7. \A k \in Fields(p) : k \in Sv!Setting /\ k \in Own(t) /\ v[k] = stored[k]
  BY <1>6 DEF Agrees, Own, Fields, PartsApart, Sv!Setting
<1>8. v \in [Fields(p) -> Values]
  <2>1. \A k \in Fields(p) : v[k] \in Values
    BY <1>2, <1>7 DEF SoundRow
  <2> QED BY <2>1 DEF Fields
<1> HIDE DEF v, w
<1>9. FormSound(t, w)
  BY <1>4, <1>7, <1>8 DEF FormSound
<1>10. SoundTab(t)'
  BY <1>1, <1>2, <1>3, <1>4, <1>5, <1>6, <1>9 DEF SoundTab, TabShape, FormSound, Agrees, Condemned
<1>11. instance = "parts" => Runs'
  BY <1>1, <1>3, <1>4, <1>5 DEF Runs, SettingsInv, PagesSound, Works
<1> QED BY <1>1, <1>10, <1>11, PageStep

LEMMA LeaveKeeps ==
    ASSUME PartsApart, SettingsInv, instance \in {"tabs", "parts"}, UNCHANGED instance,
           NEW t \in Tab, Works(t), ~Down, Sv!Leave(t)
    PROVE  SettingsInv'
<1>1. /\ UNCHANGED <<stored, live, up, cache, asked, saves>> /\ tab' = [tab EXCEPT ![t] = Sv!Closed]
      /\ tab[t].at = "form"
  BY DEF Sv!Leave
<1>2. SettingsTyped /\ SoundTab(t)
  BY DEF SettingsInv, PagesSound
<1>3. tab'[t] = Sv!Closed
  BY <1>1, <1>2 DEF SettingsTyped
<1>4. Sv!Closed.at = "closed"
  BY DEF Sv!Closed
<1>5. SoundTab(t)'
  BY <1>1, <1>2, <1>3, <1>4 DEF SoundTab, TabShape, Agrees, Condemned
<1>6. instance = "parts" => Runs'
  BY <1>1, <1>3, <1>4 DEF Runs, SettingsInv, PagesSound, Works
<1> QED BY <1>1, <1>5, <1>6, PageStep

LEMMA ReadBackKeeps ==
    ASSUME PartsApart, SettingsInv, instance \in {"tabs", "parts"}, UNCHANGED instance,
           NEW t \in Tab, Works(t), ~Down, Sv!ReadBack(t)
    PROVE  SettingsInv'
<1> DEFINE w == [at |-> "read", row |-> tab[t].row, config |-> Sv!Effective(stored)]
<1>1. /\ UNCHANGED <<stored, live, up, cache, asked, saves>> /\ tab' = [tab EXCEPT ![t] = w]
      /\ tab[t].at = "saved"
  BY DEF Sv!ReadBack
<1>2. SettingsTyped /\ SoundTab(t) /\ SoundRow
  BY DEF SettingsInv, PagesSound
<1>3. tab'[t] = w
  BY <1>1, <1>2 DEF SettingsTyped
<1>4. /\ w.at = "read" /\ w.row = tab[t].row /\ w.config = Sv!Effective(stored)
      /\ w = [at |-> "read", row |-> w.row, config |-> w.config]
  OBVIOUS
<1>5. Sv!Valid(Sv!Effective(stored)) \/ OddRow
  BY <1>2, RowStarts DEF Sv!KeepsStarting
<1> HIDE DEF w
<1>6. SoundTab(t)'
  <2>1. \A k \in Fatal \ FromEnv : stored[k] = "odd" => ~Sv!Valid(w.config)
    BY <1>4, RowRefused DEF OddRow
  <2>2. Sv!Valid(w.config) \/ OddRow'
    BY <1>1, <1>4, <1>5 DEF OddRow
  <2> QED BY <1>1, <1>2, <1>3, <1>4, <2>1, <2>2 DEF SoundTab, TabShape, Agrees, Condemned
<1>7. Sv!Effective(stored)' = Sv!Effective(stored)
  BY <1>1 DEF Sv!Effective
<1>8. instance = "parts" => Runs'
  BY <1>1, <1>3, <1>4, <1>7 DEF Runs, Works
<1> QED BY <1>1, <1>6, <1>8, PageStep

LEMMA SwapKeeps ==
    ASSUME PartsApart, SettingsInv, instance \in {"tabs", "parts"}, UNCHANGED instance,
           NEW t \in Tab, Works(t), ~Down, Sv!Swap(t)
    PROVE  SettingsInv'
<1>1. /\ UNCHANGED <<stored, up, asked, saves>> /\ tab' = [tab EXCEPT ![t] = Sv!Closed]
      /\ tab[t].at = "read" /\ Sv!Valid(tab[t].config) /\ live' = tab[t].config /\ cache' = [cache EXCEPT ![t] = tab[t].row]
  BY DEF Sv!Swap
<1>2. SettingsTyped /\ SoundTab(t)
  BY DEF SettingsInv, PagesSound
<1>3. tab'[t] = Sv!Closed /\ cache'[t] = tab[t].row
  BY <1>1, <1>2 DEF SettingsTyped
<1>4. Sv!Closed.at = "closed"
  BY DEF Sv!Closed
<1>5. SoundTab(t)'
  BY <1>1, <1>2, <1>3, <1>4 DEF SoundTab, TabShape, Agrees, Condemned
<1>6. Sv!Effective(stored)' = Sv!Effective(stored)
  BY <1>1 DEF Sv!Effective
<1>7. instance = "parts" => Runs'
  BY <1>1, <1>3, <1>4, <1>6 DEF Runs, SettingsInv, PagesSound, Works
<1> QED BY <1>1, <1>5, <1>7, PageStep

(* A value entered in a form.                                              *)
Putting(r, k, x) == [r EXCEPT !.values[k] = x]
Marking(r, k) == [r EXCEPT !.entered = @ \union {k}]
Entering(r, k, x) == [r EXCEPT !.values[k] = x, !.entered = @ \union {k}]
FormOf(p, F) == [at : {"form"}, part : {p}, values : [F -> Values], entered : SUBSET F]

LEMMA MarkedForm ==
    ASSUME NEW F, NEW p, NEW k \in F, NEW r \in FormOf(p, F)
    PROVE  Marking(r, k) = Sv!Showing(p, r.values, r.entered \union {k})
  BY DEF Sv!Showing, Marking, FormOf

LEMMA PutForm ==
    ASSUME NEW F, NEW p, NEW k \in F, NEW x \in Values, NEW r \in FormOf(p, F)
    PROVE  Putting(r, k, x) = Sv!Showing(p, [r.values EXCEPT ![k] = x], r.entered)
  BY DEF Sv!Showing, Putting, FormOf

LEMMA EnteredForm ==
    ASSUME NEW F, NEW p, NEW k \in F, NEW x \in Values, NEW r \in FormOf(p, F)
    PROVE  Entering(r, k, x) = Sv!Showing(p, [r.values EXCEPT ![k] = x], r.entered \union {k})
<1> DEFINE q == Putting(r, k, x)
<1>1. Entering(r, k, x) = Marking(q, k)
  BY DEF Entering, Marking, Putting, FormOf
<1>2. q = Sv!Showing(p, [r.values EXCEPT ![k] = x], r.entered)
  BY PutForm
<1>3. q \in FormOf(p, F) /\ q.values = [r.values EXCEPT ![k] = x] /\ q.entered = r.entered
  BY <1>2 DEF FormOf, Sv!Showing
<1> HIDE DEF q
<1>4. Marking(q, k) = Sv!Showing(p, q.values, q.entered \union {k})
  BY <1>3, MarkedForm
<1> QED BY <1>1, <1>3, <1>4

LEMMA EnterKeeps ==
    ASSUME PartsApart, SettingsInv, instance \in {"tabs", "parts"}, UNCHANGED instance,
           NEW t \in Tab, Works(t), ~Down, NEW e \in Enters[t], Sv!Enter(t, e[1], e[2])
    PROVE  SettingsInv'
<1> DEFINE p == tab[t].part
           v == tab[t].values
           entered == tab[t].entered
           w == Sv!Showing(p, [v EXCEPT ![e[1]] = e[2]], entered \union {e[1]})
<1>1. /\ UNCHANGED <<stored, live, up, cache, asked, saves>>
      /\ tab' = [tab EXCEPT ![t].values[e[1]] = e[2], ![t].entered = @ \union {e[1]}]
      /\ tab[t].at = "form" /\ e[1] \in Fields(p) \ entered
  BY DEF Sv!Enter, Fields
<1>2. SettingsTyped /\ SoundTab(t) /\ SoundRow
  BY DEF SettingsInv, PagesSound
<1>3. FormSound(t, tab[t]) /\ saves[t] < MostSaves[t] /\ Agrees(t, cache[t])
  <2>1. FormSound(t, tab[t]) /\ saves[t] < MostSaves[t]
    BY <1>1, <1>2 DEF SoundTab
  <2> QED BY <1>1, <2>1, ShowsStored
<1>4. tab[t] = Sv!Showing(p, v, entered)
  BY <1>1, <1>2 DEF SoundTab, TabShape, Sv!Closed
<1>5. tab[t] \in FormOf(p, Fields(p))
  BY <1>3, <1>4 DEF Sv!Showing, FormSound, FormOf
<1>6. e[1] \in Fields(p) /\ e[1] \notin Sv!Redirects /\ e[2] \in Values \ {"null"}
  BY <1>1 DEF PartsApart
<1>7. Entering(tab[t], e[1], e[2]) = w
  BY <1>5, <1>6, EnteredForm
<1>8. tab' = [tab EXCEPT ![t] = w]
  BY <1>1, <1>2, <1>7 DEF SettingsTyped, Entering
<1>9. tab'[t] = w
  BY <1>2, <1>8 DEF SettingsTyped
<1>10. /\ w.at = "form" /\ w.part = p /\ w.values = [v EXCEPT ![e[1]] = e[2]]
       /\ w.entered = entered \union {e[1]} /\ w = Sv!Showing(w.part, w.values, w.entered)
  BY DEF Sv!Showing
<1>11. v \in [Fields(p) -> Values]
  BY <1>3 DEF FormSound
<1> HIDE DEF w
<1>12. FormSound(t, w)
  BY <1>3, <1>6, <1>10, <1>11 DEF FormSound
<1>13. SoundTab(t)'
  <2>1. FormSound(t, tab[t])'
    BY <1>1, <1>9, <1>12 DEF FormSound
  <2>2. saves'[t] < MostSaves[t] /\ Agrees(t, cache[t])'
    BY <1>1, <1>3 DEF Agrees
  <2>3. \A k \in Own(t) \intersect (Fatal \ FromEnv) : stored'[k] = "odd" => ~up'
    BY <1>1, <1>2 DEF SoundTab, Condemned
  <2> QED BY <1>9, <1>10, <2>1, <2>2, <2>3 DEF SoundTab, TabShape, Condemned
<1>14. Sv!Effective(stored)' = Sv!Effective(stored)
  BY <1>1 DEF Sv!Effective
<1>15. instance = "parts" => Runs'
  BY <1>1, <1>9, <1>10, <1>14 DEF Runs, SettingsInv, PagesSound, Works
<1> QED BY <1>1, <1>8, <1>13, <1>15, PageStep

LEMMA SaveFormKeeps ==
    ASSUME PartsApart, SettingsInv, instance \in {"tabs", "parts"}, UNCHANGED instance,
           NEW t \in Tab, Works(t), ~Down, Sv!Save(t)
    PROVE  SettingsInv'
<1> DEFINE written == Sv!Saved(Sv!Sent(t))
           w == [at |-> "saved", row |-> written]
           given == tab[t].entered \intersect DOMAIN Sv!Sent(t)
<1>1. /\ up /\ UNCHANGED <<live, up, cache>> /\ tab[t].at = "form" /\ Sv!Accepted(Sv!Sent(t))
      /\ stored' = written /\ tab' = [tab EXCEPT ![t] = w]
      /\ asked' = [k \in Sv!Setting |-> IF k \in given THEN written[k] ELSE asked[k]]
      /\ saves' = [saves EXCEPT ![t] = @ + 1]
  BY DEF Sv!Save
<1>2. SettingsTyped /\ SoundTab(t) /\ SoundRow
  BY DEF SettingsInv, PagesSound
<1>3. FormSound(t, tab[t])
  BY <1>1, <1>2 DEF SoundTab
<1>4. written \in [Sv!Setting -> Values] /\ \A k \in Sv!Setting \ tab[t].entered : written[k] = stored[k]
  BY <1>2, <1>3, SavedIs
<1>5. SoundRow'
  BY <1>1, <1>2, <1>3, SaveSound
<1>6. tab[t].entered \subseteq Own(t)
  BY <1>3 DEF FormSound, Own
<1>7. tab'[t] = w /\ saves'[t] = saves[t] + 1 /\ saves[t] \in Nat
  BY <1>1, <1>2 DEF SettingsTyped
<1>8. w.at = "saved" /\ w.row = written /\ w = [at |-> "saved", row |-> w.row]
  OBVIOUS
<1>9. \A k \in tab[t].entered : k \in given
  BY <1>3, SentIs DEF FormSound
<1> HIDE DEF written, w, given
<1>10. SoundTab(t)'
  BY <1>1, <1>7, <1>8 DEF SoundTab, TabShape, Agrees, Condemned
<1>11. \A k \in Sv!Setting \ Own(t) : stored'[k] = stored[k]
  BY <1>1, <1>4, <1>6
<1>17. OddRow => OddRow'
  <2>1. ASSUME NEW k \in Fatal \ FromEnv, stored[k] = "odd" PROVE stored'[k] = "odd"
    <3>1. k \notin Own(t)
      BY <1>1, <1>2, <2>1 DEF SoundTab, Condemned
    <3> QED BY <1>11, <2>1, <3>1, KnownSettings
  <2> QED BY <2>1 DEF OddRow
<1>12. \A k \in Sv!Setting : asked'[k] = IF k \in given THEN written[k] ELSE asked[k]
  BY <1>1
<1>13. instance = "tabs" => Sv!EditsStand'
  BY <1>1, <1>4, <1>9, <1>12 DEF SettingsInv, PagesSound, Sv!EditsStand
<1>14. instance = "parts" => Runs'
  BY <1>7, <1>8 DEF Runs, Works
<1>15. \E S : asked' \in [Sv!Setting -> S]
  <2>1. PICK S : asked \in [Sv!Setting -> S]
    BY <1>2 DEF SettingsTyped
  <2>2. asked' \in [Sv!Setting -> S \union Values]
    BY <1>1, <1>4, <2>1
  <2> QED BY <2>2
<1>16. SettingsTyped' /\ \A s \in Tab \ {t} : tab'[s] = tab[s] /\ cache'[s] = cache[s] /\ saves'[s] = saves[s]
  BY <1>1, <1>2, <1>15, Typing
<1> QED BY <1>1, <1>5, <1>10, <1>11, <1>13, <1>14, <1>16, <1>17, WorkerStep

(* The server ends, of itself or over what it read back.                   *)
LEMMA DeadTyped ==
    ASSUME SettingsTyped, Sv!Dead PROVE SettingsTyped'
<1>1. /\ UNCHANGED <<cache, asked, saves>>
      /\ tab' = [s \in Tab |-> IF tab[s].at \in {"saved", "read"} THEN Sv!Closed ELSE tab[s]]
  BY DEF Sv!Dead
<1>2. PICK S : tab \in [Tab -> S]
  BY DEF SettingsTyped
<1>3. tab' \in [Tab -> S \union {Sv!Closed}]
  BY <1>1, <1>2
<1> QED BY <1>1, <1>3 DEF SettingsTyped

LEMMA DeadKeeps ==
    ASSUME PartsApart, SettingsInv, instance = "parts", UNCHANGED instance, Sv!Dead
    PROVE  SettingsInv'
<1>1. /\ UNCHANGED <<stored, live, cache, asked, saves>> /\ up' = FALSE
      /\ tab' = [s \in Tab |-> IF tab[s].at \in {"saved", "read"} THEN Sv!Closed ELSE tab[s]]
  BY DEF Sv!Dead
<1>2. SettingsTyped /\ SoundRow
  BY DEF SettingsInv, PagesSound
<1>3. Sv!Closed.at = "closed"
  BY DEF Sv!Closed
<1>4. SettingsTyped'
  BY <1>2, DeadTyped
<1>5. \A s \in Tab : tab'[s] = IF tab[s].at \in {"saved", "read"} THEN Sv!Closed ELSE tab[s]
  BY <1>1
<1>6. ASSUME NEW s \in Tab, Works(s) PROVE SoundTab(s)'
  <2>1. SoundTab(s)
    BY <1>6 DEF SettingsInv, PagesSound, Down
  <2>2. CASE tab[s].at \in {"saved", "read"}
    <3>1. tab'[s] = Sv!Closed /\ saves'[s] # 0
      BY <1>1, <1>5, <2>1, <2>2 DEF SoundTab
    <3> QED BY <1>1, <1>3, <3>1 DEF SoundTab, TabShape, Condemned
  <2>3. CASE tab[s].at \notin {"saved", "read"}
    <3>1. tab'[s] = tab[s]
      BY <1>5, <2>3
    <3>2. OddRow => OddRow'
      BY <1>1 DEF OddRow
    <3> QED BY <1>1, <2>1, <3>1, <3>2, OthersKeep
  <2> QED BY <2>2, <2>3
<1>7. ASSUME NEW s \in Tab, ~Works(s) PROVE tab'[s] = Sv!Closed
  <2>1. tab[s] = Sv!Closed
    BY <1>7 DEF SettingsInv, PagesSound, Down
  <2> QED BY <1>3, <1>5, <2>1
<1>8. \A s \in Tab : Works(s)' <=> Works(s)
  BY DEF Works
<1>9. \A s \in Tab : IF Works(s)' THEN SoundTab(s)' ELSE tab'[s] = Sv!Closed
  BY <1>6, <1>7, <1>8
<1>10. tab'[any].at \in {"closed", "form"} \/ tab'[any].at \notin {"saved", "read"}
  BY <1>3, <1>5 DEF PartsApart
<1>11. Runs'
  <2>1. tab'[any].at # "read"
    BY <1>3, <1>5 DEF PartsApart
  <2> QED BY <1>1, <2>1 DEF Runs
<1>12. SoundRow'
  BY <1>1, <1>2 DEF SoundRow
<1> QED BY <1>4, <1>9, <1>11, <1>12 DEF SettingsInv, PagesSound, Down

LEMMA ExitKeeps ==
    ASSUME PartsApart, SettingsInv, instance \in {"tabs", "parts"}, UNCHANGED instance,
           NEW t \in Tab, Works(t), ~Down, Sv!Exit(t)
    PROVE  SettingsInv'
<1>1. Sv!Dead /\ tab[t].at = "read" /\ ~Sv!Valid(tab[t].config)
  BY DEF Sv!Exit
<1>2. CASE instance = "parts"
  BY <1>1, <1>2, DeadKeeps
<1>3. CASE instance = "tabs"
  <2>1. UNCHANGED <<stored, asked>> /\ up' = FALSE
    BY <1>1 DEF Sv!Dead
  <2>2. SettingsTyped /\ SoundRow /\ OddRow /\ Sv!EditsStand
    BY <1>1, <1>3 DEF SettingsInv, PagesSound, SoundTab
  <2>3. SettingsTyped' /\ SoundRow' /\ OddRow' /\ Sv!EditsStand'
    BY <1>1, <2>1, <2>2, DeadTyped DEF SoundRow, OddRow, Sv!EditsStand
  <2> QED BY <1>3, <2>1, <2>3 DEF SettingsInv, PagesSound, Down
<1> QED BY <1>2, <1>3

(* What the tabs can do without a server: nothing that lasts.              *)
LEMMA DownKeeps ==
    ASSUME PartsApart, SettingsInv, Down, UNCHANGED instance, NEW t \in Tab, Sv!Step(t)
    PROVE  SettingsInv'
<1>1. SettingsTyped /\ SoundRow /\ OddRow /\ Sv!EditsStand /\ instance = "tabs" /\ ~up
  BY DEF SettingsInv, PagesSound, Down
<1>2. SUFFICES SettingsTyped' /\ UNCHANGED <<stored, asked>> /\ ~up'
  BY <1>1 DEF SettingsInv, PagesSound, Down, SoundRow, OddRow, Sv!EditsStand
<1>3. ASSUME NEW x, tab' = [tab EXCEPT ![t] = x], UNCHANGED <<stored, up, asked, saves>>,
             cache' = cache \/ \E y : cache' = [cache EXCEPT ![t] = y]
      PROVE  SettingsTyped' /\ UNCHANGED <<stored, asked>> /\ ~up'
  <2>1. \E S : asked' \in [Sv!Setting -> S]
    BY <1>1, <1>3 DEF SettingsTyped
  <2> QED BY <1>1, <1>3, <2>1, Typing
<1>4. CASE Sv!Fetch(t) \/ Sv!Save(t)
  BY <1>1, <1>4 DEF Sv!Fetch, Sv!Save
<1>5. ASSUME NEW p \in Openable[t], Sv!Open(t, p) PROVE SettingsTyped' /\ UNCHANGED <<stored, asked>> /\ ~up'
  BY <1>3, <1>5 DEF Sv!Open
<1>6. ASSUME NEW e \in Enters[t], Sv!Enter(t, e[1], e[2])
      PROVE  SettingsTyped' /\ UNCHANGED <<stored, asked>> /\ ~up'
  <2>1. tab' = [tab EXCEPT ![t] = Entering(tab[t], e[1], e[2])] /\ UNCHANGED <<stored, up, asked, saves, cache>>
    BY <1>1, <1>6 DEF Sv!Enter, Entering, SettingsTyped
  <2> QED BY <1>3, <2>1
<1>7. CASE Sv!Leave(t)
  BY <1>3, <1>7 DEF Sv!Leave
<1>8. CASE Sv!ReadBack(t)
  BY <1>3, <1>8 DEF Sv!ReadBack
<1>9. CASE Sv!Swap(t)
  BY <1>3, <1>9 DEF Sv!Swap
<1>10. CASE Sv!Exit(t)
  <2>1. Sv!Dead
    BY <1>10 DEF Sv!Exit
  <2> QED BY <1>1, <2>1, DeadTyped DEF Sv!Dead
<1> QED BY <1>4, <1>5, <1>6, <1>7, <1>8, <1>9, <1>10 DEF Sv!Step

LEMMA StartKeeps ==
    ASSUME PartsApart, SettingsInv, instance \in {"tabs", "parts"}, UNCHANGED instance, Sv!Start
    PROVE  SettingsInv'
<1>1. /\ UNCHANGED <<stored, tab, cache, asked, saves>> /\ live' = Sv!Effective(stored)
      /\ up' = TRUE /\ Sv!Valid(Sv!Effective(stored))
  BY DEF Sv!Start
<1>2. SettingsTyped /\ SoundRow /\ ~OddRow /\ ~Down
  BY <1>1, RowRefused DEF SettingsInv, PagesSound
<1>3. SettingsTyped' /\ SoundRow'
  BY <1>1, <1>2 DEF SettingsTyped, SoundRow
<1>4. ASSUME NEW s \in Tab, Works(s) PROVE SoundTab(s)'
  <2>1. SoundTab(s)
    BY <1>2, <1>4 DEF SettingsInv, PagesSound
  <2>2. \A k \in Fatal \ FromEnv : stored'[k] # "odd"
    BY <1>1, <1>2 DEF OddRow
  <2> QED BY <1>1, <1>2, <2>1, <2>2 DEF SoundTab, TabShape, FormSound, Agrees
<1>5. \A s \in Tab : ~Works(s) => tab'[s] = Sv!Closed
  BY <1>1, <1>2 DEF SettingsInv, PagesSound
<1>6. \A s \in Tab : Works(s)' <=> Works(s)
  BY DEF Works
<1>7. \A s \in Tab : IF Works(s)' THEN SoundTab(s)' ELSE tab'[s] = Sv!Closed
  BY <1>4, <1>5, <1>6
<1>8. Sv!Effective(stored)' = Sv!Effective(stored)
  BY <1>1 DEF Sv!Effective
<1>9. instance = "parts" => Runs'
  BY <1>1, <1>8 DEF Runs, SettingsInv, PagesSound
<1>10. instance = "tabs" => Sv!EditsStand'
  BY <1>1 DEF Sv!EditsStand, SettingsInv, PagesSound
<1> QED BY <1>1, <1>3, <1>7, <1>9, <1>10 DEF SettingsInv, PagesSound, Down

LEMMA TabStep ==
    ASSUME PartsApart, SettingsInv, instance \in {"tabs", "parts"}, UNCHANGED instance,
           NEW t \in Tab, Works(t), ~Down, Sv!Step(t), tab'[t].at = "form" => saves[t] < MostSaves[t]
    PROVE  SettingsInv'
<1>1. CASE \E p \in Openable[t] : Sv!Open(t, p)
  BY <1>1, OpenKeeps
<1>2. CASE \E e \in Enters[t] : Sv!Enter(t, e[1], e[2])
  BY <1>2, EnterKeeps
<1> QED
  BY <1>1, <1>2, FetchKeeps, LeaveKeeps, SaveFormKeeps, ReadBackKeeps, SwapKeeps, ExitKeeps DEF Sv!Step

LEMMA SettingsStep ==
    ASSUME PartsApart, SettingsInv, [MCNext]_allVars PROVE SettingsInv'
<1>1. CASE UNCHANGED instance /\ instance \in {"tabs", "parts"} /\ SettingsNext
  <2>1. \A t \in Tab : tab'[t].at = "form" => saves[t] < MostSaves[t]
    BY <1>1 DEF SettingsNext
  <2>2. CASE instance = "tabs" /\ (Sv!Step(left) \/ Sv!Step(right) \/ Sv!Start)
    <3>1. left \in Tab /\ right \in Tab /\ Works(left) /\ Works(right)
      BY <2>2 DEF Works, PartsApart
    <3>2. CASE Down
      BY <1>1, <2>2, <3>1, <3>2, DownKeeps, StartKeeps
    <3>3. CASE ~Down
      BY <1>1, <2>1, <2>2, <3>1, <3>3, TabStep, StartKeeps
    <3> QED BY <3>2, <3>3
  <2>3. CASE instance = "parts" /\ (Sv!Step(any) \/ Sv!Crash \/ Sv!Start)
    <3>1. any \in Tab /\ Works(any)
      BY <2>3 DEF Works, PartsApart
    <3>2. ~Down
      BY <2>3 DEF Down
    <3>3. CASE Sv!Crash
      BY <1>1, <2>3, <3>3, DeadKeeps DEF Sv!Crash
    <3> QED BY <1>1, <2>1, <2>3, <3>1, <3>2, <3>3, TabStep, StartKeeps
  <2> QED BY <1>1, <2>2, <2>3 DEF SettingsNext
<1>2. CASE UNCHANGED <<instance, svVars>>
  <2>1. UNCHANGED <<instance, stored, live, up, tab, cache, asked, saves>>
    BY <1>2 DEF svVars
  <2>2. SoundRow'
    BY <2>1 DEF SettingsInv, SoundRow
  <2>3. ASSUME PagesSound PROVE PagesSound'
    <3>1. SettingsTyped'
      BY <2>1, <2>3 DEF PagesSound, SettingsTyped
    <3>2. (Down' <=> Down) /\ (OddRow' <=> OddRow)
      BY <2>1 DEF Down, OddRow
    <3>5. ASSUME ~Down PROVE \A s \in Tab : IF Works(s)' THEN SoundTab(s)' ELSE tab'[s] = Sv!Closed
      <4>1. \A s \in Tab : Works(s)' <=> Works(s)
        BY <2>1 DEF Works
      <4>2. \A s \in Tab : Works(s) => SoundTab(s)
        BY <2>3, <3>5 DEF PagesSound
      <4>3. ASSUME NEW s \in Tab, Works(s) PROVE SoundTab(s)'
        BY <2>1, <3>2, <4>2, <4>3, OthersKeep
      <4>4. \A s \in Tab : ~Works(s) => tab'[s] = Sv!Closed
        BY <2>1, <2>3, <3>5 DEF PagesSound
      <4> QED BY <4>1, <4>3, <4>4
    <3>3. Sv!Effective(stored)' = Sv!Effective(stored)
      BY <2>1 DEF Sv!Effective
    <3>4. (instance' = "tabs" => Sv!EditsStand') /\ (instance' = "parts" => Runs')
      BY <2>1, <2>3, <3>3 DEF PagesSound, Sv!EditsStand, Runs
    <3>6. Down => OddRow
      BY <2>3 DEF PagesSound
    <3> QED BY <3>1, <3>2, <3>4, <3>5, <3>6 DEF PagesSound
  <2> QED BY <2>1, <2>2, <2>3 DEF SettingsInv
<1> QED BY <1>1, <1>2 DEF MCNext, allVars

(* Whatever is entered and saved on the pages of the settings: two tabs    *)
(* with parts of their own undo nothing of one another, and with one tab   *)
(* the server runs with the row, whenever it dies and starts.              *)
THEOREM SettingsKeep ==
    ASSUME PartsApart PROVE MCSpec => []SettingsKept
<1>1. MCInit => SettingsInv
  BY SettingsBegin
<1>2. SettingsInv /\ [MCNext]_allVars => SettingsInv'
  BY SettingsStep
<1>3. SettingsInv => SettingsKept
  <2>1. ASSUME SettingsInv, instance = "parts" PROVE Sv!LiveIsRow
    <3>1. Runs /\ any \in Tab
      BY <2>1 DEF SettingsInv, PagesSound, PartsApart
    <3>2. \A k \in Sv!Setting : Sv!Effective(stored)[k] = IF k \in FromEnv THEN "env" ELSE stored[k]
      BY DEF Sv!Effective
    <3> QED BY <3>1, <3>2 DEF Runs, Sv!LiveIsRow
  <2>2. ASSUME SettingsInv, instance = "tabs" PROVE Sv!EditsStand
    BY <2>2 DEF SettingsInv, PagesSound
  <2> QED BY <2>1, <2>2 DEF SettingsKept
<1> QED BY <1>1, <1>2, <1>3, PTL DEF MCSpec

(* And the server can start with what was saved, though the schema of a    *)
(* PATCH looks at the body and that of the configuration at the row, until *)
(* a value without a meaning is stored.                                    *)
THEOREM StartsAgain ==
    ASSUME PartsApart PROVE MCSpec => []StartsUnlessOdd
<1>1. MCInit => SettingsInv
  BY SettingsBegin
<1>2. SettingsInv /\ [MCNext]_allVars => SettingsInv'
  BY SettingsStep
<1>3. SettingsInv => StartsUnlessOdd
  <2>1. (\A k \in Sv!Setting \ FromEnv : stored[k] # "odd") => ~OddRow
    BY KnownSettings DEF OddRow
  <2> QED BY <2>1, RowStarts DEF SettingsInv, StartsUnlessOdd, Sv!StartsUnlessOdd
<1> QED BY <1>1, <1>2, <1>3, PTL DEF MCSpec
=============================================================================
