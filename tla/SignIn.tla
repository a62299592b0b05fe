------------------------------- MODULE SignIn --------------------------------
(***************************************************************************)
(* Signing in to the TypeScript server from several browsers: passwords,   *)
(* codes of an authenticator and passkeys, the sessions that come of it,   *)
(* and the settings that list and end sessions, set up the authenticator   *)
(* and register passkeys.  A session is a row of the database whose id is  *)
(* in a sealed cookie; every request of a signed-in page first reads the   *)
(* row, and writes after that.                                             *)
(***************************************************************************)
EXTENDS Naturals, FiniteSets

CONSTANTS
    User, Browser,
    MaxSessions, MaxSecrets, MaxChallenges,     \* bounds on what is generated
    Scene,          \* situations: what is done in the settings
    PasskeyOver,    \* passkeys are used where a cookie of an earlier session is left
    None, Ended

Doings == {"patch", "logout", "endOthers", "endOne", "secret", "enable", "disable",
           "keyOptions", "saveKey", "removeKey"}

SignInAssumption ==
    /\ {None, Ended} \intersect User = {} /\ None # Ended
    /\ MaxSessions \in Nat /\ MaxSecrets \in Nat /\ MaxChallenges \in Nat
    /\ PasskeyOver \in BOOLEAN /\ Scene \subseteq SUBSET Doings

VARIABLES
    scene,
    session,    \* UserSession: whose each one is; None before, Ended after
    cookie,     \* the session id in the cookie of a browser, 0 if none
    totp,       \* User.totpSecret, 0 if none
    keys,       \* User.passkeys: the challenge and the browser each was made with
    challenge,  \* the registration challenge cached for a user, 0 if none
    page,       \* what a browser shows
    req,        \* the request a browser waits for
    scanned,    \* the secrets in the authenticator of a user
    drawn,      \* secrets and challenges generated
    as          \* whom a browser was last signed in as, until that session was ended

vars == <<scene, session, cookie, totp, keys, challenge, page, req, scanned, drawn, as>>
others == <<scene, totp, keys, challenge, scanned, drawn>>

SessionId == 1..MaxSessions
Secret == 1..MaxSecrets
Key == [challenge: 1..MaxChallenges, made: Browser]
Idle == [pc |-> "idle"]
Begun == {"login", "passkey", "auth"}
LoginPage == [at |-> "login", form |-> "idle", user |-> None, totp |-> 0, pin |-> "closed", qr |-> 0, made |-> 0]

TypeOK ==
    /\ scene \in Scene
    /\ session \in [SessionId -> User \union {None, Ended}]
    /\ cookie \in [Browser -> 0..MaxSessions]
    /\ totp \in [User -> 0..MaxSecrets] /\ scanned \in [User -> SUBSET Secret]
    /\ keys \in [User -> SUBSET Key] /\ challenge \in [User -> 0..MaxChallenges]
    /\ page \in [Browser -> [at: {"login", "dashboard"}, form: {"idle", "busy", "code"},
                             user: User \union {None}, totp: 0..MaxSecrets, pin: {"closed", "open", "busy"},
                             qr: 0..MaxSecrets, made: 0..MaxChallenges]]
    /\ \A b \in Browser : req[b] = Idle \/ req[b].pc \in Begun \union {"save", "act"}
    /\ drawn \in [secrets: 0..MaxSecrets, challenges: 0..MaxChallenges]
    /\ as \in [Browser -> User \union {None}]

Init ==
    /\ scene \in Scene
    /\ session = [s \in SessionId |-> None]
    /\ cookie = [b \in Browser |-> 0]
    /\ totp = [u \in User |-> 0] /\ scanned = [u \in User |-> {}]
    /\ keys = [u \in User |-> {}] /\ challenge = [u \in User |-> 0]
    /\ page = [b \in Browser |-> LoginPage]
    /\ req = [b \in Browser |-> Idle]
    /\ drawn = [secrets |-> 0, challenges |-> 0]
    /\ as = [b \in Browser |-> None]

(* The owner of the session in a cookie, None if it is not there any more. *)
Owner(s) == IF s # 0 /\ session[s] \in User THEN session[s] ELSE None
New == {s \in SessionId : session[s] = None /\ \A t \in SessionId : t < s => session[t] # None}

Show(b, shown) == page' = [page EXCEPT ![b] = shown]
Ask(b, q) == req[b] = Idle /\ req' = [req EXCEPT ![b] = q]
Goto(b, q) == req' = [req EXCEPT ![b] = q]
Answered(b) == Goto(b, Idle)

(* Sessions that end are taken from whoever was signed in by them.         *)
End(gone) ==
    /\ session' = [s \in SessionId |-> IF s \in gone THEN Ended ELSE session[s]]
    /\ as' = [b \in Browser |-> IF cookie[b] \in gone THEN None ELSE as[b]]

(* An error: the form can be used again, a dialog that asks for a code     *)
(* stays open.                                                             *)
Failed(b) ==
    [page[b] EXCEPT !.form = IF @ = "busy" THEN (IF req[b].code # 0 THEN "code" ELSE "idle") ELSE @,
                    !.pin = IF @ = "busy" THEN "open" ELSE @,
                    !.made = IF req[b].act = "saveKey" THEN 0 ELSE @]

Fails(b) == Show(b, Failed(b)) /\ Answered(b)

Request(pc, act) == [pc |-> pc, act |-> act, user |-> None, code |-> 0, secret |-> 0, key |-> None, over |-> 0]

-----------------------------------------------------------------------------
(* saveSession: a session that the cookie names is kept, whatever became   *)
(* of its row; otherwise a row is created.                                 *)
\* Seeded bug: the row of the session that the cookie names is written again.
SaveSessionAgain(b) ==
    LET u == req[b].user
        s == IF req[b].over # 0 THEN req[b].over ELSE CHOOSE t \in New : TRUE
    IN  /\ req[b].pc = "save" /\ (req[b].over = 0 => New # {})
        /\ session' = [session EXCEPT ![s] = u]
        /\ cookie' = [cookie EXCEPT ![b] = s]
        /\ as' = IF req[b].act = "signIn" THEN [as EXCEPT ![b] = u] ELSE as
        /\ Show(b, [page[b] EXCEPT !.at = "dashboard", !.user = u, !.totp = totp[u], !.form = "idle"])
        /\ Answered(b) /\ UNCHANGED others

SaveSession(b) ==
    LET u == req[b].user
        s == IF req[b].over # 0 THEN req[b].over ELSE CHOOSE t \in New : TRUE
    IN  /\ req[b].pc = "save" /\ (req[b].over = 0 => New # {})
        /\ session' = IF req[b].over = 0 THEN [session EXCEPT ![s] = u] ELSE session
        /\ cookie' = [cookie EXCEPT ![b] = s]
        /\ as' = IF req[b].act = "signIn" THEN [as EXCEPT ![b] = u] ELSE as
        /\ Show(b, [page[b] EXCEPT !.at = IF session'[s] \in User THEN "dashboard" ELSE "login",
                                   !.user = u, !.totp = totp[u], !.form = "idle"])
        /\ Answered(b) /\ UNCHANGED others

(* The form of the login page, and the dialog for the code.  Code 0 is     *)
(* none; a user enters codes of secrets in the authenticator, or a wrong   *)
(* password.                                                               *)
SubmitLogin(b, u, right, code) ==
    /\ page[b].at = "login" /\ (page[b].form = "code" <=> code # 0)
    /\ page[b].form # "busy"
    /\ Ask(b, [Request("login", "signIn") EXCEPT !.user = IF right THEN u ELSE None, !.code = code])
    /\ Show(b, [page[b] EXCEPT !.form = "busy"])
    /\ UNCHANGED <<session, cookie, as, others>>

CancelCode(b) ==
    /\ page[b].form = "code"
    /\ Show(b, [page[b] EXCEPT !.form = "idle"])
    /\ UNCHANGED <<session, cookie, as, req, others>>

\* Seeded bug: the session of the cookie is not forgotten.
LoginOver(b) ==
    LET u == req[b].user IN
    /\ req[b].pc = "login"
    /\ CASE u = None -> Fails(b)
         [] u # None /\ totp[u] # 0 /\ req[b].code = 0 ->
              Show(b, [page[b] EXCEPT !.form = "code"]) /\ Answered(b)
         [] u # None /\ totp[u] # 0 /\ req[b].code \notin {0, totp[u]} -> Fails(b)
         [] OTHER -> Goto(b, [req[b] EXCEPT !.pc = "save", !.over = cookie[b]]) /\ UNCHANGED page
    /\ UNCHANGED <<session, cookie, as, others>>

Login(b) ==
    LET u == req[b].user IN
    /\ req[b].pc = "login"
    /\ CASE u = None -> Fails(b)
         [] u # None /\ totp[u] # 0 /\ req[b].code = 0 ->
              Show(b, [page[b] EXCEPT !.form = "code"]) /\ Answered(b)
         [] u # None /\ totp[u] # 0 /\ req[b].code \notin {0, totp[u]} -> Fails(b)
         [] OTHER -> Goto(b, [req[b] EXCEPT !.pc = "save"]) /\ UNCHANGED page
    /\ UNCHANGED <<session, cookie, as, others>>

(* A passkey that a device holds, whether the server still knows it or     *)
(* not.  The session of the cookie is kept.                                *)
SubmitPasskey(b, k) ==
    /\ page[b].at = "login" /\ page[b].form = "idle"
    /\ "saveKey" \in scene /\ (cookie[b] = 0 \/ PasskeyOver)
    /\ k.challenge <= drawn.challenges
    /\ Ask(b, [Request("passkey", "signIn") EXCEPT !.key = k])
    /\ Show(b, [page[b] EXCEPT !.form = "busy"])
    /\ UNCHANGED <<session, cookie, as, others>>

Passkey(b) ==
    LET owner == {u \in User : req[b].key \in keys[u]} IN
    /\ req[b].pc = "passkey"
    /\ \/ owner = {} /\ Fails(b)
       \/ \E u \in owner :
            /\ Goto(b, [req[b] EXCEPT !.pc = "save", !.user = u, !.over = cookie[b]])
            /\ UNCHANGED page
    /\ UNCHANGED <<session, cookie, as, others>>

(* A page is opened or reads /api/user again.                              *)
Visit(b) ==
    /\ req[b] = Idle
    /\ LET u == Owner(cookie[b]) IN
         Show(b, IF u = None THEN LoginPage
                 ELSE [page[b] EXCEPT !.at = "dashboard", !.form = "idle", !.user = u, !.totp = totp[u]])
    /\ UNCHANGED <<session, cookie, as, req, others>>

-----------------------------------------------------------------------------
(* The requests of a signed-in page.                                       *)
Act(b, q) ==
    /\ page[b].at = "dashboard" /\ page[b].pin # "busy" /\ q.act \in scene
    /\ Ask(b, q)
    /\ UNCHANGED <<session, cookie, as, others>>

Click(b, act) ==
    /\ act \in {"patch", "logout", "endOthers", "keyOptions", "secret"}
    /\ act = "keyOptions" => page[b].made = 0
    /\ act = "secret" => page[b].pin = "open" /\ page[b].totp = 0 /\ page[b].qr = 0
    /\ Act(b, Request("auth", act))
    /\ UNCHANGED page

EndSession(b, s) ==
    /\ Act(b, [Request("auth", "endOne") EXCEPT !.secret = s])
    /\ UNCHANGED page

RemoveKey(b, k) ==
    /\ page[b].user # None /\ k \in keys[page[b].user]
    /\ Act(b, [Request("auth", "removeKey") EXCEPT !.key = k])
    /\ UNCHANGED page

SaveKey(b) ==
    /\ page[b].made # 0
    /\ Act(b, [Request("auth", "saveKey") EXCEPT !.key = [challenge |-> page[b].made, made |-> b]])
    /\ UNCHANGED page

(* The dialog of the authenticator: the secret is scanned from it, and a   *)
(* code enables it, or disables it where the page takes it as enabled.     *)
TotpOpen(b, open) ==
    /\ "enable" \in scene
    /\ page[b].at = "dashboard" /\ page[b].pin = (IF open THEN "closed" ELSE "open")
    /\ Show(b, [page[b] EXCEPT !.pin = IF open THEN "open" ELSE "closed"])
    /\ UNCHANGED <<session, cookie, as, req, others>>

Scan(b) ==
    /\ page[b].pin = "open" /\ page[b].qr # 0 /\ page[b].totp = 0
    /\ scanned' = [scanned EXCEPT ![page[b].user] = @ \union {page[b].qr}]
    /\ UNCHANGED <<scene, session, cookie, as, req, page, totp, keys, challenge, drawn>>

HandlePinChange(b, code) ==
    /\ page[b].pin = "open" /\ code \in scanned[page[b].user]
    /\ page[b].totp = 0 => page[b].qr # 0
    /\ Act(b, [Request("auth", IF page[b].totp = 0 THEN "enable" ELSE "disable")
               EXCEPT !.code = code, !.secret = page[b].qr])
    /\ Show(b, [page[b] EXCEPT !.pin = "busy"])

-----------------------------------------------------------------------------
(* userMiddleware, with what the handler checks of the user it read.       *)
Checked(b, u) ==
    CASE req[b].act = "endOne" -> req[b].secret # cookie[b] /\ session[req[b].secret] = u
      [] req[b].act = "enable" -> req[b].code = req[b].secret
      [] req[b].act = "disable" -> totp[u] # 0 /\ req[b].code = totp[u]
      [] OTHER -> TRUE

UserMiddleware(b) ==
    LET u == Owner(cookie[b]) IN
    /\ req[b].pc = "auth"
    /\ IF u # None /\ Checked(b, u)
       THEN /\ Goto(b, [req[b] EXCEPT !.pc = IF req[b].act = "patch" THEN "save" ELSE "act",
                                      !.user = u, !.over = cookie[b]])
            /\ UNCHANGED page
       ELSE Fails(b)
    /\ UNCHANGED <<session, cookie, as, others>>

Acts(b, act) == req[b].pc = "act" /\ req[b].act = act
Sessions(u) == {s \in SessionId : session[s] = u}

Logout(b) ==
    /\ Acts(b, "logout")
    /\ End(Sessions(req[b].user) \intersect {cookie[b]})
    /\ cookie' = [cookie EXCEPT ![b] = 0]
    /\ Show(b, LoginPage) /\ Answered(b)
    /\ UNCHANGED others

EndOthers(b) ==
    /\ Acts(b, "endOthers")
    /\ End(Sessions(req[b].user) \ {cookie[b]})
    /\ Answered(b)
    /\ UNCHANGED <<cookie, page, others>>

EndOne(b) ==
    /\ Acts(b, "endOne")
    /\ End(Sessions(req[b].user) \intersect {req[b].secret})
    /\ Answered(b)
    /\ UNCHANGED <<cookie, page, others>>

(* GET of the secret: the one that is set, or one that nobody stores.      *)
\* Seeded bug: the secret is stored before it is confirmed.
TotpSecretStored(b) ==
    LET u == req[b].user
        fresh == totp[u] = 0
    IN  /\ Acts(b, "secret") /\ (fresh => drawn.secrets < MaxSecrets)
        /\ drawn' = IF fresh THEN [drawn EXCEPT !.secrets = @ + 1] ELSE drawn
        /\ totp' = [totp EXCEPT ![u] = IF fresh THEN drawn'.secrets ELSE @]
        /\ Show(b, [page[b] EXCEPT !.qr = IF fresh THEN drawn'.secrets ELSE totp[u]])
        /\ Answered(b)
        /\ UNCHANGED <<scene, session, cookie, as, keys, challenge, scanned>>

TotpSecret(b) ==
    LET u == req[b].user
        fresh == totp[u] = 0
    IN  /\ Acts(b, "secret") /\ (fresh => drawn.secrets < MaxSecrets)
        /\ drawn' = IF fresh THEN [drawn EXCEPT !.secrets = @ + 1] ELSE drawn
        /\ Show(b, [page[b] EXCEPT !.qr = IF fresh THEN drawn'.secrets ELSE totp[u]])
        /\ Answered(b)
        /\ UNCHANGED <<scene, session, cookie, as, totp, keys, challenge, scanned>>

(* POST and DELETE of the secret: the code was compared with the secret in *)
(* the request, or with the one the middleware read.                       *)
SetTotp(b) ==
    LET secret == IF req[b].act = "enable" THEN req[b].secret ELSE 0 IN
    /\ req[b].pc = "act" /\ req[b].act \in {"enable", "disable"}
    /\ totp' = [totp EXCEPT ![req[b].user] = secret]
    /\ Show(b, [page[b] EXCEPT !.pin = "closed", !.totp = secret, !.user = req[b].user])
    /\ Answered(b)
    /\ UNCHANGED <<scene, session, cookie, as, keys, challenge, scanned, drawn>>

(* The options for a new passkey: the challenge that is cached, or a new   *)
(* one; the device makes a key with it.                                    *)
KeyOptions(b) ==
    LET u == req[b].user
        fresh == challenge[u] = 0
    IN  /\ Acts(b, "keyOptions") /\ (fresh => drawn.challenges < MaxChallenges)
        /\ drawn' = IF fresh THEN [drawn EXCEPT !.challenges = @ + 1] ELSE drawn
        /\ challenge' = [challenge EXCEPT ![u] = IF fresh THEN drawn'.challenges ELSE @]
        /\ Show(b, [page[b] EXCEPT !.made = challenge'[u]])
        /\ Answered(b)
        /\ UNCHANGED <<scene, session, cookie, as, totp, keys, scanned>>

Expire(u) ==
    /\ challenge[u] # 0
    /\ challenge' = [challenge EXCEPT ![u] = 0]
    /\ UNCHANGED <<scene, session, cookie, as, req, page, totp, keys, scanned, drawn>>

(* The challenge is taken from the cache, the key verified with it, and    *)
(* the row inserted.                                                       *)
TakeChallenge(b) ==
    LET u == req[b].user IN
    /\ Acts(b, "saveKey") /\ req[b].code = 0
    /\ challenge' = [challenge EXCEPT ![u] = 0]
    /\ IF challenge[u] # 0 /\ challenge[u] = req[b].key.challenge
       THEN Goto(b, [req[b] EXCEPT !.code = 1]) /\ UNCHANGED page
       ELSE Fails(b)
    /\ UNCHANGED <<scene, session, cookie, as, totp, keys, scanned, drawn>>

StoreKey(b) ==
    /\ Acts(b, "saveKey") /\ req[b].code = 1
    /\ keys' = [keys EXCEPT ![req[b].user] = @ \union {req[b].key}]
    /\ Show(b, [page[b] EXCEPT !.made = 0]) /\ Answered(b)
    /\ UNCHANGED <<scene, session, cookie, as, totp, challenge, scanned, drawn>>

DeleteKey(b) ==
    /\ Acts(b, "removeKey")
    /\ keys' = [keys EXCEPT ![req[b].user] = @ \ {req[b].key}]
    /\ Answered(b)
    /\ UNCHANGED <<scene, session, cookie, as, page, totp, challenge, scanned, drawn>>

(* The rate limiter, or a server that is not there.                        *)
Refused(b) ==
    /\ req[b].pc \in Begun
    /\ Fails(b)
    /\ UNCHANGED <<session, cookie, as, others>>

(* Where a bound of the model is reached, the request is refused as well.  *)
Bounded(b) ==
    /\ \/ req[b].pc = "save" /\ req[b].over = 0 /\ New = {}
       \/ Acts(b, "secret") /\ totp[req[b].user] = 0 /\ drawn.secrets = MaxSecrets
       \/ Acts(b, "keyOptions") /\ challenge[req[b].user] = 0 /\ drawn.challenges = MaxChallenges
    /\ Fails(b)
    /\ UNCHANGED <<session, cookie, as, others>>

-----------------------------------------------------------------------------
Serve(b) ==
    \/ Login(b) \/ Passkey(b) \/ UserMiddleware(b) \/ SaveSession(b)
    \/ Logout(b) \/ EndOthers(b) \/ EndOne(b)
    \/ TotpSecret(b) \/ SetTotp(b) \/ KeyOptions(b) \/ TakeChallenge(b) \/ StoreKey(b) \/ DeleteKey(b)
    \/ Bounded(b)

Use(b) ==
    \/ \E u \in User, right \in BOOLEAN : \E code \in {0} \union scanned[u] : SubmitLogin(b, u, right, code)
    \/ CancelCode(b) \/ Visit(b)
    \/ \E k \in Key : SubmitPasskey(b, k) \/ RemoveKey(b, k)
    \/ \E act \in {"patch", "logout", "endOthers", "keyOptions", "secret"} : Click(b, act)
    \/ \E s \in SessionId : EndSession(b, s)
    \/ SaveKey(b) \/ (\E open \in BOOLEAN : TotpOpen(b, open)) \/ Scan(b)
    \/ \E code \in Secret : HandlePinChange(b, code)

Next == (\E b \in Browser : Serve(b) \/ Use(b) \/ Refused(b)) \/ \E u \in User : Expire(u)

(* The server answers every request it has taken.                          *)
Fairness == \A b \in Browser : WF_vars(Serve(b))

Spec == Init /\ [][Next]_vars /\ Fairness

-----------------------------------------------------------------------------
(* A browser that was told it is signed in is signed in, as that account,  *)
(* until it signs out or its session is ended from another.                *)
SignedInAs == \A b \in Browser : as[b] # None => Owner(cookie[b]) = as[b]

(* A session that has been ended serves nobody again, whatever requests    *)
(* were under way when it was ended.                                       *)
EndedStays == [][\A s \in SessionId : session[s] = Ended => session'[s] = Ended]_vars

(* No account asks for codes of a secret that its owner does not have.     *)
NeverLockedOut == \A u \in User : totp[u] # 0 => totp[u] \in scanned[u]

(* A challenge makes one passkey, in however many tabs it was offered.     *)
OneKeyPerChallenge == \A u \in User : \A k, l \in keys[u] : k.challenge = l.challenge => k = l

(* What the runs without passkeys over an old cookie check together.       *)
AccountsSafe == SignedInAs /\ NeverLockedOut /\ OneKeyPerChallenge

(* Neither the login form nor the dialog for a code stays disabled.        *)
FormsSettle == \A b \in Browser :
    []<>(page[b].form # "busy" /\ page[b].pin # "busy")
=============================================================================
