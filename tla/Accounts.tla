------------------------------ MODULE Accounts -------------------------------
(***************************************************************************)
(* Accounts in the TypeScript server: first setup, administration of users *)
(* by roles, and the ways to sign in an account has, a password and linked *)
(* OAuth identities.  Every handler reads first, checks what it read, and  *)
(* writes in a statement of its own; only the unique constraints on names  *)
(* and on identities are checked when it writes.                           *)
(***************************************************************************)
EXTENDS Naturals, FiniteSets

CONSTANTS
    User,           \* ids of accounts, each given once
    Name,           \* user names
    Identity,       \* accounts at OAuth providers
    Provider,
    ProviderOf,     \* the provider of an identity
    NameOf,         \* and the user name it reports
    Req,            \* requests at work at once
    None

(* What the constants are. *)
AccountsAssumption ==
    /\ ProviderOf \in [Identity -> Provider]
    /\ NameOf \in [Identity -> Name]
    /\ None \notin User \union Identity

VARIABLES
    firstSetup,     \* zipline.firstSetup
    account,        \* the users table
    condemned,      \* accounts whose deletion has begun
    req,            \* what each request is doing
    alone           \* no two requests concern one account at once

vars == <<firstSetup, account, condemned, req, alone>>

Roles == {"USER", "ADMIN", "SUPERADMIN"}
Steps == {"root", "mark", "insert", "patch", "dropLinks", "remove", "self",
          "session", "link", "relink", "signup", "password", "unlink"}
Idle == [pc |-> "idle"]
Nobody == [here |-> FALSE, name |-> None, role |-> "USER", password |-> FALSE, links |-> {}]

TypeOK ==
    /\ firstSetup \in BOOLEAN /\ alone \in BOOLEAN
    /\ account \in [User -> [here: BOOLEAN, name: Name \union {None}, role: Roles,
                             password: BOOLEAN, links: SUBSET Identity]]
    /\ condemned \subseteq User
    /\ \A r \in Req : req[r] = Idle \/ req[r].pc \in Steps

Init ==
    /\ firstSetup = TRUE
    /\ account = [u \in User |-> Nobody]
    /\ condemned = {}
    /\ req = [r \in Req |-> Idle]
    /\ alone \in BOOLEAN

Here == {u \in User : account[u].here}
NameTaken(n) == \E u \in Here : account[u].name = n
Owner(i) == {u \in Here : i \in account[u].links}
OfProvider(links, p) == {i \in links : ProviderOf[i] = p}

CanInteract(current, target) ==
    \/ current = "SUPERADMIN" /\ target \in {"USER", "ADMIN"}
    \/ current = "ADMIN" /\ target = "USER"

(* The accounts a request reads and writes.                                *)
Concerns(q) == IF q = Idle THEN {} ELSE {q.by, q.on} \ {None}

(* Request r, made by account by and about account on, gets to a step.     *)
Start(r, q) ==
    /\ req[r] = Idle
    /\ alone => \A s \in Req : Concerns(req[s]) \intersect Concerns(q) = {}
    /\ req' = [req EXCEPT ![r] = q]

Request(pc, by, on) ==
    [pc |-> pc, by |-> by, on |-> on, name |-> None, role |-> "USER", ident |-> None,
     seen |-> {}, owner |-> {}, taken |-> FALSE]

Goto(r, pc) == req' = [req EXCEPT ![r].pc = pc]
Finish(r) == req' = [req EXCEPT ![r] = Idle]
Free(u) == ~account[u].here /\ u \notin condemned
Update(u, row) == account' = [account EXCEPT ![u] = row]

-----------------------------------------------------------------------------
(* First setup: the flag is read, the SUPERADMIN created, the flag cleared. *)
Setup(r, n) ==
    /\ firstSetup
    /\ Start(r, [Request("root", None, None) EXCEPT !.name = n])
    /\ UNCHANGED <<firstSetup, account, condemned, alone>>

CreateRoot(r, u) ==
    /\ req[r].pc = "root"
    /\ Free(u) /\ ~NameTaken(req[r].name)
    /\ Update(u, [here |-> TRUE, name |-> req[r].name, role |-> "SUPERADMIN",
                  password |-> TRUE, links |-> {}])
    /\ Goto(r, "mark")
    /\ UNCHANGED <<firstSetup, condemned, alone>>

MarkSetup(r) ==
    /\ req[r].pc = "mark"
    /\ firstSetup' = FALSE
    /\ Finish(r)
    /\ UNCHANGED <<account, condemned, alone>>

-----------------------------------------------------------------------------
(* Administration.  The role of the account in question is read, and what  *)
(* is written later is found by id.                                        *)
CreateUser(r, a, n, role) ==
    /\ a \in Here /\ account[a].role # "USER"
    /\ ~NameTaken(n)
    /\ CanInteract(account[a].role, role)
    /\ Start(r, [Request("insert", a, None) EXCEPT !.name = n, !.role = role])
    /\ UNCHANGED <<firstSetup, account, condemned, alone>>

InsertUser(r, u) ==
    /\ req[r].pc = "insert"
    /\ Free(u) /\ ~NameTaken(req[r].name)
    /\ Update(u, [here |-> TRUE, name |-> req[r].name, role |-> req[r].role,
                  password |-> TRUE, links |-> {}])
    /\ Finish(r)
    /\ UNCHANGED <<firstSetup, condemned, alone>>

PatchUser(r, a, u, role) ==
    /\ {a, u} \subseteq Here /\ account[a].role # "USER"
    /\ CanInteract(account[a].role, account[u].role)
    /\ CanInteract(account[a].role, role)
    /\ Start(r, [Request("patch", a, u) EXCEPT !.role = role])
    /\ UNCHANGED <<firstSetup, account, condemned, alone>>

(* With or without a new password.                                         *)
UpdateUser(r) ==
    /\ req[r].pc = "patch"
    /\ LET u == req[r].on IN
        /\ u \in Here
        /\ \E set \in BOOLEAN :
              Update(u, [account[u] EXCEPT !.role = req[r].role, !.password = @ \/ set])
    /\ Finish(r)
    /\ UNCHANGED <<firstSetup, condemned, alone>>

(* The files of the account, which it may take with it, are left to        *)
(* ReferenceFiles.                                                         *)
DeleteUser(r, a, u) ==
    /\ {a, u} \subseteq Here /\ a # u /\ account[a].role # "USER"
    /\ CanInteract(account[a].role, account[u].role)
    /\ Start(r, Request("dropLinks", a, u))
    /\ UNCHANGED <<firstSetup, account, condemned, alone>>

DropLinks(r) ==
    /\ req[r].pc = "dropLinks"
    /\ account' = [account EXCEPT ![req[r].on].links = {}]
    /\ condemned' = condemned \union {req[r].on}
    /\ Goto(r, "remove")
    /\ UNCHANGED <<firstSetup, alone>>

RemoveUser(r) ==
    /\ req[r].pc = "remove"
    /\ Update(req[r].on, Nobody)
    /\ Finish(r)
    /\ UNCHANGED <<firstSetup, condemned, alone>>

-----------------------------------------------------------------------------
(* An account changes its own name or password. *)
PatchSelf(r, u, n) ==
    /\ u \in Here
    /\ n # None => ~NameTaken(n)
    /\ Start(r, [Request("self", u, None) EXCEPT !.name = n])
    /\ UNCHANGED <<firstSetup, account, condemned, alone>>

UpdateSelf(r) ==
    /\ req[r].pc = "self"
    /\ LET u == req[r].by IN
        /\ u \in Here
        /\ req[r].name # None => ~NameTaken(req[r].name)
        /\ \E set \in BOOLEAN :
              Update(u, [account[u] EXCEPT !.password = @ \/ set,
                                           !.name = IF req[r].name = None THEN @ ELSE req[r].name])
    /\ Finish(r)
    /\ UNCHANGED <<firstSetup, condemned, alone>>

-----------------------------------------------------------------------------
(* The callback of a provider, in a browser signed in as by or in one that *)
(* is not.  The row of the identity and a user with the name it reports    *)
(* are looked up ...                                                       *)
Callback(r, i, by) ==
    /\ by \in Here \union {None}
    /\ Start(r, [Request("session", by, None) EXCEPT
                    !.ident = i, !.owner = Owner(i), !.taken = NameTaken(NameOf[i])])
    /\ UNCHANGED <<firstSetup, account, condemned, alone>>

(* ... then the account of the session with its links, and one of five     *)
(* ways is taken.  A sign-in with an identity that is linked only updates  *)
(* the tokens in its row.                                                  *)
ReadSession(r) ==
    /\ req[r].pc = "session"
    /\ LET u == IF req[r].by \in Here THEN req[r].by ELSE None
           linked == IF u = None THEN {}
                     ELSE OfProvider(account[u].links, ProviderOf[req[r].ident])
           signIn ==
               CASE linked # {}        -> {"relink"}
                 [] req[r].owner # {}  -> {"idle"}
                 [] OTHER              -> IF req[r].taken THEN {"idle"} ELSE {"idle", "signup"}
       IN \E pc \in (IF u # None /\ linked = {} THEN {"link"} ELSE {}) \union signIn :
              req' = [req EXCEPT ![r] = IF pc = "idle" THEN Idle
                                        ELSE [@ EXCEPT !.pc = pc, !.seen = linked,
                                                       !.owner = {}, !.taken = FALSE]]
    /\ UNCHANGED <<firstSetup, account, condemned, alone>>

Link(r) ==
    /\ req[r].pc = "link"
    /\ LET u == req[r].by IN
        /\ u \in Here /\ Owner(req[r].ident) = {}
        /\ Update(u, [account[u] EXCEPT !.links = @ \union {req[r].ident}])
    /\ Finish(r)
    /\ UNCHANGED <<firstSetup, condemned, alone>>

(* The row of the provider the account had is given the new identity.      *)
Relink(r) ==
    /\ req[r].pc = "relink"
    /\ LET u == req[r].by
           i == req[r].ident
       IN /\ u \in Here /\ Owner(i) \subseteq {u}
          /\ \E old \in req[r].seen \intersect account[u].links :
                /\ i \in account[u].links => old = i
                /\ Update(u, [account[u] EXCEPT !.links = (@ \ {old}) \union {i}])
    /\ Finish(r)
    /\ UNCHANGED <<firstSetup, condemned, alone>>

SignUp(r, u) ==
    /\ req[r].pc = "signup"
    /\ LET i == req[r].ident IN
        /\ Free(u) /\ ~NameTaken(NameOf[i]) /\ Owner(i) = {}
        /\ Update(u, [here |-> TRUE, name |-> NameOf[i], role |-> "USER",
                      password |-> FALSE, links |-> {i}])
    /\ Finish(r)
    /\ UNCHANGED <<firstSetup, condemned, alone>>

-----------------------------------------------------------------------------
(* "enforcing that at least one login method remains": the links are those *)
(* the middleware read, the password is read after it, and the deletion    *)
(* takes every row of the provider.                                        *)
Unlink(r, u, p) ==
    /\ u \in Here
    /\ Start(r, [Request("password", u, None) EXCEPT
                    !.name = p, !.seen = account[u].links])
    /\ UNCHANGED <<firstSetup, account, condemned, alone>>

(* Seeded bug: the last link of an account without a password may go. *)
ReadPasswordLax(r) ==
    /\ req[r].pc = "password"
    /\ IF req[r].by \in Here /\ req[r].seen # {} THEN Goto(r, "unlink") ELSE Finish(r)
    /\ UNCHANGED <<firstSetup, account, condemned, alone>>

ReadPassword(r) ==
    /\ req[r].pc = "password"
    /\ LET u == req[r].by
           may == /\ u \in Here /\ req[r].seen # {}
                  /\ Cardinality(req[r].seen) > 1 \/ account[u].password
       IN IF may THEN req' = [req EXCEPT ![r].pc = "unlink", ![r].seen = {}] ELSE Finish(r)
    /\ UNCHANGED <<firstSetup, account, condemned, alone>>

DeleteLinks(r) ==
    /\ req[r].pc = "unlink"
    /\ LET u == req[r].by IN
        /\ u \in Here
        /\ Update(u, [account[u] EXCEPT !.links = @ \ OfProvider(@, req[r].name)])
    /\ Finish(r)
    /\ UNCHANGED <<firstSetup, condemned, alone>>

(* A constraint, a row that is gone or a failing database ends a request,  *)
(* and a crash of the process ends all of them, one after the other here.  *)
Fail(r) ==
    /\ req[r] # Idle
    /\ Finish(r)
    /\ UNCHANGED <<firstSetup, account, condemned, alone>>

Handle(r) ==
    \/ \E n \in Name : Setup(r, n)
    \/ \E u \in User : CreateRoot(r, u) \/ InsertUser(r, u) \/ SignUp(r, u)
    \/ MarkSetup(r)
    \/ \E a \in User, n \in Name, role \in Roles : CreateUser(r, a, n, role)
    \/ \E a, u \in User, role \in Roles : PatchUser(r, a, u, role)
    \/ \E a, u \in User : DeleteUser(r, a, u)
    \/ UpdateUser(r) \/ DropLinks(r) \/ RemoveUser(r)
    \/ \E u \in User, n \in Name \union {None} : PatchSelf(r, u, n)
    \/ UpdateSelf(r)
    \/ \E i \in Identity, by \in User \union {None} : Callback(r, i, by)
    \/ ReadSession(r) \/ Link(r) \/ Relink(r)
    \/ \E u \in User, p \in Provider : Unlink(r, u, p)
    \/ ReadPassword(r) \/ DeleteLinks(r) \/ Fail(r)

Next == \E r \in Req : Handle(r)

Spec == Init /\ [][Next]_vars

-----------------------------------------------------------------------------
(* As long as no two requests concern an account at once, it keeps a way   *)
(* to sign in until its deletion begins, whatever is linked, linked anew   *)
(* and unlinked.  (Two at once can take both its links away, or link two   *)
(* identities of one provider, which unlinking then removes together.)     *)
LoginMethodKept == alone => \A u \in Here \ condemned :
    account[u].password \/ account[u].links # {}

(* Nobody demotes or deletes a SUPERADMIN, although roles are checked on   *)
(* what was read: no other account can come to be one.                     *)
SuperadminStays == \A u \in User :
    account[u].here /\ account[u].role = "SUPERADMIN"
        => account'[u].here /\ account'[u].role = "SUPERADMIN"
=============================================================================
