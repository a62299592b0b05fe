----------------------------- MODULE MCReference -----------------------------
(***************************************************************************)
(* The TypeScript server: its files and its accounts side by side; the     *)
(* first step of a behaviour chooses one.                                  *)
(***************************************************************************)
EXTENDS ReferenceFiles, TLC

CONSTANTS
    a, b, o1, o2, u1, u2, google, discord, g1, g2, d1, n1, n2, r1, r2, None,
    User, UserName, Identity, Provider, ProviderOf, NameOf, Req

VARIABLES part, firstSetup, account, condemnedUsers, req, alone

accountVars == <<firstSetup, account, condemnedUsers, req, alone>>

(* Two accounts and two requests.  Where requests leave each other alone   *)
(* there are three identities of two providers; where they do not, one.    *)
MCProviderOf == (g1 :> google) @@ (g2 :> google) @@ (d1 :> discord)
MCNameOf == (g1 :> n1) @@ (g2 :> n2) @@ (d1 :> n1)

Spread == INSTANCE Accounts WITH Name <- UserName, condemned <- condemnedUsers

Crowded == INSTANCE Accounts WITH
    Name <- UserName, condemned <- condemnedUsers,
    Identity <- {g1}, ProviderOf <- (g1 :> google), NameOf <- (g1 :> n1)

ASSUME Spread!AccountsAssumption /\ Crowded!AccountsAssumption

MCInit ==
    /\ part \in {"files", "accounts"}
    /\ Init /\ Spread!Init
    /\ part = "files" => alone
    /\ part = "accounts" => datasource = "local"

MCNext ==
    /\ UNCHANGED part
    /\ \/ part = "files" /\ Next /\ UNCHANGED accountVars
       \/ part = "accounts" /\ alone /\ Spread!Next /\ UNCHANGED vars
       \/ part = "accounts" /\ ~alone /\ Crowded!Next /\ UNCHANGED vars

MCSpec == MCInit /\ [][MCNext]_<<part, vars, accountVars>>

(* Interchanging names together with accounts, and requests with requests, *)
(* is enough: each part concerns one of them.                              *)
Swap(w, x, y, z) == (w :> x) @@ (x :> w) @@ (y :> z) @@ (z :> y)

Symmetry == Permutations(File) \union {Swap(a, b, u1, u2), Swap(o1, o2, r1, r2)}

(* As long as no two requests concern an account at once, it keeps a way   *)
(* to sign in until its deletion begins; and nobody demotes or deletes a   *)
(* SUPERADMIN, although roles are checked on what was read.                *)
AccountsKept == [](Spread!TypeOK /\ Spread!LoginMethodKept) /\ [][Spread!SuperadminStays]_accountVars
=============================================================================
