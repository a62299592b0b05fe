------------------------------- MODULE Invites -------------------------------
(***************************************************************************)
(* Registration with an invite, in the two servers of the repository: the  *)
(* Go server ("zipfast") and the TypeScript server it was ported from      *)
(* ("zipline").  Both compare the uses of the invite with its limit first. *)
(* zipfast creates the account and then adds one to the uses; zipline      *)
(* first writes back the uses it read plus one and then creates it.        *)
(***************************************************************************)
EXTENDS Naturals, FiniteSets

CONSTANTS
    Servers,    \* the servers considered
    Invite,     \* ids of invites, each issued once
    Name,       \* user names
    Reg,        \* requests to register, at work at once
    Limits,     \* values of max_uses; 0 is no limit
    NoInvite

ASSUME InvitesAssumption ==
    /\ Servers \subseteq {"zipfast", "zipline"}
    /\ IsFiniteSet(Reg) /\ Reg # {}
    /\ Limits \subseteq Nat
    /\ NoInvite \notin Invite

VARIABLES
    server,     \* the one that runs
    issued,     \* invites ever created
    row,        \* those that have a row
    uses,       \* uses in the row
    maxUses,    \* max_uses in the row
    expired,    \* invites whose expiry has passed
    revoked,    \* invites an administrator deleted
    accounts,   \* names that have an account
    via,        \* accounts created with the invite
    lost,       \* how many of them were never counted (zipfast)
    stale,      \* invites whose uses were written over newer ones (zipline)
    reg,        \* what each request is doing
    sweep       \* what clearInvites is doing, and the invites it selected

tally == <<uses, via, lost, stale>>
vars == <<server, issued, row, maxUses, expired, revoked, accounts, tally, reg, sweep>>

Steps == {"invite", "claim", "create", "count"}
Idle == [pc |-> "idle"]
Busy == [pc: Steps, name: Name, invite: Invite \union {NoInvite}, uses: Nat]

TypeOK ==
    /\ server \in Servers
    /\ row \subseteq issued /\ issued \subseteq Invite
    /\ expired \subseteq issued /\ revoked \subseteq issued /\ stale \subseteq Invite
    /\ uses \in [Invite -> Nat]
    /\ maxUses \in [Invite -> Limits]
    /\ accounts \subseteq Name
    /\ via \in [Invite -> Nat]
    /\ lost \in [Invite -> Nat]
    /\ reg \in [Reg -> Busy \union {Idle}]
    /\ sweep \in [pc: {"idle", "used", "delete"}, found: SUBSET Invite]

Init ==
    /\ server \in Servers
    /\ issued = {} /\ row = {} /\ expired = {} /\ revoked = {} /\ stale = {}
    /\ uses = [i \in Invite |-> 0]
    /\ maxUses \in [Invite -> Limits]
    /\ accounts = {}
    /\ via = [i \in Invite |-> 0]
    /\ lost = [i \in Invite |-> 0]
    /\ reg = [r \in Reg |-> Idle]
    /\ sweep = [pc |-> "idle", found |-> {}]

Goto(r, pc) == reg' = [reg EXCEPT ![r].pc = pc]
Finish(r) == reg' = [reg EXCEPT ![r] = Idle]

Below(i) == maxUses[i] = 0 \/ uses[i] < maxUses[i]
Used(i) == ~Below(i)
Spent(i) == i \in expired \/ Used(i)

-----------------------------------------------------------------------------
(* Administrators create and delete invites; time passes. *)
CreateInvite(i) ==
    /\ i \notin issued
    /\ issued' = issued \union {i}
    /\ row' = row \union {i}
    /\ UNCHANGED <<server, maxUses, expired, revoked, accounts, tally, reg, sweep>>

DeleteInvite(i) ==
    /\ i \in row
    /\ row' = row \ {i}
    /\ revoked' = revoked \union {i}
    /\ UNCHANGED <<server, issued, maxUses, expired, accounts, tally, reg, sweep>>

Expire(i) ==
    /\ i \in row \ expired
    /\ expired' = expired \union {i}
    /\ UNCHANGED <<server, issued, row, maxUses, revoked, accounts, tally, reg, sweep>>

-----------------------------------------------------------------------------
(* The name is looked up first; whether invites and open registration are  *)
(* enabled was checked before, and a request that is refused has no step.  *)
Register(r, n, i) ==
    /\ reg[r] = Idle
    /\ n \notin accounts
    /\ reg' = [reg EXCEPT ![r] =
                  [pc |-> IF i = NoInvite THEN "create" ELSE "invite",
                   name |-> n, invite |-> i, uses |-> 0]]
    /\ UNCHANGED <<server, issued, row, maxUses, expired, revoked, accounts, tally, sweep>>

(* Seeded bug: the comparison admits a request at the limit. *)
AtMost(i) == maxUses[i] = 0 \/ uses[i] <= maxUses[i]

(* Seeded bug: an invite at its limit is still consumable. *)
ConsumableAtLimit(i) == i \in row \ expired /\ AtMost(i)

(* An invite is consumable while it is below its limit and not expired.    *)
Consumable(i) == i \in row \ expired /\ Below(i)

ReadInvite(r) ==
    /\ reg[r].pc = "invite"
    /\ IF Consumable(reg[r].invite)
       THEN reg' = [reg EXCEPT ![r].pc = IF server = "zipline" THEN "claim" ELSE "create",
                               ![r].uses = uses[reg[r].invite]]
       ELSE Finish(r)
    /\ UNCHANGED <<server, issued, row, maxUses, expired, revoked, accounts, tally, sweep>>

(* zipline: uses: invite.uses + 1, from the row read before; an invite     *)
(* that is gone ends the request.                                          *)
ClaimUse(r) ==
    /\ reg[r].pc = "claim"
    /\ LET i == reg[r].invite IN
        IF i \in row
        THEN /\ uses' = [uses EXCEPT ![i] = reg[r].uses + 1]
             /\ stale' = IF uses[i] = reg[r].uses THEN stale ELSE stale \union {i}
             /\ Goto(r, "create")
        ELSE Finish(r) /\ UNCHANGED <<uses, stale>>
    /\ UNCHANGED <<server, issued, row, maxUses, expired, revoked, accounts, via, lost, sweep>>

(* The unique constraint on names decides between two requests.            *)
CreateUser(r) ==
    /\ reg[r].pc = "create"
    /\ reg[r].name \notin accounts
    /\ LET i == reg[r].invite IN
        /\ accounts' = accounts \union {reg[r].name}
        /\ via' = IF i = NoInvite THEN via ELSE [via EXCEPT ![i] = @ + 1]
        /\ IF i # NoInvite /\ server = "zipfast" THEN Goto(r, "count") ELSE Finish(r)
    /\ UNCHANGED <<server, issued, row, maxUses, expired, revoked, uses, lost, stale, sweep>>

(* The name was taken meanwhile, or the database fails in any step before  *)
(* the account exists: the request ends, and a claimed use stays claimed.  *)
RegisterFails(r) ==
    /\ reg[r].pc \in {"invite", "claim", "create"}
    /\ Finish(r)
    /\ UNCHANGED <<server, issued, row, maxUses, expired, revoked, accounts, tally, sweep>>

(* Seeded bug: the uses are written back from the row read before. *)
CountStale(r) ==
    /\ reg[r].pc = "count"
    /\ uses' = IF reg[r].invite \in row
               THEN [uses EXCEPT ![reg[r].invite] = reg[r].uses + 1] ELSE uses
    /\ Finish(r)
    /\ UNCHANGED <<server, issued, row, maxUses, expired, revoked, accounts, via, lost, stale, sweep>>

(* zipfast: UPDATE invites SET uses = uses + 1, which may find no row.     *)
CountUse(r) ==
    /\ reg[r].pc = "count"
    /\ uses' = IF reg[r].invite \in row THEN [uses EXCEPT ![reg[r].invite] = @ + 1] ELSE uses
    /\ Finish(r)
    /\ UNCHANGED <<server, issued, row, maxUses, expired, revoked, accounts, via, lost, stale, sweep>>

(* "the account already exists, so a failed increment should not fail the  *)
(* request": the account stays uncounted, as when the process dies here.   *)
CountFails(r) ==
    /\ reg[r].pc = "count"
    /\ lost' = [lost EXCEPT ![reg[r].invite] = @ + 1]
    /\ Finish(r)
    /\ UNCHANGED <<server, issued, row, maxUses, expired, revoked, accounts, uses, via, stale, sweep>>

-----------------------------------------------------------------------------
(* Seeded bug: used invites are left. *)
SweepExpiredOnly ==
    /\ server = "zipfast"
    /\ row' = row \ expired
    /\ UNCHANGED <<server, issued, maxUses, expired, revoked, accounts, tally, reg, sweep>>

(* clearInvites is one DELETE in zipfast ... *)
SweepAtOnce ==
    /\ server = "zipfast"
    /\ row' = {i \in row : ~Spent(i)}
    /\ UNCHANGED <<server, issued, maxUses, expired, revoked, accounts, tally, reg, sweep>>

(* ... and three statements in zipline: two selections, and a deletion of  *)
(* what they found by id.                                                  *)
SelectExpired ==
    /\ server = "zipline"
    /\ sweep.pc = "idle"
    /\ sweep' = [pc |-> "used", found |-> row \intersect expired]
    /\ UNCHANGED <<server, issued, row, maxUses, expired, revoked, accounts, tally, reg>>

SelectUsed ==
    /\ sweep.pc = "used"
    /\ sweep' = [pc |-> "delete", found |-> sweep.found \union {i \in row : Used(i)}]
    /\ UNCHANGED <<server, issued, row, maxUses, expired, revoked, accounts, tally, reg>>

DeleteSelected ==
    /\ sweep.pc = "delete"
    /\ row' = row \ sweep.found
    /\ sweep' = [pc |-> "idle", found |-> {}]
    /\ UNCHANGED <<server, issued, maxUses, expired, revoked, accounts, tally, reg>>

SweepStep == SweepAtOnce \/ SelectExpired \/ SelectUsed \/ DeleteSelected

(* A statement of the task fails: it is over until the next tick.          *)
SweepFails ==
    /\ sweep.pc # "idle"
    /\ sweep' = [pc |-> "idle", found |-> {}]
    /\ UNCHANGED <<server, issued, row, maxUses, expired, revoked, accounts, tally, reg>>

Next ==
    \/ \E i \in Invite : CreateInvite(i) \/ DeleteInvite(i) \/ Expire(i)
    \/ \E r \in Reg, n \in Name, i \in Invite \union {NoInvite} : Register(r, n, i)
    \/ \E r \in Reg : ReadInvite(r) \/ ClaimUse(r) \/ CreateUser(r) \/ RegisterFails(r)
    \/ \E r \in Reg : CountUse(r) \/ CountFails(r)
    \/ SweepStep \/ SweepFails

Spec == Init /\ [][Next]_vars

(* The task runs at every tick, in one goroutine or one timer, and no      *)
(* statement of it fails every time.                                       *)
Fairness == /\ WF_vars(SweepAtOnce) /\ WF_vars(SelectExpired)
            /\ SF_vars(SelectUsed) /\ SF_vars(DeleteSelected)

FairSpec == Spec /\ Fairness

-----------------------------------------------------------------------------
(* Requests that have passed the check and not yet created their account.  *)
Admitted(i) == {r \in Reg : reg[r].pc \in {"claim", "create"} /\ reg[r].invite = i}
Claimed(i) == {r \in Reg : reg[r].pc = "create" /\ reg[r].invite = i}
Uncounted(i) == {r \in Reg : reg[r].pc = "count" /\ reg[r].invite = i}

(* An invite lets no more accounts be created than its limit, the requests *)
(* at work at once beside the last of them, and the counts that failed     *)
(* (auth_routes.go: "Consume the invite only after the user is created").  *)
(* In zipline, where the use is claimed first, it lets no more be created  *)
(* than its limit as long as no claim was written over a newer one.        *)
InviteOvershootBounded == \A i \in issued : maxUses[i] > 0 =>
    /\ server = "zipfast" => via[i] + 1 <= maxUses[i] + Cardinality(Reg) + lost[i]
    /\ server = "zipline" /\ i \notin stale => via[i] <= maxUses[i]

(* The uses of an invite are the accounts created with it: zipfast misses  *)
(* only those about to be counted or lost, and zipline, without writes     *)
(* over newer ones, has counted every account before it exists.            *)
UsesAreAccounts == \A i \in row :
    /\ server = "zipfast" => via[i] = uses[i] + Cardinality(Uncounted(i)) + lost[i]
    /\ server = "zipline" /\ i \notin stale => via[i] + Cardinality(Claimed(i)) <= uses[i]

(* An invite that is used up or has expired is removed in the end, unless  *)
(* a stale claim makes it usable again.                                    *)
EventuallySwept == \A i \in Invite : []<>(i \notin row \/ ~Spent(i))
=============================================================================
