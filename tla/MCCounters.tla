------------------------------ MODULE MCCounters ------------------------------
(***************************************************************************)
(* Counters compared with a limit before they are increased.  Views: a     *)
(* file and a URL, two requests beside the task, limits of one or two      *)
(* views, without and with owners who change them, on the Go server; a     *)
(* file and a URL, either behind a password or not, two requests of one    *)
(* browser, and the task on the TypeScript server.  Invites: both servers, *)
(* an invite of one or two uses, two requests and three names.             *)
(***************************************************************************)
EXTENDS Invites

CONSTANTS
    file, url, b1, o1, o2, task, NoItem,
    File, Url, Browser, Handler, Task, ViewLimits, DeleteOnMaxViews, MaxLost

VARIABLES
    instance, there, views, limit, peak, object, served, unseen, work,
    due, locked, asked, token, recent, job

goVars == <<peak, work>>
tsVars == <<due, locked, asked, token, recent, job>>
viewVars == <<there, views, limit, object, served, unseen, goVars, tsVars>>
allVars == <<vars, viewVars, instance>>

Items == File \union Url

Steady == INSTANCE ViewLimit WITH
    Item <- Items, Visitor <- Handler, Limits <- ViewLimits, lost <- unseen, Patching <- FALSE
Patched == INSTANCE ViewLimit WITH
    Item <- Items, Visitor <- Handler, Limits <- ViewLimits, lost <- unseen, Patching <- TRUE
Zipline == INSTANCE ReferenceViews WITH
    Visitor <- Browser, Request <- Handler, Limits <- ViewLimits, lost <- unseen

ASSUME Steady!ViewLimitAssumption /\ Patched!ViewLimitAssumption /\ Zipline!ReferenceViewsAssumption

SideBySide ==
    /\ instance \in {"steady", "patched", "zipline", "invites"}
    /\ Init /\ Steady!Init /\ Zipline!Init

(* What differs between the instances, and what each of them starts from.  *)
MCInit ==
    /\ SideBySide
    /\ IF instance = "zipline"
         THEN limit[file] = limit[url] /\ Cardinality(locked) <= IF limit[file] = 1 THEN 1 ELSE 0
         ELSE locked = {}
    /\ IF instance = "invites" THEN limit = [i \in Items |-> 1]
       ELSE server = "zipfast" /\ maxUses = [i \in Invite |-> 1]

MCNext ==
    /\ UNCHANGED instance
    /\ \/ instance = "steady" /\ Steady!Next /\ UNCHANGED <<vars, tsVars>>
       \/ instance = "patched" /\ Patched!Next /\ UNCHANGED <<vars, tsVars>>
       \/ instance = "zipline" /\ Zipline!Next /\ UNCHANGED <<vars, goVars>>
       \/ instance = "invites" /\ Next /\ UNCHANGED viewVars

MCSpec == MCInit /\ [][MCNext]_allVars /\ Fairness

(* A view limit is overshot by no more than the requests at once, less one.*)
OvershootBounded ==
    IF instance = "zipline" THEN Zipline!OvershootBounded ELSE Steady!OvershootBounded

(* As long as no limit is changed, what is removed for its views has had   *)
(* them, by a request or by the task, on whatever row it decided.          *)
OnlySpentRemoved ==
    [][/\ instance = "steady" => Steady!RemovesOnlySpent
       /\ instance = "zipline" => Zipline!RemovesOnlySpent]_viewVars
=============================================================================
