------------------------------ MODULE ViewLimit ------------------------------
(***************************************************************************)
(* Views and their limit.  A request for a file or a short URL reads the   *)
(* row, compares the views it read with max_views, and only later adds its *)
(* own view; at the limit it removes the item instead.  The maxViews task  *)
(* removes the items it finds at their limit, and the owner may change the *)
(* limit at any time.                                                      *)
(***************************************************************************)
EXTENDS Naturals, FiniteSets

CONSTANTS
    Item,       \* files and short URLs that have a max_views
    File,       \* those that are files, with an object in the datasource
    Visitor,    \* goroutines serving requests
    Task,       \* the maxViews task, at work on one of its targets
    Limits,     \* values of max_views
    Patching,   \* whether owners change limits
    DeleteOnMaxViews,
    MaxLost,    \* how many updates of a view counter may fail
    NoItem

Op == Visitor \union Task

ViewLimitAssumption ==
    /\ File \subseteq Item
    /\ Limits \subseteq Nat
    /\ Visitor \intersect Task = {}
    /\ IsFiniteSet(Visitor) /\ Visitor # {}
    /\ Patching \in BOOLEAN
    /\ DeleteOnMaxViews \in BOOLEAN
    /\ MaxLost \in Nat
    /\ NoItem \notin Item

VARIABLES
    there,      \* items that have a row
    views,      \* views in the row
    limit,      \* max_views in the row
    peak,       \* the highest limit the item has had
    object,     \* files that have an object
    served,     \* visits answered with the content and meant to count
    lost,       \* how many of them could not be counted
    work        \* what each goroutine is doing: a step, and an item

vars == <<there, views, limit, peak, object, served, lost, work>>

Steps == {"open", "count", "dropObj", "dropRow"}
Idle == [pc |-> "idle", item |-> NoItem, views |-> 0]

TypeOK ==
    /\ there \subseteq Item
    /\ views \in [Item -> Nat]
    /\ limit \in [Item -> Limits]
    /\ peak \in [Item -> Limits]
    /\ object \subseteq File
    /\ served \in [Item -> Nat]
    /\ lost \in [Item -> 0..MaxLost]
    /\ work \in [Op -> [pc: Steps, item: Item, views: Nat] \union {Idle}]

Init ==
    /\ there = Item
    /\ views = [i \in Item |-> 0]
    /\ limit \in [Item -> Limits]
    /\ peak = limit
    /\ object = File
    /\ served = [i \in Item |-> 0]
    /\ lost = [i \in Item |-> 0]
    /\ work = [o \in Op |-> Idle]

(* Goroutine o turns to item i, with the views it read.                    *)
Goes(o, pc, i) == work' = [work EXCEPT ![o] = [pc |-> pc, item |-> i, views |-> views[i]]]
Goto(o, pc) == work' = [work EXCEPT ![o].pc = pc]
Finish(o) == work' = [work EXCEPT ![o] = Idle]

FirstDrop(i) == IF i \in File THEN "dropObj" ELSE "dropRow"

-----------------------------------------------------------------------------
(* A request finds the item below its limit. *)
Admit(o, i) ==
    /\ work[o] = Idle
    /\ i \in there
    /\ views[i] < limit[i]
    /\ Goes(o, IF i \in File THEN "open" ELSE "count", i)
    /\ UNCHANGED <<there, views, limit, peak, object, served, lost>>

(* Seeded bug: the view about to be counted is held against the item. *)
RefuseEarly(o, i) ==
    /\ DeleteOnMaxViews
    /\ work[o] = Idle
    /\ i \in there
    /\ views[i] + 1 >= limit[i]
    /\ Goes(o, FirstDrop(i), i)
    /\ UNCHANGED <<there, views, limit, peak, object, served, lost>>

(* A request finds the item at its limit, answers 410 and removes it.      *)
Refuse(o, i) ==
    /\ DeleteOnMaxViews
    /\ work[o] = Idle
    /\ i \in there
    /\ views[i] >= limit[i]
    /\ Goes(o, FirstDrop(i), i)
    /\ UNCHANGED <<there, views, limit, peak, object, served, lost>>

(* Datasource.Get: a file whose object is gone is not found.               *)
Open(o) ==
    /\ work[o].pc = "open"
    /\ IF work[o].item \in object THEN Goto(o, "count") ELSE Finish(o)
    /\ UNCHANGED <<there, views, limit, peak, object, served, lost>>

(* Seeded bug: the counter is written back from the row read before. *)
CountStale(o) ==
    /\ work[o].pc = "count"
    /\ LET i == work[o].item IN
        /\ views' = IF i \in there THEN [views EXCEPT ![i] = work[o].views + 1] ELSE views
        /\ served' = [served EXCEPT ![i] = @ + 1]
    /\ Finish(o)
    /\ UNCHANGED <<there, limit, peak, object, lost>>

(* UPDATE ... SET views = views + 1, then the content is sent.             *)
Count(o) ==
    /\ work[o].pc = "count"
    /\ LET i == work[o].item IN
        /\ views' = IF i \in there THEN [views EXCEPT ![i] = @ + 1] ELSE views
        /\ served' = [served EXCEPT ![i] = @ + 1]
    /\ Finish(o)
    /\ UNCHANGED <<there, limit, peak, object, lost>>

(* "Counting failures are non-fatal."                                      *)
CountFails(o) ==
    /\ work[o].pc = "count"
    /\ LET i == work[o].item IN
        /\ lost[i] < MaxLost
        /\ served' = [served EXCEPT ![i] = @ + 1]
        /\ lost' = [lost EXCEPT ![i] = @ + 1]
    /\ Finish(o)
    /\ UNCHANGED <<there, views, limit, peak, object>>

DropObject(o) ==
    /\ work[o].pc = "dropObj"
    /\ object' = object \ {work[o].item}
    /\ Goto(o, "dropRow")
    /\ UNCHANGED <<there, views, limit, peak, served, lost>>

DropRow(o) ==
    /\ work[o].pc = "dropRow"
    /\ there' = there \ {work[o].item}
    /\ Finish(o)
    /\ UNCHANGED <<views, limit, peak, object, served, lost>>

-----------------------------------------------------------------------------
(* The task selects files at their limit and removes each in two steps ... *)
SweepFile(t, i) ==
    /\ DeleteOnMaxViews
    /\ work[t] = Idle
    /\ i \in File \intersect there
    /\ views[i] >= limit[i]
    /\ Goes(t, "dropObj", i)
    /\ UNCHANGED <<there, views, limit, peak, object, served, lost>>

(* ... and URLs in a single statement.                                     *)
SweepURLs ==
    /\ DeleteOnMaxViews /\ Task # {}
    /\ there' = there \ {i \in Item \ File : views[i] >= limit[i]}
    /\ UNCHANGED <<views, limit, peak, object, served, lost, work>>

(* PATCH of the file or the URL. *)
PatchLimit(i, l) ==
    /\ Patching
    /\ i \in there
    /\ limit' = [limit EXCEPT ![i] = l]
    /\ peak' = [peak EXCEPT ![i] = IF l > @ THEN l ELSE @]
    /\ UNCHANGED <<there, views, object, served, lost, work>>

Next ==
    \/ \E o \in Visitor, i \in Item : Admit(o, i) \/ Refuse(o, i)
    \/ \E o \in Visitor : Open(o) \/ Count(o) \/ CountFails(o)
    \/ \E o \in Op : DropObject(o) \/ DropRow(o)
    \/ \E t \in Task, i \in Item : SweepFile(t, i)
    \/ SweepURLs
    \/ \E i \in Item, l \in Limits : PatchLimit(i, l)

Spec == Init /\ [][Next]_vars

-----------------------------------------------------------------------------
(* An item's limit is overshot by no more than the requests that were      *)
(* under way together, less the one entitled to the last view, and those   *)
(* whose view could not be counted.  (The limit is tested on the row as it *)
(* was read; the counter is incremented in the database.)                  *)
OvershootBounded == \A i \in Item :
    served[i] + 1 <= peak[i] + Cardinality(Visitor) + lost[i]

(* What is removed for its views has had them: neither row nor object of   *)
(* an item goes while it is below its limit.  ("deletes files and URLs     *)
(* that have reached their max_views limit", tasks.go)                     *)
RemovesOnlySpent == \A i \in Item :
    (i \in there \ there' \/ i \in object \ object') => views[i] >= limit[i]
=============================================================================
