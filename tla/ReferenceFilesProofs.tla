------------------------ MODULE ReferenceFilesProofs ------------------------
(***************************************************************************)
(* However many files, names and requests there are: a file quota is       *)
(* exceeded by the uploads at once less one, a file that was acknowledged  *)
(* is served, and no object is left without its row, but for files whose   *)
(* name was contested or whose requests crossed or failed.  A file that is *)
(* neither (Clean) owns the name in its row and, but for names that are    *)
(* chosen and not yet used, the names its requests act on; so no step on   *)
(* another file touches its objects, and the steps on it are those of one  *)
(* request at a time.                                                      *)
(***************************************************************************)
EXTENDS MCReference, FiniteSetTheorems, TLAPS

(* Files that nothing has gone wrong with.                                 *)
Clean == File \ (contested \union disturbed)

Active(o) == op[o] # Idle
Holds(o) == {op[o].name, op[o].to} \ {NoName}

(* A request has read a name when it acts on one, and a rename is to some  *)
(* other name.                                                             *)
NamesRead == \A o \in Op : Active(o) =>
    /\ op[o].pc = "name" => op[o].name = NoName
    /\ op[o].pc # "name" => op[o].name \in Name
    /\ op[o].pc \in {"move", "erase", "update"} <=> op[o].to \in Name
    /\ op[o].pc \in {"move", "erase", "update"} => op[o].to # op[o].name

(* Rows, objects and requests are those of uploads that began.             *)
Begun ==
    /\ \A f \in File : row[f] # NoName => f \in started
    /\ \A n \in Name : object[n] # NoFile => object[n] \in started
    /\ \A o \in Op : Active(o) => op[o].file \in started

(* What deletes a file was asked to.                                       *)
Entitled == \A o \in Op :
    op[o].pc \in {"rmRow", "rmObj", "dropObj", "dropRow", "purgeRow"} => op[o].file \in condemned

Basics == TypeOK /\ NamesRead /\ Begun /\ Entitled

(* Names a request has chosen and not yet put a row or an object under.    *)
Claims(o) == (IF op[o].pc = "create" THEN {op[o].name} ELSE {})
             \union (IF op[o].pc = "move" THEN {op[o].to} ELSE {})

(* The name in the row of a clean file is in no other row, and no request  *)
(* on another file acts on it.                                             *)
RowsOwnName == \A f \in Clean : row[f] # NoName =>
    /\ \A g \in File \ {f} : row[g] # row[f]
    /\ \A q \in Op : Active(q) /\ op[q].file # f => row[f] \notin Holds(q)

(* The names a request on a clean file acts on are in no other row, and    *)
(* two requests act on one name only while one of them has it chosen only. *)
HeldNames == \A f \in Clean : \A p \in Working(f) : \A n \in Holds(p) :
    /\ \A g \in File \ {f} : row[g] # n
    /\ \A q \in Op : Active(q) /\ op[q].file # f /\ n \in Holds(q) => n \in Claims(p) \union Claims(q)

(* One request at a time acts on the name it read of a clean file.         *)
Alone(f) == \A o, p \in Committed(f) : o = p

(* The objects of a clean file are where its row or its request says.      *)
Located(f) == \A n \in Name : object[n] = f =>
    \/ row[f] = n
    \/ \E o \in Working(f) : \/ op[o].pc = "rmObj" /\ op[o].name = n
                             \/ op[o].pc \in {"erase", "update"} /\ op[o].to = n

(* What that request has done to the row and to the objects.               *)
Phases(f) == \A o \in Committed(f) :
    /\ op[o].pc \in {"name", "create", "rmObj"} => row[f] = NoName
    /\ op[o].pc \notin {"name", "create", "rmObj"} => row[f] = op[o].name
    /\ op[o].pc \in {"name", "create", "put", "dropRow"} => \A n \in Name : object[n] # f
    /\ op[o].pc = "update" => \A n \in Name : object[n] = f => n = op[o].to

(* A file that was acknowledged and that nobody asked to remove.           *)
Served(f) == f \in acked \ condemned =>
    /\ row[f] # NoName
    /\ \A o \in Working(f) : op[o].pc \in {"probe", "move", "erase", "update"}
    /\ \A o \in Working(f) : op[o].pc \in {"erase", "update"} => object[op[o].to] = f
    /\ (\A o \in Working(f) : op[o].pc # "update") => object[row[f]] = f

FileOK(f) == Alone(f) /\ Located(f) /\ Phases(f) /\ Served(f)

Inv == /\ Basics /\ RowsOwnName /\ HeldNames
       /\ \A f \in Clean : FileOK(f)

-----------------------------------------------------------------------------
(* How a step writes the record of its request.                            *)

LEMMA ActiveRecord ==
    ASSUME TypeOK, NEW o \in Op
    PROVE  /\ Active(o) <=> op[o] \in Busy
           /\ Active(o) <=> op[o].pc \in Steps
           /\ Active(o) <=> op[o].pc # "idle"
           /\ Active(o) => /\ op[o].file \in File
                           /\ op[o].name \in Name \union {NoName}
                           /\ op[o].to \in Name \union {NoName}
                           /\ op[o].strict \in BOOLEAN
<1>1. op[o] \in Busy \union {Idle}
  BY DEF TypeOK
<1>2. "idle" \notin Steps /\ Idle.pc = "idle"
  BY DEF Steps, Idle
<1> QED BY <1>1, <1>2 DEF Active, Busy

NowIs(o, pc, f, n, to) ==
    /\ ~Active(o) /\ op'[o] \in Busy
    /\ op'[o].pc = pc /\ op'[o].file = f /\ op'[o].name = n /\ op'[o].to = to
    /\ \A p \in Op \ {o} : op'[p] = op[p]
    /\ op' \in [Op -> Busy \union {Idle}]

LEMMA Started ==
    ASSUME TypeOK, NEW o \in Op, NEW pc \in Steps, NEW f \in File,
           NEW n \in Name \union {NoName}, NEW to \in Name \union {NoName}, NEW strict \in BOOLEAN,
           Start(o, pc, f, n, to, strict)
    PROVE  NowIs(o, pc, f, n, to)
<1>1. op \in [Op -> Busy \union {Idle}]
  BY DEF TypeOK
<1>2. [pc |-> pc, file |-> f, name |-> n, to |-> to, strict |-> strict] \in Busy
  BY DEF Busy
<1> QED BY <1>1, <1>2 DEF Start, Active, NowIs

LEMMA Moved ==
    ASSUME TypeOK, NEW o \in Op, Active(o), NEW pc \in Steps, Goto(o, pc)
    PROVE  /\ op'[o] \in Busy
           /\ op'[o].pc = pc /\ op'[o].file = op[o].file
           /\ op'[o].name = op[o].name /\ op'[o].to = op[o].to
           /\ \A p \in Op \ {o} : op'[p] = op[p]
           /\ op' \in [Op -> Busy \union {Idle}]
<1>1. op \in [Op -> Busy \union {Idle}] /\ op[o] \in Busy
  BY ActiveRecord DEF TypeOK
<1>2. op'[o] = [op[o] EXCEPT !.pc = pc]
  BY <1>1 DEF Goto
<1>3. op'[o] \in Busy /\ \A p \in Op \ {o} : op'[p] = op[p]
  BY <1>1, <1>2 DEF Goto, Busy
<1> QED BY <1>1, <1>2, <1>3 DEF Goto, Busy

(* GetFilename, UncheckedName and DeleteRow also choose the name.          *)
Takes(o, pc, n) == op' = [op EXCEPT ![o].pc = pc, ![o].name = n]

LEMMA MovedNamed ==
    ASSUME TypeOK, NEW o \in Op, Active(o), NEW pc \in Steps, NEW n \in Name \union {NoName},
           Takes(o, pc, n)
    PROVE  /\ op'[o] \in Busy
           /\ op'[o].pc = pc /\ op'[o].file = op[o].file
           /\ op'[o].name = n /\ op'[o].to = op[o].to
           /\ \A p \in Op \ {o} : op'[p] = op[p]
           /\ op' \in [Op -> Busy \union {Idle}]
<1>1. op \in [Op -> Busy \union {Idle}] /\ op[o] \in Busy
  BY ActiveRecord DEF TypeOK
<1>2. op'[o] = [op[o] EXCEPT !.pc = pc, !.name = n]
  BY <1>1 DEF Takes
<1>3. op'[o] \in Busy /\ \A p \in Op \ {o} : op'[p] = op[p]
  BY <1>1, <1>2 DEF Busy, Takes
<1> QED BY <1>1, <1>2, <1>3 DEF Busy, Takes

LEMMA Finished ==
    ASSUME TypeOK, NEW o \in Op, Finish(o)
    PROVE  /\ op'[o] = Idle
           /\ \A p \in Op \ {o} : op'[p] = op[p]
           /\ op' \in [Op -> Busy \union {Idle}]
  BY DEF TypeOK, Finish

-----------------------------------------------------------------------------
(* Every step is one request's, about one file.                            *)

StepOf(o, f) ==
    /\ Begins(o, f) \/ (Active(o) /\ op[o].file = f /\ Continues(o))
    /\ UNCHANGED datasource

LEMMA StepSplit ==
    ASSUME TypeOK, [Next]_vars, ~UNCHANGED vars
    PROVE  \E o \in Op, f \in File : StepOf(o, f)
<1>0. Next /\ UNCHANGED datasource
  BY DEF Next
<1>1. PICK o \in Op : (\E f \in File : Begins(o, f)) \/ Continues(o)
  BY <1>0 DEF Next
<1>2. CASE Continues(o)
  <2>1. op[o] # Idle
    BY <1>2 DEF Continues, GetFilename, UncheckedName, CreateRow, PutObject, PutObjectLost,
       DeleteRow, PurgeRow, DeleteObject, DropObject, DropObjectFails, DropRow, Probe, ProbeFails,
       MoveObject, CopyObject, EraseObject, CopyLargeObject, UpdateName, RequestFails, Idle
  <2>2. Active(o) /\ op[o].file \in File
    BY <2>1, ActiveRecord DEF Active
  <2>3. StepOf(o, op[o].file)
    BY <1>0, <1>2, <2>2 DEF StepOf
  <2> QED BY <2>2, <2>3
<1>3. CASE \E f \in File : Begins(o, f)
  BY <1>0, <1>3 DEF StepOf
<1> QED BY <1>1, <1>2, <1>3

(* What begins reads the row of f, or uploads f and has read nothing.      *)
LEMMA BeginsFacts ==
    ASSUME TypeOK, NEW o \in Op, NEW f \in File, Begins(o, f)
    PROVE  /\ ~Active(o) /\ op'[o] \in Busy /\ op'[o].file = f
           /\ \A p \in Op \ {o} : op'[p] = op[p]
           /\ op' \in [Op -> Busy \union {Idle}]
           /\ UNCHANGED <<row, object, acked, contested>>
           /\ \/ /\ op'[o].pc = "name" /\ op'[o].name = NoName /\ op'[o].to = NoName
                 /\ f \notin started /\ started' = started \union {f} /\ CheckQuota(o, f)
                 /\ UNCHANGED <<condemned, disturbed>>
              \/ /\ row[f] \in Name /\ op'[o].name = row[f] /\ started' = started
                 /\ \/ /\ op'[o].pc = "rmRow" /\ op'[o].to = NoName
                       /\ condemned' = condemned \union {f} /\ disturbed' = disturbed
                    \/ /\ op'[o].pc = "dropRow" /\ op'[o].to = NoName
                       /\ condemned' = condemned \union {f} /\ disturbed' = disturbed \union {f}
                    \/ /\ op'[o].pc \in {"purgeRow", "dropObj"} /\ op'[o].to = NoName
                       /\ condemned' = condemned \union {f} /\ Disturbs(o, f)
                    \/ /\ op'[o].pc = "probe" /\ op'[o].to = NoName
                       /\ condemned' = condemned /\ Disturbs(o, f)
                    \/ /\ op'[o].pc = "move" /\ op'[o].to \in Name /\ op'[o].to # row[f]
                       /\ Named(op'[o].to) = {}
                       /\ condemned' = condemned /\ Disturbs(o, f)
<1>0. row[f] # NoName => row[f] \in Name
  BY DEF TypeOK
<1>1. CASE CheckQuota(o, f)
  <2>1. Start(o, "name", f, NoName, NoName, FALSE)
    BY <1>1 DEF CheckQuota
  <2>2. NowIs(o, "name", f, NoName, NoName)
    BY <2>1, Started DEF Steps
  <2> QED BY <1>1, <2>2 DEF CheckQuota, NowIs
<1>2. ASSUME NEW pc \in {"rmRow", "dropRow", "purgeRow", "dropObj", "probe"}, NEW strict \in BOOLEAN,
             row[f] # NoName, Start(o, pc, f, row[f], NoName, strict)
      PROVE  /\ ~Active(o) /\ op'[o] \in Busy /\ op'[o].file = f
             /\ \A p \in Op \ {o} : op'[p] = op[p]
             /\ op' \in [Op -> Busy \union {Idle}]
             /\ row[f] \in Name /\ op'[o].pc = pc /\ op'[o].name = row[f] /\ op'[o].to = NoName
  <2>1. pc \in Steps /\ NoName \in Name \union {NoName} /\ row[f] \in Name \union {NoName}
    BY <1>0, <1>2 DEF Steps
  <2>2. row[f] \in Name
    BY <1>0, <1>2
  <2> DEFINE n == row[f]
  <2>3. n \in Name \union {NoName} /\ Start(o, pc, f, n, NoName, strict)
    BY <1>2, <2>1
  <2> HIDE DEF n
  <2>4. NowIs(o, pc, f, n, NoName)
    BY <2>1, <2>3, Started
  <2> QED BY <2>2, <2>4 DEF n, NowIs
<1>3. CASE DeleteFile(o, f)
  BY <1>2, <1>3 DEF DeleteFile
<1>4. CASE Purge(o, f)
  BY <1>2, <1>4 DEF Purge, Reads
<1>5. CASE Requery(o, f)
  BY <1>2, <1>5 DEF Requery, Reads
<1>6. CASE RemoveOnAccess(o, f) \/ RemoveByTask(o, f)
  BY <1>2, <1>6 DEF RemoveOnAccess, RemoveByTask, Reads
<1>7. ASSUME NEW every \in BOOLEAN, BulkDelete(o, f, every)
      PROVE  \/ Start(o, "dropObj", f, row[f], NoName, TRUE) /\ Disturbs(o, f)
             \/ Start(o, "dropRow", f, row[f], NoName, TRUE) /\ disturbed' = disturbed \union {f}
  BY <1>7 DEF BulkDelete
<1>8. CASE \E every \in BOOLEAN : BulkDelete(o, f, every)
  BY <1>2, <1>7, <1>8 DEF BulkDelete
<1>9. ASSUME NEW n \in Name, Rename(o, f, n)
      PROVE  /\ ~Active(o) /\ op'[o] \in Busy /\ op'[o].file = f
             /\ \A p \in Op \ {o} : op'[p] = op[p]
             /\ op' \in [Op -> Busy \union {Idle}]
             /\ row[f] \in Name /\ op'[o].pc = "move" /\ op'[o].name = row[f] /\ op'[o].to = n
             /\ Named(n) = {} /\ n # row[f]
  <2>1. Start(o, "move", f, row[f], n, TRUE) /\ row[f] # NoName
    BY <1>9 DEF Rename, Reads
  <2>2. NowIs(o, "move", f, row[f], n)
    BY <1>0, <2>1, Started DEF Steps
  <2> QED BY <1>0, <1>9, <2>1, <2>2 DEF Rename, NowIs
<1>10. CASE \E n \in Name : Rename(o, f, n)
  BY <1>9, <1>10 DEF Rename, Reads
<1> QED BY <1>1, <1>3, <1>4, <1>5, <1>6, <1>8, <1>10 DEF Begins

Ends(o) == \/ PutObject(o) \/ PutObjectLost(o) \/ DeleteObject(o) \/ DropRow(o)
           \/ UpdateName(o) \/ RequestFails(o)

(* The record after each of the other steps.                               *)
LEMMA ContinuesFacts ==
    ASSUME TypeOK, NEW o \in Op, Active(o), Continues(o)
    PROVE  /\ \A p \in Op \ {o} : op'[p] = op[p]
           /\ op' \in [Op -> Busy \union {Idle}]
           /\ op'[o] # Idle => /\ op'[o] \in Busy
                               /\ op'[o].file = op[o].file /\ op'[o].to = op[o].to
           /\ Ends(o) => op'[o] = Idle
           /\ (\E n \in Name : GetFilename(o, n) \/ UncheckedName(o, n)) =>
                op'[o] # Idle /\ op'[o].pc = "create" /\ op'[o].name \in Name
           /\ DeleteRow(o) =>
                op'[o] # Idle /\ op'[o].pc = "rmObj" /\ op'[o].name = row[op[o].file]
           /\ CreateRow(o) => op'[o] # Idle /\ op'[o].pc = "put" /\ op'[o].name = op[o].name
           /\ PurgeRow(o) => op'[o] # Idle /\ op'[o].pc = "rmObj" /\ op'[o].name = op[o].name
           /\ DropObject(o) \/ DropObjectFails(o) \/ ProbeFails(o) =>
                op'[o] # Idle /\ op'[o].pc = "dropRow" /\ op'[o].name = op[o].name
           /\ Probe(o) => IF object[op[o].name] = NoFile
                          THEN op'[o] # Idle /\ op'[o].pc = "dropRow" /\ op'[o].name = op[o].name
                          ELSE op'[o] = Idle
           /\ MoveObject(o) \/ EraseObject(o) \/ CopyLargeObject(o) =>
                op'[o] # Idle /\ op'[o].pc = "update" /\ op'[o].name = op[o].name
           /\ CopyObject(o) => op'[o] # Idle /\ op'[o].pc = "erase" /\ op'[o].name = op[o].name
<1> DEFINE Same == /\ \A p \in Op \ {o} : op'[p] = op[p]
                   /\ op' \in [Op -> Busy \union {Idle}]
           Goes(pc) == Same /\ op'[o] \in Busy /\ op'[o] # Idle /\ op'[o].pc = pc
                       /\ op'[o].file = op[o].file /\ op'[o].to = op[o].to
<1>0. Idle \notin Busy
  BY DEF Idle, Busy, Steps
<1>1. ASSUME Finish(o) PROVE Same /\ op'[o] = Idle
  BY <1>1, Finished
<1>2. ASSUME NEW pc \in Steps, Goto(o, pc) PROVE Goes(pc) /\ op'[o].name = op[o].name
  BY <1>0, <1>2, Moved
<1>3. ASSUME NEW pc \in Steps, NEW n \in Name \union {NoName},
             Takes(o, pc, n)
      PROVE  Goes(pc) /\ op'[o].name = n
  BY <1>0, <1>3, MovedNamed
<1>4. ASSUME NEW n \in Name, GetFilename(o, n) \/ UncheckedName(o, n)
      PROVE  Goes("create") /\ op'[o].name = n /\ op[o].pc = "name"
  BY <1>3, <1>4 DEF GetFilename, UncheckedName, Steps, Takes
<1>5. ASSUME DeleteRow(o) PROVE Goes("rmObj") /\ op'[o].name = row[op[o].file] /\ op[o].pc = "rmRow"
  <2>1. row[op[o].file] \in Name \union {NoName}
    BY ActiveRecord DEF TypeOK
  <2>2. Takes(o, "rmObj", row[op[o].file]) /\ "rmObj" \in Steps /\ op[o].pc = "rmRow"
    BY <1>5 DEF DeleteRow, Steps, Takes
  <2> HIDE DEF Goes
  <2> QED BY <1>3, <2>1, <2>2
<1>6. CreateRow(o) => Goes("put") /\ op'[o].name = op[o].name /\ op[o].pc = "create"
  BY <1>2 DEF CreateRow, Steps
<1>7. PurgeRow(o) => Goes("rmObj") /\ op'[o].name = op[o].name /\ op[o].pc = "purgeRow"
  BY <1>2 DEF PurgeRow, Steps
<1>8. DropObject(o) \/ DropObjectFails(o) \/ ProbeFails(o) =>
        Goes("dropRow") /\ op'[o].name = op[o].name /\ op[o].pc \in {"dropObj", "probe"}
  BY <1>2 DEF DropObject, DropObjectFails, ProbeFails, Steps
<1>9. MoveObject(o) \/ EraseObject(o) \/ CopyLargeObject(o) =>
        Goes("update") /\ op'[o].name = op[o].name /\ op[o].pc \in {"move", "erase"}
  BY <1>2 DEF MoveObject, EraseObject, CopyLargeObject, Steps
<1>12. CopyObject(o) => Goes("erase") /\ op'[o].name = op[o].name /\ op[o].pc = "move"
  BY <1>2 DEF CopyObject, Steps
<1>10. Probe(o) => /\ op[o].pc = "probe"
                   /\ IF object[op[o].name] = NoFile
                      THEN Goes("dropRow") /\ op'[o].name = op[o].name
                      ELSE Same /\ op'[o] = Idle
  BY <1>1, <1>2 DEF Probe, Steps
<1>11. Ends(o) => Same /\ op'[o] = Idle
  BY <1>1 DEF Ends, PutObject, PutObjectLost, DeleteObject, DropRow, UpdateName, RequestFails
<1> HIDE DEF Same, Goes
<1> QED BY <1>4, <1>5, <1>6, <1>7, <1>8, <1>9, <1>10, <1>11, <1>12 DEF Continues, Ends, Same, Goes

(* What a step leaves alone: other requests, the rows of other files, and  *)
(* what is known of them; a file once contested or disturbed stays so.     *)
LEMMA StepFrame ==
    ASSUME TypeOK, NEW o \in Op, NEW f \in File, StepOf(o, f)
    PROVE  /\ \A p \in Op \ {o} : op'[p] = op[p]
           /\ op' \in [Op -> Busy \union {Idle}]
           /\ op[o] # Idle => op[o].file = f
           /\ op'[o] # Idle => op'[o] \in Busy /\ op'[o].file = f
           /\ \E n \in Name \union {NoName} : row' \in {row, [row EXCEPT ![f] = n]}
           /\ started' \in {started, started \union {f}}
           /\ acked' \in {acked, acked \union {f}}
           /\ condemned' \in {condemned, condemned \union {f}}
           /\ Clean' \subseteq Clean
           /\ UNCHANGED object \/ (Active(o) /\ op[o].pc \in {"put", "rmObj", "dropObj", "move", "erase"})
<1>1. CASE Begins(o, f)
  <2>1. acked' = acked /\ row' = row /\ object' = object
        /\ disturbed \subseteq disturbed' /\ contested' = contested
    BY <1>1, BeginsFacts DEF Disturbs
  <2> QED BY <1>1, <2>1, BeginsFacts DEF Active, Clean
<1>2. CASE Active(o) /\ op[o].file = f /\ Continues(o)
  <2>1. /\ row[f] \in Name \union {NoName} /\ NoName \in Name \union {NoName}
        /\ op[o].name \in Name \union {NoName} /\ op[o].to \in Name \union {NoName}
    BY <1>2, ActiveRecord DEF TypeOK
  <2>2. /\ \E n \in Name \union {NoName} : row' \in {row, [row EXCEPT ![f] = n]}
        /\ started' = started
        /\ acked' \in {acked, acked \union {f}}
        /\ condemned' \in {condemned, condemned \union {f}}
        /\ UNCHANGED object \/ (Active(o) /\ op[o].pc \in {"put", "rmObj", "dropObj", "move", "erase"})
    BY <1>2, <2>1 DEF Continues, GetFilename, UncheckedName, CreateRow, PutObject, PutObjectLost,
       DeleteRow, PurgeRow, DeleteObject, DropObject, DropObjectFails, DropRow, Probe, ProbeFails,
       MoveObject, CopyObject, EraseObject, CopyLargeObject, UpdateName, RequestFails
  <2>3. contested \subseteq contested' /\ disturbed \subseteq disturbed'
    BY <1>2 DEF Continues, GetFilename, UncheckedName, CreateRow, PutObject, PutObjectLost,
       DeleteRow, PurgeRow, DeleteObject, DropObject, DropObjectFails, DropRow, Probe, ProbeFails,
       MoveObject, CopyObject, EraseObject, CopyLargeObject, UpdateName, RequestFails, Contest,
       Disturbs, Disturb
  <2> QED BY <1>2, <2>2, <2>3, ContinuesFacts DEF Clean
<1> QED BY <1>1, <1>2 DEF StepOf

LEMMA TypeStep ==
    ASSUME ReferenceFilesAssumption, Basics, NEW o \in Op, NEW f \in File, StepOf(o, f)
    PROVE  TypeOK'
<1>0. TypeOK /\ Begun /\ NamesRead /\ datasource' \in {"local", "s3"}
  BY DEF Basics, TypeOK, StepOf
<1>1. op' \in [Op -> Busy \union {Idle}] /\ row' \in [File -> Name \union {NoName}]
      /\ condemned' \subseteq File
  BY <1>0, StepFrame DEF TypeOK
<1>2. CASE Begins(o, f)
  BY <1>0, <1>1, <1>2, BeginsFacts DEF TypeOK, Disturbs
<1>3. CASE Active(o) /\ op[o].file = f /\ Continues(o)
  <2>1. f \in started /\ acked' \in {acked, acked \union {f}}
    BY <1>0, <1>3, StepFrame DEF Begun
  <2>2. Holding(o, op[o].name) \subseteq File /\ Holding(o, op[o].to) \subseteq File
    BY <1>0, ActiveRecord DEF Holding, Active
  <2>3. object' \in [Name -> File \union {NoFile}] /\ started' = started
    <3>0. object \in [Name -> File \union {NoFile}] /\ op[o].file \in File
          /\ op[o].name \in Name \union {NoName}
      BY <1>0, <1>3, ActiveRecord DEF TypeOK
    <3>1. CASE MoveObject(o) \/ CopyObject(o) \/ CopyLargeObject(o)
      <4>1. op[o].name \in Name
        BY <1>0, <1>3, <3>1 DEF MoveObject, CopyObject, CopyLargeObject, NamesRead
      <4> QED BY <3>0, <3>1, <4>1 DEF MoveObject, CopyObject, CopyLargeObject
    <3>2. CASE PutObject(o) \/ DeleteObject(o) \/ DropObject(o) \/ EraseObject(o)
      BY <3>0, <3>2 DEF PutObject, DeleteObject, DropObject, EraseObject
    <3>3. CASE UNCHANGED <<object, started>>
      BY <3>0, <3>3
    <3> QED BY <1>3, <3>1, <3>2, <3>3 DEF Continues, GetFilename, UncheckedName, CreateRow, PutObjectLost,
         DeleteRow, PurgeRow, DropObjectFails, DropRow, Probe, ProbeFails, UpdateName, RequestFails
  <2>4. contested' \subseteq File
    <3>1. contested' = contested
          \/ (\E n \in Name : contested' = contested \union Named(n) \union {op[o].file})
          \/ Contest(o, op[o].file, op[o].name) \/ Contest(o, op[o].file, op[o].to)
      BY <1>3 DEF Continues, GetFilename, UncheckedName, CreateRow, PutObject, PutObjectLost,
         DeleteRow, PurgeRow, DeleteObject, DropObject, DropObjectFails, DropRow, Probe, ProbeFails,
         MoveObject, CopyObject, EraseObject, CopyLargeObject, UpdateName, RequestFails
    <3> QED BY <1>0, <1>3, <2>2, <3>1 DEF TypeOK, Contest, Named
  <2>5. disturbed' \subseteq File
    BY <1>0, <1>3 DEF TypeOK, Continues, GetFilename, UncheckedName, CreateRow, PutObject,
       PutObjectLost, DeleteRow, PurgeRow, DeleteObject, DropObject, DropObjectFails, DropRow,
       Probe, ProbeFails, MoveObject, CopyObject, EraseObject, CopyLargeObject, UpdateName,
       RequestFails, Disturbs, Disturb
  <2> QED BY <1>0, <1>1, <2>1, <2>3, <2>4, <2>5 DEF TypeOK
<1> QED BY <1>2, <1>3 DEF StepOf

LEMMA NamesStep ==
    ASSUME ReferenceFilesAssumption, Basics, NEW o \in Op, NEW f \in File, StepOf(o, f)
    PROVE  NamesRead'
<1>0. TypeOK /\ NamesRead
  BY DEF Basics
<1>1. SUFFICES ASSUME op'[o] # Idle
               PROVE  /\ op'[o].pc = "name" => op'[o].name = NoName
                      /\ op'[o].pc # "name" => op'[o].name \in Name
                      /\ op'[o].pc \in {"move", "erase", "update"} <=> op'[o].to \in Name
                      /\ op'[o].pc \in {"move", "erase", "update"} => op'[o].to # op'[o].name
  BY <1>0, StepFrame DEF NamesRead, Active
<1>2. CASE Begins(o, f)
  BY <1>0, <1>2, BeginsFacts DEF ReferenceFilesAssumption
<1>3. CASE Active(o) /\ op[o].file = f /\ Continues(o)
  <2> DEFINE read == /\ op[o].pc = "name" => op[o].name = NoName
                     /\ op[o].pc # "name" => op[o].name \in Name
                     /\ op[o].pc \in {"move", "erase", "update"} <=> op[o].to \in Name
                     /\ op[o].pc \in {"move", "erase", "update"} => op[o].to # op[o].name
  <2>1. read
    BY <1>0, <1>3 DEF NamesRead
  <2>2. ASSUME NEW n \in Name, GetFilename(o, n) \/ UncheckedName(o, n)
        PROVE  op[o].pc = "name" /\ op'[o].pc = "create" /\ op'[o].name \in Name /\ op'[o].to = op[o].to
    BY <1>0, <1>3, <2>2, ContinuesFacts, Zenon DEF GetFilename, UncheckedName
  <2>3. CASE DeleteRow(o)
    <3>1. op[o].pc = "rmRow" /\ row[op[o].file] \in Name
      BY <1>0, <1>3, <2>3 DEF DeleteRow, TypeOK
    <3> QED BY <1>0, <1>1, <1>3, <2>1, <2>3, <3>1, ContinuesFacts
  <2>4. CASE CreateRow(o)
    BY <1>0, <1>3, <2>1, <2>4, ContinuesFacts DEF CreateRow
  <2>5. CASE PurgeRow(o)
    BY <1>0, <1>3, <2>1, <2>5, ContinuesFacts DEF PurgeRow
  <2>6. CASE DropObject(o) \/ DropObjectFails(o) \/ ProbeFails(o)
    BY <1>0, <1>3, <2>1, <2>6, ContinuesFacts DEF DropObject, DropObjectFails, ProbeFails
  <2>7. CASE Probe(o)
    BY <1>0, <1>1, <1>3, <2>1, <2>7, ContinuesFacts DEF Probe
  <2>8. CASE MoveObject(o) \/ CopyObject(o) \/ CopyLargeObject(o) \/ EraseObject(o)
    <3>1. op[o].pc \in {"move", "erase"} /\ op'[o].pc \in {"erase", "update"} /\ op'[o].name = op[o].name
      BY <1>0, <1>3, <2>8, ContinuesFacts DEF MoveObject, CopyObject, CopyLargeObject, EraseObject
    <3>2. op'[o].to = op[o].to
      BY <1>0, <1>1, <1>3, ContinuesFacts
    <3> QED BY <2>1, <3>1, <3>2
  <2>9. CASE Ends(o)
    BY <1>0, <1>1, <1>3, <2>9, ContinuesFacts
  <2> HIDE DEF read
  <2>10. CASE \E n \in Name : GetFilename(o, n) \/ UncheckedName(o, n)
    BY <2>1, <2>2, <2>10 DEF read
  <2> QED BY <1>3, <2>3, <2>4, <2>5, <2>6, <2>7, <2>8, <2>9, <2>10 DEF Continues, Ends
<1> QED BY <1>2, <1>3 DEF StepOf

LEMMA BegunStep ==
    ASSUME ReferenceFilesAssumption, Basics, NEW o \in Op, NEW f \in File, StepOf(o, f)
    PROVE  Begun'
<1>0. TypeOK /\ Begun /\ NamesRead
  BY DEF Basics
<1>1. f \in started'
  <2>1. CASE Begins(o, f)
    BY <1>0, <2>1, BeginsFacts DEF Begun, ReferenceFilesAssumption
  <2>2. CASE Active(o)
    BY <1>0, <2>2, StepFrame DEF Begun, Active
  <2> QED BY <2>1, <2>2 DEF StepOf
<1>2. started \subseteq started'
  BY <1>0, StepFrame
<1>3. \A p \in Op : op'[p] # Idle => op'[p].file \in started'
  BY <1>0, <1>1, <1>2, StepFrame DEF Begun, Active
<1>4. \A g \in File : row'[g] # NoName => g \in started'
  <2> SUFFICES ASSUME NEW g \in File, row'[g] # NoName, g # f PROVE g \in started'
    BY <1>1
  <2>1. row'[g] = row[g]
    BY <1>0, StepFrame DEF TypeOK
  <2> QED BY <1>0, <1>2, <2>1 DEF Begun
<1>5. \A n \in Name : object'[n] # NoFile => object'[n] \in started'
  <2> SUFFICES ASSUME NEW n \in Name PROVE object'[n] # NoFile => object'[n] \in started'
    OBVIOUS
  <2>1. object'[n] \in {object[m] : m \in Name} \union {NoFile, f}
    <3>1. CASE UNCHANGED object
      BY <3>1
    <3>2. CASE Active(o) /\ op[o].pc \in {"put", "rmObj", "dropObj", "move", "erase"} /\ object' # object
      <4>1. op[o].file = f /\ Continues(o) /\ op[o].name \in Name
        BY <1>0, <3>2, BeginsFacts DEF StepOf, NamesRead
      <4>2. \/ PutObject(o) \/ DeleteObject(o) \/ DropObject(o) \/ MoveObject(o)
            \/ CopyObject(o) \/ CopyLargeObject(o) \/ EraseObject(o)
        BY <3>2, <4>1 DEF Continues, GetFilename, UncheckedName, CreateRow, PutObjectLost, DeleteRow,
           PurgeRow, DropObjectFails, DropRow, Probe, ProbeFails, UpdateName, RequestFails
      <4>3. CASE PutObject(o) \/ DeleteObject(o) \/ DropObject(o) \/ EraseObject(o)
        BY <1>0, <4>1, <4>3 DEF PutObject, DeleteObject, DropObject, EraseObject, TypeOK
      <4>4. CASE MoveObject(o) \/ CopyObject(o) \/ CopyLargeObject(o)
        BY <1>0, <4>1, <4>4 DEF MoveObject, CopyObject, CopyLargeObject, TypeOK
      <4> QED BY <4>2, <4>3, <4>4
    <3> QED BY <1>0, <3>1, <3>2, StepFrame
  <2> QED BY <1>0, <1>1, <1>2, <2>1 DEF Begun
<1> QED BY <1>3, <1>4, <1>5 DEF Begun, Active

LEMMA EntitledStep ==
    ASSUME ReferenceFilesAssumption, Basics, NEW o \in Op, NEW f \in File, StepOf(o, f)
    PROVE  Entitled'
<1>0. TypeOK /\ Entitled
  BY DEF Basics
<1>1. condemned \subseteq condemned'
  BY <1>0, StepFrame
<1>2. SUFFICES ASSUME op'[o] # Idle,
                      op'[o].pc \in {"rmRow", "rmObj", "dropObj", "dropRow", "purgeRow"}
               PROVE  op'[o].file \in condemned'
  BY <1>0, <1>1, StepFrame DEF Entitled, Idle
<1>3. CASE Begins(o, f)
  BY <1>0, <1>2, <1>3, BeginsFacts
<1>4. CASE Active(o) /\ op[o].file = f /\ Continues(o)
  <2>1. op'[o].file = op[o].file
    BY <1>0, <1>2, <1>4, ContinuesFacts
  <2>0. ~Ends(o)
    BY <1>0, <1>2, <1>4, ContinuesFacts
  <2>2. \/ op[o].pc \in {"rmRow", "dropObj", "purgeRow"}
        \/ op[o].file \in condemned'
    BY <1>0, <1>2, <1>4, <2>0, ContinuesFacts DEF Ends, Continues, GetFilename, UncheckedName, CreateRow,
       PutObject, PutObjectLost, DeleteRow, PurgeRow, DeleteObject, DropObject, DropObjectFails,
       DropRow, Probe, ProbeFails, MoveObject, CopyObject, EraseObject, CopyLargeObject, UpdateName,
       RequestFails
  <2> QED BY <1>0, <1>1, <2>1, <2>2 DEF Entitled
<1> QED BY <1>3, <1>4 DEF StepOf

-----------------------------------------------------------------------------
(* Whose names are whose.                                                  *)

LEMMA Contested ==
    ASSUME NEW o \in Op, NEW f \in File, NEW n, Contest(o, f, n),
           NEW p \in Op \ {o}, Active(p), op[p].file # f, n \in Holds(p)
    PROVE  f \in contested' /\ op[p].file \in contested'
<1>1. op[p].file \in Holding(o, n) \ {f}
  BY DEF Holding, Holds, Active
<1> QED BY <1>1 DEF Contest

(* Names are taken by row and by request one at a time.                    *)
LEMMA HoldsStep ==
    ASSUME ReferenceFilesAssumption, Basics, NEW o \in Op, NEW f \in File, StepOf(o, f),
           op'[o] # Idle, NEW n \in Holds(o)'
    PROVE  /\ n \in Name
           /\ \/ n \in Holds(o) /\ Active(o)
              \/ n = row[f]
              \/ Named(n) = {} /\ n \in Claims(o)'
              \/ f \in contested' /\ Named(n) \subseteq contested' /\ n \in Claims(o)'
<1>0. TypeOK /\ NoName \notin Name
  BY DEF Basics, ReferenceFilesAssumption
<1>1. CASE Begins(o, f)
  <2>1. CASE op'[o].name = NoName /\ op'[o].to = NoName
    BY <2>1 DEF Holds
  <2>2. CASE row[f] \in Name /\ op'[o].name = row[f] /\ op'[o].to = NoName
    BY <2>2 DEF Holds
  <2>3. CASE /\ row[f] \in Name /\ op'[o].name = row[f]
             /\ op'[o].to \in Name /\ Named(op'[o].to) = {} /\ op'[o].pc = "move"
    BY <2>3 DEF Holds, Claims
  <2> QED BY <1>0, <1>1, <2>1, <2>2, <2>3, BeginsFacts
<1>2. CASE Active(o) /\ op[o].file = f /\ Continues(o)
  <2>0. /\ op'[o].to = op[o].to
        /\ op[o].name \in Name \union {NoName} /\ op[o].to \in Name \union {NoName}
    BY <1>0, <1>2, ContinuesFacts, ActiveRecord
  <2>1. CASE n = op[o].to
    BY <1>2, <2>0, <2>1 DEF Holds
  <2>2. CASE n = op'[o].name /\ op'[o].name = op[o].name
    BY <1>2, <2>0, <2>2 DEF Holds
  <2>3. CASE DeleteRow(o) /\ n = op'[o].name
    <3>1. n = row[f]
      BY <1>0, <1>2, <2>3, ContinuesFacts, Zenon
    <3> QED BY <1>0, <3>1 DEF Holds, TypeOK
  <2>4. ASSUME NEW m \in Name, GetFilename(o, m), n = op'[o].name
        PROVE  n = m /\ Named(n) = {} /\ n \in Claims(o)'
    <3>1. op'[o].name = m
      BY <1>0, <1>2, <2>4, ActiveRecord DEF GetFilename, TypeOK, Busy
    <3> QED BY <1>0, <1>2, <2>4, <3>1, ContinuesFacts DEF GetFilename, Claims
  <2>5. ASSUME NEW m \in Name, UncheckedName(o, m), n = op'[o].name
        PROVE  n = m /\ f \in contested' /\ Named(n) \subseteq contested' /\ n \in Claims(o)'
    <3>1. op'[o].name = m
      BY <1>0, <1>2, <2>5, ActiveRecord DEF UncheckedName, TypeOK, Busy
    <3> QED BY <1>0, <1>2, <2>5, <3>1, ContinuesFacts DEF UncheckedName, Claims
  <2>6. n \in {op'[o].name, op[o].to}
    BY <2>0 DEF Holds
  <2>7. \/ op'[o].name = op[o].name \/ DeleteRow(o)
        \/ \E m \in Name : GetFilename(o, m) \/ UncheckedName(o, m)
    BY <1>0, <1>2, ContinuesFacts DEF Continues, Ends
  <2> QED BY <2>1, <2>2, <2>3, <2>4, <2>5, <2>6, <2>7
<1> QED BY <1>1, <1>2 DEF StepOf

(* A request that has used a name it chose looked who acts on it.          *)
LEMMA ClaimUsed ==
    ASSUME Basics, NEW o \in Op, NEW f \in File, StepOf(o, f), Active(o),
           op'[o] # Idle, NEW n \in Claims(o), n \notin Claims(o)'
    PROVE  Contest(o, f, n)
<1>0. TypeOK
  BY DEF Basics
<1>1. op[o].file = f /\ Continues(o)
  BY <1>0, BeginsFacts DEF StepOf
<1>2. op[o].pc \in {"create", "move"}
  BY DEF Claims
<1>3. ~Ends(o)
  BY <1>0, <1>1, ContinuesFacts
<1>4. CreateRow(o) \/ MoveObject(o) \/ CopyObject(o) \/ CopyLargeObject(o)
  BY <1>1, <1>2, <1>3 DEF Ends, Continues, GetFilename, UncheckedName, DeleteRow, PurgeRow, DropObject,
     DropObjectFails, Probe, ProbeFails, EraseObject
<1> QED BY <1>1, <1>4 DEF Claims, CreateRow, MoveObject, CopyObject, CopyLargeObject

LEMMA RowChange ==
    ASSUME Basics, NEW o \in Op, NEW f \in File, StepOf(o, f), row' # row
    PROVE  /\ Active(o) /\ op[o].file = f
           /\ \/ row' = [row EXCEPT ![f] = NoName]
              \/ \E n \in Holds(o) : row' = [row EXCEPT ![f] = n] /\ Contest(o, f, n)
<1>0. TypeOK /\ NamesRead
  BY DEF Basics
<1>1. Active(o) /\ op[o].file = f /\ Continues(o)
  BY <1>0, BeginsFacts DEF StepOf
<1>2. CASE CreateRow(o)
  <2>1. op[o].name \in Name /\ row' = [row EXCEPT ![f] = op[o].name] /\ Contest(o, f, op[o].name)
    BY <1>0, <1>1, <1>2 DEF CreateRow, NamesRead
  <2> QED BY <1>1, <2>1 DEF Holds
<1>3. CASE UpdateName(o)
  <2>1. op[o].to \in Name /\ row' = [row EXCEPT ![f] = op[o].to] /\ Contest(o, f, op[o].to)
    BY <1>0, <1>1, <1>3 DEF UpdateName, NamesRead
  <2> QED BY <1>1, <2>1 DEF Holds
<1>4. CASE DeleteRow(o) \/ PurgeRow(o) \/ DropRow(o)
  BY <1>1, <1>4 DEF DeleteRow, PurgeRow, DropRow
<1> QED BY <1>1, <1>2, <1>3, <1>4 DEF Continues, GetFilename, UncheckedName, PutObject,
     PutObjectLost, DeleteObject, DropObject, DropObjectFails, Probe, ProbeFails, MoveObject,
     CopyObject, EraseObject, CopyLargeObject, RequestFails

LEMMA RowsStep ==
    ASSUME ReferenceFilesAssumption, Basics, RowsOwnName, HeldNames,
           NEW o \in Op, NEW f \in File, StepOf(o, f)
    PROVE  RowsOwnName'
<1> SUFFICES ASSUME NEW g \in Clean', row'[g] # NoName
             PROVE  /\ \A h \in File \ {g} : row'[h] # row'[g]
                    /\ \A q \in Op : op'[q] # Idle /\ op'[q].file # g => row'[g] \notin Holds(q)'
  BY DEF RowsOwnName, Active
<1>0. TypeOK /\ g \in Clean /\ g \in File /\ g \notin contested' /\ row \in [File -> Name \union {NoName}]
  BY StepFrame DEF Basics, Clean, TypeOK
<1>1. \A q \in Op \ {o} : op'[q] = op[q] /\ Holds(q)' = Holds(q)
  BY <1>0, StepFrame DEF Holds
<1>2. op'[o] # Idle => op'[o].file = f
  BY <1>0, StepFrame
<1>3. CASE g = f /\ row' = row
  BY <1>0, <1>1, <1>2, <1>3 DEF RowsOwnName, Active
<1>4. ASSUME g = f, NEW n \in Holds(o), row' = [row EXCEPT ![f] = n], Contest(o, f, n), Active(o),
             op[o].file = f
      PROVE  /\ \A h \in File \ {g} : row'[h] # row'[g]
             /\ \A q \in Op : op'[q] # Idle /\ op'[q].file # g => row'[g] \notin Holds(q)'
  <2>1. row'[g] = n /\ \A h \in File \ {g} : row'[h] = row[h]
    BY <1>0, <1>4
  <2>2. \A h \in File \ {g} : row[h] # n
    BY <1>0, <1>4 DEF HeldNames, Working, Active
  <2>3. ASSUME NEW q \in Op, op'[q] # Idle, op'[q].file # g, n \in Holds(q)' PROVE FALSE
    BY <1>0, <1>1, <1>2, <1>4, <2>3, Contested DEF Active
  <2> QED BY <2>1, <2>2, <2>3
<1>5. CASE g # f
  <2>1. row'[g] = row[g]
    BY <1>0, <1>5, StepFrame
  <2>2. ASSUME NEW h \in File \ {g} PROVE row'[h] # row'[g]
    <3>1. CASE row'[h] = row[h]
      BY <1>0, <2>1, <3>1 DEF RowsOwnName
    <3>2. CASE row'[h] # row[h]
      <4>1. Active(o) /\ op[o].file = f /\ (row'[h] = NoName \/ row'[h] \in Holds(o))
        BY <1>0, <3>2, RowChange
      <4> QED BY <1>0, <1>5, <2>1, <4>1 DEF RowsOwnName
    <3> QED BY <3>1, <3>2
  <2>3. ASSUME NEW q \in Op \ {o}, op'[q] # Idle, op'[q].file # g PROVE row'[g] \notin Holds(q)'
    BY <1>0, <1>1, <2>1, <2>3 DEF RowsOwnName, Active
  <2>4. ASSUME op'[o] # Idle, row[g] \in Holds(o)' PROVE FALSE
    <3>1. row[g] \in Holds(o) /\ Active(o) => FALSE
      BY <1>0, <1>5, <2>1, StepFrame DEF RowsOwnName, Active
    <3>2. row[g] # row[f] /\ g \in Named(row[g])
      BY <1>0, <1>5, <2>1 DEF RowsOwnName, Named
    <3> QED BY <1>0, <2>4, <3>1, <3>2, HoldsStep
  <2> QED BY <2>1, <2>2, <2>3, <2>4
<1> QED BY <1>0, <1>3, <1>4, <1>5, RowChange

LEMMA HeldStep ==
    ASSUME ReferenceFilesAssumption, Basics, RowsOwnName, HeldNames,
           NEW o \in Op, NEW f \in File, StepOf(o, f)
    PROVE  HeldNames'
<1> SUFFICES ASSUME NEW g \in Clean', NEW p \in Op, op'[p] # Idle, op'[p].file = g, NEW n \in Holds(p)'
             PROVE  /\ \A h \in File \ {g} : row'[h] # n
                    /\ \A q \in Op : op'[q] # Idle /\ op'[q].file # g /\ n \in Holds(q)' =>
                          n \in Claims(p)' \union Claims(q)'
  BY DEF HeldNames, Working, Active
<1>0. TypeOK /\ g \in Clean /\ g \in File /\ g \notin contested' /\ row \in [File -> Name \union {NoName}]
  BY StepFrame DEF Basics, Clean, TypeOK
<1>1. \A q \in Op \ {o} : op'[q] = op[q] /\ Holds(q)' = Holds(q) /\ Claims(q)' = Claims(q)
  BY <1>0, StepFrame DEF Holds, Claims
<1>2. /\ op'[o] # Idle => op'[o].file = f
      /\ op[o] # Idle => op[o].file = f
      /\ \A h \in File \ {f} : row'[h] = row[h]
  BY <1>0, StepFrame
<1>3. CASE p = o
  <2>1. ASSUME NEW h \in File \ {g} PROVE row'[h] # n
    <3>1. row'[h] = row[h] /\ g = f
      BY <1>2, <1>3
    <3>2. CASE n \in Holds(o) /\ Active(o)
      BY <1>0, <1>2, <3>1, <3>2 DEF HeldNames, Working, Active
    <3>3. CASE n = row[f] /\ n \in Name
      BY <1>0, <3>1, <3>3 DEF RowsOwnName, ReferenceFilesAssumption
    <3>4. CASE Named(n) = {}
      BY <3>1, <3>4 DEF Named
    <3> QED BY <1>0, <1>3, <3>1, <3>2, <3>3, <3>4, HoldsStep
  <2>2. ASSUME NEW q \in Op, op'[q] # Idle, op'[q].file # g, n \in Holds(q)', n \notin Claims(o)'
        PROVE  n \in Claims(q)'
    <3>1. /\ q # o /\ g = f /\ Active(q) /\ op[q].file # f /\ n \in Holds(q)
          /\ Claims(q)' = Claims(q)
      BY <1>1, <1>2, <1>3, <2>2 DEF Active
    <3>2. CASE n \in Holds(o) /\ Active(o)
      <4>1. n \in Claims(o) \union Claims(q)
        BY <1>0, <1>2, <3>1, <3>2 DEF HeldNames, Working, Active
      <4>2. CASE n \in Claims(o)
        <5>1. Contest(o, f, n)
          BY <1>3, <2>2, <3>2, <4>2, ClaimUsed
        <5> QED BY <1>0, <3>1, <5>1, Contested
      <4> QED BY <3>1, <4>1, <4>2
    <3>3. CASE n = row[f] /\ n \in Name
      BY <1>0, <3>1, <3>3 DEF RowsOwnName, ReferenceFilesAssumption
    <3> QED BY <1>0, <1>3, <2>2, <3>1, <3>2, <3>3, HoldsStep
  <2> QED BY <1>3, <2>1, <2>2
<1>4. CASE p # o
  <2>0. op'[p] = op[p] /\ p \in Working(g) /\ n \in Holds(p) /\ n # NoName /\ Active(p)
        /\ Claims(p)' = Claims(p)
    BY <1>1, <1>4 DEF Working, Holds, Active
  <2>1. ASSUME NEW h \in File \ {g}, row'[h] = n PROVE FALSE
    <3>1. row'[h] # row[h]
      BY <1>0, <2>0, <2>1 DEF HeldNames
    <3>2. h = f /\ Contest(o, f, n)
      BY <1>0, <1>2, <2>0, <2>1, <3>1, RowChange
    <3> QED BY <1>0, <1>4, <2>0, <2>1, <3>2, Contested DEF Working
  <2>2. ASSUME NEW q \in Op, op'[q] # Idle, op'[q].file # g, n \in Holds(q)', n \notin Claims(q)',
               n \notin Claims(p)
        PROVE  FALSE
    <3>1. CASE q # o
      BY <1>0, <1>1, <2>0, <2>2, <3>1 DEF HeldNames, Active
    <3>2. CASE q = o
      <4>1. g # f
        BY <1>2, <2>2, <3>2
      <4>2. CASE n \in Holds(o) /\ Active(o)
        <5>1. n \in Claims(o)
          BY <1>0, <1>2, <2>0, <2>2, <4>1, <4>2 DEF HeldNames, Active
        <5>2. Contest(o, f, n)
          BY <2>2, <3>2, <4>2, <5>1, ClaimUsed
        <5> QED BY <1>0, <1>4, <2>0, <4>1, <5>2, Contested DEF Working
      <4>3. n # row[f]
        BY <1>0, <2>0, <4>1 DEF HeldNames
      <4> QED BY <2>2, <3>2, <4>2, <4>3, HoldsStep
    <3> QED BY <3>1, <3>2
  <2> QED BY <2>0, <2>1, <2>2
<1> QED BY <1>3, <1>4

(* A request acts on a name that an object of another, clean file is under *)
(* only if it has just chosen it, and a request on that file acts on it.   *)
LEMMA ActsElsewhere ==
    ASSUME ReferenceFilesAssumption, Basics, RowsOwnName, HeldNames,
           NEW o \in Op, NEW g \in Clean, Active(o), op[o].file # g,
           Located(g), NEW n \in Holds(o), n \in Name, object[n] = g
    PROVE  n \in Claims(o) /\ \E p \in Working(g) : n \in Holds(p)
<1>0. g \in File
  BY DEF Clean
<1>1. row[g] # n
  BY <1>0 DEF RowsOwnName, ReferenceFilesAssumption
<1>2. PICK p \in Working(g) : \/ op[p].pc = "rmObj" /\ op[p].name = n
                              \/ op[p].pc \in {"erase", "update"} /\ op[p].to = n
  BY <1>1 DEF Located
<1>3. n \in Holds(p) /\ n \notin Claims(p)
  BY <1>2 DEF Holds, Claims
<1> QED BY <1>0, <1>2, <1>3 DEF HeldNames

(* A step about one file leaves the objects of other, clean files alone.   *)
LEMMA ObjectsStay ==
    ASSUME ReferenceFilesAssumption, Basics, RowsOwnName, HeldNames,
           NEW o \in Op, NEW f \in File, StepOf(o, f),
           NEW g \in Clean', g # f, Located(g), NEW n \in Name
    PROVE  object'[n] = g <=> object[n] = g
<1>0. TypeOK /\ g \in Clean /\ g \in File
  BY StepFrame DEF Basics, Clean
<1>1. CASE UNCHANGED object
  BY <1>1
<1>2. CASE Active(o) /\ op[o].pc \in {"put", "rmObj", "dropObj", "move", "erase"} /\ object' # object
  <2>1. op[o].file = f /\ Continues(o) /\ op[o].name \in Name
    BY <1>0, <1>2, BeginsFacts DEF StepOf, NamesRead, Basics
  <2>2. \/ PutObject(o) \/ DeleteObject(o) \/ DropObject(o) \/ EraseObject(o)
        \/ MoveObject(o) \/ CopyObject(o) \/ CopyLargeObject(o)
    BY <1>2, <2>1 DEF Continues, GetFilename, UncheckedName, CreateRow, PutObjectLost, DeleteRow,
       PurgeRow, DropObjectFails, DropRow, Probe, ProbeFails, UpdateName, RequestFails
  <2>3. object[op[o].name] # g
    <3>1. op[o].name \notin Claims(o)
      BY <1>0, <1>2, <2>1 DEF Claims, NamesRead, Basics
    <3> QED BY <1>0, <1>2, <2>1, <3>1, ActsElsewhere DEF Holds, ReferenceFilesAssumption
  <2>4. CASE PutObject(o) \/ DeleteObject(o) \/ DropObject(o) \/ EraseObject(o)
    BY <1>0, <2>1, <2>3, <2>4 DEF PutObject, DeleteObject, DropObject, EraseObject, TypeOK,
       ReferenceFilesAssumption
  <2>5. CASE MoveObject(o) \/ CopyObject(o) \/ CopyLargeObject(o)
    <3>1. op[o].pc = "move" /\ Contest(o, op[o].file, op[o].to)
      BY <2>5 DEF MoveObject, CopyObject, CopyLargeObject
    <3>2. op[o].to \in Name /\ op[o].to # op[o].name
      BY <1>0, <1>2, <3>1 DEF NamesRead, Basics
    <3>3. object[op[o].to] # g
      <4> SUFFICES ASSUME object[op[o].to] = g PROVE FALSE
        OBVIOUS
      <4>1. op[o].to \in Holds(o)
        BY <3>2 DEF Holds, ReferenceFilesAssumption
      <4>2. PICK p \in Working(g) : op[o].to \in Holds(p)
        BY <1>0, <1>2, <2>1, <3>2, <4>1, ActsElsewhere
      <4>3. g \in contested'
        BY <2>1, <3>1, <4>2, Contested DEF Working, Active
      <4> QED BY <4>3 DEF Clean
    <3>4. /\ object \in [Name -> File \union {NoFile}] /\ g # NoFile
          /\ \/ object' = [object EXCEPT ![op[o].to] = object[op[o].name]]
             \/ object' = [object EXCEPT ![op[o].to] = object[op[o].name], ![op[o].name] = NoFile]
      BY <1>0, <2>5 DEF MoveObject, CopyObject, CopyLargeObject, TypeOK, ReferenceFilesAssumption
    <3> QED BY <2>1, <2>3, <3>2, <3>3, <3>4
  <2> QED BY <2>2, <2>4, <2>5
<1> QED BY <1>0, <1>1, <1>2, StepFrame

-----------------------------------------------------------------------------
(* A step about one file leaves what is known of another as it is.         *)
LEMMA Elsewhere ==
    ASSUME ReferenceFilesAssumption, Basics, RowsOwnName, HeldNames,
           NEW o \in Op, NEW f \in File, StepOf(o, f),
           NEW g \in Clean', g # f, FileOK(g)
    PROVE  FileOK(g)'
<1>0. TypeOK /\ g \in File /\ NoName \notin Name
  BY DEF Basics, Clean, ReferenceFilesAssumption
<1>1. /\ row'[g] = row[g]
      /\ g \in acked' <=> g \in acked
      /\ g \in condemned' <=> g \in condemned
  BY <1>0, StepFrame DEF TypeOK
<1>2. Working(g)' = Working(g) /\ \A p \in Working(g) : op'[p] = op[p]
  BY <1>0, StepFrame DEF Working
<1>3. Committed(g)' = Committed(g) /\ Committed(g) \subseteq Working(g)
  BY <1>2 DEF Committed
<1>4. \A n \in Name : object'[n] = g <=> object[n] = g
  BY ObjectsStay DEF FileOK
<1>5. Alone(g)' /\ Located(g)' /\ Phases(g)'
  BY <1>1, <1>2, <1>3, <1>4 DEF FileOK, Alone, Located, Phases
<1>6. Served(g)'
  <2> SUFFICES ASSUME g \in acked \ condemned
               PROVE  /\ row[g] # NoName
                      /\ \A p \in Working(g) : op[p].pc \in {"probe", "move", "erase", "update"}
                      /\ \A p \in Working(g) : op[p].pc \in {"erase", "update"} => object'[op[p].to] = g
                      /\ (\A p \in Working(g) : op[p].pc # "update") => object'[row[g]] = g
    BY <1>1, <1>2 DEF Served
  <2>1. \A p \in Working(g) : op[p].pc \in {"erase", "update"} => op[p].to \in Name
    BY DEF Basics, NamesRead, Working, Active
  <2>2. row[g] # NoName => row[g] \in Name
    BY <1>0 DEF TypeOK
  <2> QED BY <1>4, <2>1, <2>2 DEF FileOK, Served
<1> QED BY <1>5, <1>6 DEF FileOK

(* What a step on a file that stays clean finds: other requests on it are  *)
(* deletions by id that have not begun to delete, unless it is one more.   *)
LEMMA OnlyOne ==
    ASSUME ReferenceFilesAssumption, Basics, NEW o \in Op, NEW f \in Clean', StepOf(o, f), Alone(f)
    PROVE  \/ Begins(o, f) /\ op'[o].pc = "rmRow"
           \/ \A p \in Working(f) \ {o} : op[p].pc = "rmRow"
<1>0. TypeOK /\ f \in File /\ f \notin disturbed'
  BY DEF Basics, Clean
<1>1. CASE Begins(o, f)
  <2>1. CASE f \notin started
    BY <1>0, <2>1 DEF Basics, Begun, Working, Active
  <2>2. CASE Disturbs(o, f)
    BY <1>0, <2>2 DEF Disturbs, Committed
  <2> QED BY <1>0, <1>1, <2>1, <2>2, BeginsFacts
<1>2. CASE Active(o) /\ op[o].file = f /\ Continues(o) /\ op[o].pc # "rmRow"
  BY <1>2 DEF Alone, Committed, Working, Active
<1>3. CASE Active(o) /\ op[o].file = f /\ Continues(o) /\ op[o].pc = "rmRow"
  <2>1. CASE DeleteRow(o)
    BY <1>0, <1>3, <2>1 DEF DeleteRow, Disturbs, Committed
  <2>2. ~RequestFails(o)
    BY <1>0, <1>3 DEF RequestFails, Disturb
  <2> QED BY <1>3, <2>1, <2>2 DEF Continues, GetFilename, UncheckedName, CreateRow, PutObject,
       PutObjectLost, PurgeRow, DeleteObject, DropObject, DropObjectFails, DropRow, Probe,
       ProbeFails, MoveObject, CopyObject, EraseObject, CopyLargeObject, UpdateName
<1> QED BY <1>1, <1>2, <1>3 DEF StepOf

LEMMA BeginsHere ==
    ASSUME ReferenceFilesAssumption, Basics, NEW o \in Op, NEW f \in Clean', Begins(o, f), FileOK(f),
           UNCHANGED datasource
    PROVE  FileOK(f)'
<1>0. TypeOK /\ f \in File /\ NoName \notin Name /\ f \notin disturbed'
  BY DEF Basics, Clean, ReferenceFilesAssumption
<1>1. /\ ~Active(o) /\ op'[o] # Idle /\ op'[o].file = f
      /\ \A p \in Op \ {o} : op'[p] = op[p]
      /\ UNCHANGED <<row, object, acked>>
  BY <1>0, BeginsFacts DEF Idle, Busy, Steps
<1>2. Working(f)' = Working(f) \union {o} /\ o \notin Working(f)
  BY <1>1 DEF Working, Active
<1>3. CASE op'[o].pc = "rmRow"
  <2>1. f \in condemned' /\ Committed(f)' = Committed(f)
    BY <1>0, <1>1, <1>2, <1>3, BeginsFacts DEF Committed, Working
  <2>2. \A p \in Working(f) : op'[p] = op[p]
    BY <1>1, <1>2 DEF Working
  <2>3. Alone(f)' /\ Phases(f)' /\ Served(f)'
    BY <1>1, <2>1, <2>2 DEF FileOK, Alone, Phases, Served, Committed
  <2>4. Located(f)'
    BY <1>1, <1>2, <1>3, <2>2 DEF FileOK, Located
  <2> QED BY <2>3, <2>4 DEF FileOK
<1>4. CASE op'[o].pc # "rmRow"
  <2>1. \A p \in Working(f) : op[p].pc = "rmRow" /\ op'[p] = op[p]
    BY <1>1, <1>2, <1>4, OnlyOne DEF FileOK, StepOf, Working
  <2>2. Committed(f)' = {o}
    BY <1>1, <1>2, <1>4, <2>1 DEF Committed
  <2>3. \A n \in Name : object[n] = f => row[f] = n
    BY <2>1 DEF FileOK, Located
  <2>4. CASE op'[o].pc = "name"
    <3>1. f \notin started
      BY <1>0, <2>4, BeginsFacts
    <3>2. row[f] = NoName /\ f \notin acked /\ \A n \in Name : object[n] # f
      BY <1>0, <3>1 DEF Basics, Begun, TypeOK, ReferenceFilesAssumption
    <3> QED BY <1>1, <2>2, <2>4, <3>2 DEF FileOK, Alone, Located, Phases, Served
  <2>5. CASE op'[o].pc # "name"
    <3>1. /\ row[f] \in Name /\ op'[o].name = row[f]
          /\ \/ op'[o].pc \in {"purgeRow", "dropObj"} /\ f \in condemned'
             \/ op'[o].pc \in {"probe", "move"} /\ condemned' = condemned
      BY <1>0, <1>4, <2>5, BeginsFacts
    <3>2. Alone(f)' /\ Located(f)' /\ Phases(f)'
      BY <1>1, <2>2, <2>3, <3>1 DEF Alone, Located, Phases
    <3>3. ASSUME f \in acked \ condemned' PROVE Working(f) = {} /\ object[row[f]] = f
      <4>1. Working(f) = {}
        BY <2>1, <3>1, <3>3 DEF FileOK, Served
      <4> QED BY <3>1, <3>3, <4>1 DEF FileOK, Served
    <3>4. Served(f)'
      BY <1>1, <1>2, <3>1, <3>3 DEF Served
    <3> QED BY <3>2, <3>4 DEF FileOK
  <2> QED BY <2>4, <2>5
<1> QED BY <1>3, <1>4

LEMMA ContinuesHere ==
    ASSUME ReferenceFilesAssumption, Basics, NEW o \in Op, NEW f \in Clean',
           Active(o), op[o].file = f, Continues(o), FileOK(f), UNCHANGED datasource
    PROVE  FileOK(f)'
<1>0. /\ TypeOK /\ f \in File /\ NoName \notin Name /\ NoFile \notin File
      /\ f \notin disturbed' /\ f \notin contested'
      /\ row \in [File -> Name \union {NoName}] /\ object \in [Name -> File \union {NoFile}]
      /\ o \in Working(f) /\ op[o].name \in Name \union {NoName}
  BY ActiveRecord DEF Basics, Clean, ReferenceFilesAssumption, TypeOK, Working, Active
<1>1. \A p \in Op \ {o} : op'[p] = op[p]
  BY <1>0, ContinuesFacts
<1>2. /\ ~RequestFails(o) /\ ~PutObjectLost(o) /\ ~DropObjectFails(o) /\ ~ProbeFails(o)
      /\ ~CopyLargeObject(o)
      /\ \A n \in Name : ~UncheckedName(o, n)
  BY <1>0 DEF RequestFails, PutObjectLost, DropObjectFails, ProbeFails, CopyLargeObject, UncheckedName,
     Disturb
<1>3. \A p \in Working(f) \ {o} : op[p].pc = "rmRow" /\ op'[p] = op[p]
  BY <1>0, <1>1, OnlyOne, BeginsFacts DEF FileOK, StepOf, Working
<1>4. /\ Working(f)' = IF op'[o] # Idle THEN Working(f) ELSE Working(f) \ {o}
      /\ Committed(f)' = IF op'[o] # Idle /\ op'[o].pc # "rmRow" THEN {o} ELSE {}
  <2>1. op'[o] # Idle => op'[o].file = f
    BY <1>0, ContinuesFacts
  <2>2. Working(f)' = IF op'[o] # Idle THEN Working(f) ELSE Working(f) \ {o}
    BY <1>0, <1>1, <2>1 DEF Working
  <2> QED BY <1>0, <1>3, <2>2 DEF Committed
<1>5. Alone(f)'
  BY <1>4 DEF Alone
<1>6. op[o].pc # "rmRow" => o \in Committed(f)
  BY <1>0 DEF Committed
<1>7. f \in condemned => f \in condemned'
  BY <1>0, StepFrame DEF StepOf
(* While a request other than a removal by id is at work, there are only   *)
(* the objects it accounts for.                                            *)
<1>8. \A n \in Name : object[n] = f =>
        \/ row[f] = n
        \/ op[o].pc = "rmObj" /\ op[o].name = n
        \/ op[o].pc \in {"erase", "update"} /\ op[o].to = n
  BY <1>3 DEF FileOK, Located
<1>9. f \in acked \ condemned => Working(f) = {o} /\ op[o].pc \in {"probe", "move", "erase", "update"}
  BY <1>0, <1>3 DEF FileOK, Served
<1>10. CASE \E n \in Name : GetFilename(o, n)
  <2>1. op[o].pc = "name" /\ op'[o] # Idle /\ op'[o].pc = "create"
        /\ UNCHANGED <<row, object, acked, condemned>>
    BY <1>0, <1>10, ContinuesFacts DEF GetFilename
  <2>2. row[f] = NoName /\ \A n \in Name : object[n] # f
    BY <1>6, <2>1 DEF FileOK, Phases
  <2> QED BY <1>4, <1>5, <1>9, <2>1, <2>2 DEF FileOK, Located, Phases, Served
<1>11. CASE CreateRow(o)
  <2>1. /\ op[o].pc = "create" /\ op'[o] # Idle /\ op'[o].pc = "put" /\ op'[o].name = op[o].name
        /\ row'[f] = op[o].name /\ UNCHANGED <<object, acked, condemned>>
    BY <1>0, <1>11, ContinuesFacts DEF CreateRow
  <2>2. \A n \in Name : object[n] # f
    BY <1>6, <2>1 DEF FileOK, Phases
  <2> QED BY <1>4, <1>5, <1>9, <2>1, <2>2 DEF FileOK, Located, Phases, Served
<1>12. CASE PutObject(o)
  <2>1. /\ op[o].pc = "put" /\ op'[o] = Idle /\ UNCHANGED <<row, condemned>>
        /\ object' = [object EXCEPT ![op[o].name] = f]
    BY <1>0, <1>12, ContinuesFacts DEF Ends, PutObject
  <2>2. row[f] = op[o].name /\ op[o].name \in Name /\ \A n \in Name : object[n] # f
    BY <1>0, <1>6, <2>1 DEF FileOK, Phases, Basics, NamesRead
  <2>3. f \notin condemned => Working(f)' = {}
    BY <1>3, <1>4, <2>1 DEF Basics, Entitled, Working
  <2> QED BY <1>0, <1>4, <1>5, <2>1, <2>2, <2>3 DEF FileOK, Located, Phases, Served
<1>13. CASE DeleteRow(o)
  <2>1. /\ op[o].pc = "rmRow" /\ op'[o] # Idle /\ op'[o].pc = "rmObj" /\ op'[o].name = row[f]
        /\ row'[f] = NoName /\ UNCHANGED <<object, acked, condemned>>
    <3>1. op'[o] # Idle /\ op'[o].pc = "rmObj" /\ op'[o].name = row[f]
      BY <1>0, <1>13, ContinuesFacts, Zenon
    <3> QED BY <1>0, <1>13, <3>1 DEF DeleteRow, TypeOK
  <2> QED BY <1>4, <1>5, <1>8, <1>9, <2>1, <1>0 DEF FileOK, Located, Phases, Served
<1>14. CASE PurgeRow(o)
  <2>1. /\ op[o].pc = "purgeRow" /\ op'[o] # Idle /\ op'[o].pc = "rmObj" /\ op'[o].name = op[o].name
        /\ row'[f] = NoName /\ UNCHANGED <<object, acked, condemned>>
    BY <1>0, <1>14, ContinuesFacts DEF PurgeRow
  <2>2. row[f] = op[o].name
    BY <1>6, <2>1 DEF FileOK, Phases
  <2> QED BY <1>0, <1>4, <1>5, <1>8, <1>9, <2>1, <2>2 DEF FileOK, Located, Phases, Served
<1>15. CASE DeleteObject(o)
  <2>1. /\ op[o].pc = "rmObj" /\ op'[o] = Idle /\ UNCHANGED <<row, acked, condemned>>
        /\ object' = [object EXCEPT ![op[o].name] = NoFile]
    BY <1>0, <1>15, ContinuesFacts DEF Ends, DeleteObject
  <2>2. row[f] = NoName
    BY <1>6, <2>1 DEF FileOK, Phases
  <2>3. \A n \in Name : object'[n] # f
    BY <1>0, <1>8, <2>1, <2>2
  <2> QED BY <1>4, <1>5, <1>9, <2>1, <2>3 DEF FileOK, Located, Phases, Served
<1>16. CASE DropObject(o)
  <2>1. /\ op[o].pc = "dropObj" /\ op'[o] # Idle /\ op'[o].pc = "dropRow" /\ op'[o].name = op[o].name
        /\ object' = [object EXCEPT ![op[o].name] = NoFile] /\ UNCHANGED <<row, acked, condemned>>
    BY <1>0, <1>16, ContinuesFacts DEF DropObject
  <2>2. row[f] = op[o].name
    BY <1>6, <2>1 DEF FileOK, Phases
  <2>3. \A n \in Name : object'[n] # f
    BY <1>0, <1>8, <2>1, <2>2
  <2> QED BY <1>4, <1>5, <1>9, <2>1, <2>2, <2>3 DEF FileOK, Located, Phases, Served
<1>17. CASE DropRow(o)
  <2>1. /\ op[o].pc = "dropRow" /\ op'[o] = Idle /\ row'[f] = NoName
        /\ UNCHANGED <<object, acked, condemned>>
    BY <1>0, <1>17, ContinuesFacts DEF Ends, DropRow
  <2>2. \A n \in Name : object[n] # f
    BY <1>6, <2>1 DEF FileOK, Phases
  <2> QED BY <1>4, <1>5, <1>9, <2>1, <2>2 DEF FileOK, Located, Phases, Served
<1>18. CASE Probe(o)
  <2>1. /\ op[o].pc = "probe" /\ UNCHANGED <<row, object, acked>>
        /\ \/ /\ object[op[o].name] = NoFile /\ f \in condemned'
              /\ op'[o] # Idle /\ op'[o].pc = "dropRow" /\ op'[o].name = op[o].name
           \/ op'[o] = Idle /\ condemned' = condemned
    BY <1>0, <1>18, ContinuesFacts DEF Probe
  <2>2. row[f] = op[o].name
    BY <1>6, <2>1 DEF FileOK, Phases
  <2>3. CASE op'[o] = Idle
    <3>1. f \in acked \ condemned => row[f] # NoName /\ object[row[f]] = f
      BY <1>9, <2>1 DEF FileOK, Served
    <3> QED BY <1>4, <1>5, <1>8, <1>9, <2>1, <2>3, <3>1 DEF FileOK, Located, Phases, Served, Idle
  <2>4. CASE op'[o] # Idle
    <3>1. \A n \in Name : object[n] # f
      BY <1>0, <1>8, <2>1, <2>2, <2>4
    <3> QED BY <1>4, <1>5, <2>1, <2>2, <2>4, <3>1 DEF FileOK, Located, Phases, Served
  <2> QED BY <2>3, <2>4
<1>19. CASE MoveObject(o)
  <2>1. /\ op[o].pc = "move" /\ op'[o] # Idle /\ op'[o].pc = "update"
        /\ op'[o].name = op[o].name /\ op'[o].to = op[o].to
        /\ object' = [object EXCEPT ![op[o].to] = object[op[o].name], ![op[o].name] = NoFile]
        /\ UNCHANGED <<row, acked, condemned>>
    BY <1>0, <1>19, ContinuesFacts DEF MoveObject
  <2>2. row[f] = op[o].name /\ op[o].name \in Name /\ op[o].to \in Name /\ op[o].to # op[o].name
    BY <1>0, <1>6, <2>1 DEF FileOK, Phases, Basics, NamesRead
  <2>3. \A n \in Name : object'[n] = f => n = op[o].to
    BY <1>0, <1>8, <2>1, <2>2
  <2>4. f \in acked \ condemned => object'[op[o].to] = f
    <3>1. f \in acked \ condemned => object[row[f]] = f
      BY <1>9, <2>1 DEF FileOK, Served
    <3> QED BY <1>0, <2>1, <2>2, <3>1
  <2> QED BY <1>0, <1>4, <1>5, <1>9, <2>1, <2>2, <2>3, <2>4 DEF FileOK, Located, Phases, Served
<1>21. CASE CopyObject(o)
  <2>1. /\ op[o].pc = "move" /\ op'[o] # Idle /\ op'[o].pc = "erase"
        /\ op'[o].name = op[o].name /\ op'[o].to = op[o].to
        /\ object' = [object EXCEPT ![op[o].to] = object[op[o].name]]
        /\ UNCHANGED <<row, acked, condemned>>
    BY <1>0, <1>21, ContinuesFacts DEF CopyObject
  <2>2. row[f] = op[o].name /\ op[o].name \in Name /\ op[o].to \in Name /\ op[o].to # op[o].name
    BY <1>0, <1>6, <2>1 DEF FileOK, Phases, Basics, NamesRead
  <2>3. \A n \in Name : object'[n] = f => n \in {row[f], op[o].to}
    BY <1>0, <1>8, <2>1, <2>2
  <2>4. f \in acked \ condemned => object'[op[o].to] = f /\ object'[row[f]] = f
    <3>1. f \in acked \ condemned => object[row[f]] = f
      BY <1>9, <2>1 DEF FileOK, Served
    <3> QED BY <1>0, <2>1, <2>2, <3>1
  <2>5. Located(f)'
    BY <1>0, <1>4, <2>1, <2>3 DEF Located
  <2>6. Phases(f)'
    BY <1>4, <2>1, <2>2 DEF Phases
  <2>7. Served(f)'
    BY <1>0, <1>4, <1>9, <2>1, <2>2, <2>4 DEF Served
  <2> QED BY <1>5, <2>5, <2>6, <2>7 DEF FileOK
<1>22. CASE EraseObject(o)
  <2>1. /\ op[o].pc = "erase" /\ op'[o] # Idle /\ op'[o].pc = "update"
        /\ op'[o].name = op[o].name /\ op'[o].to = op[o].to
        /\ object' = [object EXCEPT ![op[o].name] = NoFile]
        /\ UNCHANGED <<row, acked, condemned>>
    BY <1>0, <1>22, ContinuesFacts DEF EraseObject
  <2>2. row[f] = op[o].name /\ op[o].name \in Name /\ op[o].to \in Name /\ op[o].to # op[o].name
    BY <1>0, <1>6, <2>1 DEF FileOK, Phases, Basics, NamesRead
  <2>3. \A n \in Name : object'[n] = f => n = op[o].to
    BY <1>0, <1>8, <2>1, <2>2
  <2>4. f \in acked \ condemned => object'[op[o].to] = f
    <3>1. f \in acked \ condemned => object[op[o].to] = f
      BY <1>0, <1>9, <2>1 DEF FileOK, Served
    <3> QED BY <1>0, <2>1, <2>2, <3>1
  <2>5. Located(f)'
    BY <1>0, <1>4, <2>1, <2>3 DEF Located
  <2>6. Phases(f)'
    BY <1>4, <2>1, <2>2, <2>3 DEF Phases
  <2>7. Served(f)'
    BY <1>0, <1>4, <1>9, <2>1, <2>2, <2>4 DEF Served
  <2> QED BY <1>5, <2>5, <2>6, <2>7 DEF FileOK
<1>20. CASE UpdateName(o)
  <2>1. /\ op[o].pc = "update" /\ op'[o] = Idle /\ row'[f] = op[o].to
        /\ UNCHANGED <<object, acked, condemned>>
    BY <1>0, <1>20, ContinuesFacts DEF Ends, UpdateName
  <2>2. op[o].to \in Name /\ \A n \in Name : object[n] = f => n = op[o].to
    BY <1>0, <1>6, <2>1 DEF FileOK, Phases, Basics, NamesRead
  <2>3. f \in acked \ condemned => object[op[o].to] = f
    BY <1>0, <2>1 DEF FileOK, Served
  <2> QED BY <1>0, <1>4, <1>5, <1>9, <2>1, <2>2, <2>3 DEF FileOK, Located, Phases, Served
<1> QED BY <1>2, <1>10, <1>11, <1>12, <1>13, <1>14, <1>15, <1>16, <1>17, <1>18, <1>19, <1>20,
     <1>21, <1>22 DEF Continues

LEMMA InitInv == ASSUME ReferenceFilesAssumption PROVE Init => Inv
<1> SUFFICES ASSUME Init PROVE Inv
  OBVIOUS
<1>1. /\ \A o \in Op : op[o] = Idle /\ ~Active(o) /\ op[o].pc = "idle"
      /\ \A f \in File : row[f] = NoName
      /\ \A n \in Name : object[n] = NoFile
      /\ acked = {}
  BY DEF Init, Active, Idle
<1>2. Basics
  BY <1>1 DEF Init, Basics, TypeOK, NamesRead, Begun, Entitled, Steps
<1>3. \A f \in File : Working(f) = {} /\ Committed(f) = {}
  BY <1>1 DEF Working, Committed
<1>4. RowsOwnName /\ HeldNames
  BY <1>1, <1>3 DEF RowsOwnName, HeldNames, Clean
<1>5. \A f \in Clean : FileOK(f)
  BY <1>1, <1>3 DEF FileOK, Alone, Located, Phases, Served, Clean, ReferenceFilesAssumption
<1> QED BY <1>2, <1>4, <1>5 DEF Inv

LEMMA InvStep ==
    ASSUME ReferenceFilesAssumption, Inv, [Next]_vars
    PROVE  Inv'
<1>0. TypeOK
  BY DEF Inv, Basics
<1>1. CASE UNCHANGED vars
  BY <1>1 DEF vars, Inv, Basics, TypeOK, NamesRead, Begun, Entitled, RowsOwnName, HeldNames, Clean, Active,
     Holds, Claims, Working, Committed, FileOK, Alone, Located, Phases, Served
<1>2. ASSUME NEW o \in Op, NEW f \in File, StepOf(o, f) PROVE Inv'
  <2>1. Basics'
    BY <1>2, TypeStep, NamesStep, BegunStep, EntitledStep DEF Inv, Basics
  <2>2. RowsOwnName' /\ HeldNames'
    BY <1>2, RowsStep, HeldStep DEF Inv
  <2>3. ASSUME NEW g \in Clean' PROVE FileOK(g)'
    <3>1. g \in Clean /\ FileOK(g)
      BY <1>0, <1>2, StepFrame DEF Inv
    <3>2. CASE g # f
      BY <1>2, <3>1, <3>2, Elsewhere DEF Inv
    <3>3. CASE g = f
      BY <1>2, <3>1, <3>3, BeginsHere, ContinuesHere DEF Inv, StepOf
    <3> QED BY <3>2, <3>3
  <2> QED BY <2>1, <2>2, <2>3 DEF Inv
<1> QED BY <1>0, <1>1, <1>2, StepSplit

LEMMA Invariant == ASSUME ReferenceFilesAssumption PROVE Spec => []Inv
<1>1. Inv /\ [Next]_vars => Inv'
  BY InvStep
<1> QED BY <1>1, InitInv, PTL DEF Spec

-----------------------------------------------------------------------------
(* Every variable keeps its type: the names, files and steps that requests *)
(* and rows hold are those of the system.                                  *)
THEOREM TypeCorrect == Spec => []TypeOK
<1>1. Inv => TypeOK
  BY DEF Inv, Basics
<1> QED BY <1>1, Invariant, ReferenceFilesAssumption, PTL

(* A file that was acknowledged, that nobody asked to remove and whose     *)
(* name was not contested is served, unless its own requests crossed, one  *)
(* failed or S3 passed over a call of theirs that failed: however uploads, *)
(* renames, deletions, tasks and failures of others interleave.            *)
THEOREM AckedFilesServed == Spec => []AckedServed
<1>1. Inv => AckedServed
  <2> SUFFICES ASSUME Inv, NEW f \in acked \ (condemned \union contested \union disturbed)
               PROVE  \/ row[f] # NoName /\ object[row[f]] = f
                      \/ \E o \in Working(f) : op[o].pc = "update" /\ object[op[o].to] = f
    BY DEF AckedServed
  <2>1. f \in Clean
    BY DEF Inv, Basics, TypeOK, Clean
  <2> QED BY <2>1 DEF Inv, FileOK, Served
<1> QED BY <1>1, Invariant, ReferenceFilesAssumption, PTL

(* An object without a row or a request at work on its file is one of a    *)
(* file whose name was contested, whose requests crossed or failed or had  *)
(* a failed call passed over by S3, or which is too large for a rename on  *)
(* S3 to take it from its old key.                                         *)
THEOREM NothingIsLeft == Spec => []NothingLeft
<1>1. Inv => NothingLeft
  <2> SUFFICES ASSUME Inv, NEW n \in Name, object[n] # NoFile,
                      object[n] \notin contested \union disturbed
               PROVE  row[object[n]] = n \/ Working(object[n]) # {}
    BY DEF NothingLeft
  <2>1. object[n] \in Clean
    BY DEF Inv, Basics, TypeOK, Clean
  <2> QED BY <2>1 DEF Inv, FileOK, Located
<1> QED BY <1>1, Invariant, ReferenceFilesAssumption, PTL

-----------------------------------------------------------------------------
(* The quota: an upload that has counted the rows and not yet added its    *)
(* own counts as one of the requests at work.                              *)
Pending == {o \in Op : op[o].pc \in {"name", "create"}}

Quota == Cardinality(Rows) + Cardinality(Pending) <= MaxFiles + Cardinality(Op) - 1

LEMMA Numbers ==
    ASSUME ReferenceFilesAssumption
    PROVE  /\ IsFiniteSet(Rows) /\ Cardinality(Rows) \in Nat
           /\ IsFiniteSet(Pending) /\ Cardinality(Pending) \in Nat
           /\ Cardinality(Op) \in Nat /\ Cardinality(Op) > 0 /\ Cardinality(Pending) <= Cardinality(Op)
           /\ MaxFiles \in Nat
<1>1. IsFiniteSet(Rows) /\ IsFiniteSet(Pending) /\ Cardinality(Pending) <= Cardinality(Op)
  BY FS_Subset DEF ReferenceFilesAssumption, Rows, Pending
<1>2. Cardinality(Op) # 0
  BY FS_EmptySet DEF ReferenceFilesAssumption
<1> QED BY <1>1, <1>2, FS_CardinalityType DEF ReferenceFilesAssumption

LEMMA QuotaStep ==
    ASSUME ReferenceFilesAssumption, Basics, Quota, NEW o \in Op, NEW f \in File, StepOf(o, f)
    PROVE  Quota'
<1>0. TypeOK /\ NamesRead /\ NoName \notin Name /\ row \in [File -> Name \union {NoName}]
  BY DEF Basics, TypeOK, ReferenceFilesAssumption
<1>1. /\ \A p \in Op \ {o} : op'[p] = op[p]
      /\ \A h \in File \ {f} : row'[h] = row[h]
  BY <1>0, StepFrame
<1>2. /\ Cardinality(Rows)' \in Nat /\ Cardinality(Pending)' \in Nat
      /\ IsFiniteSet(Rows)' /\ Cardinality(Pending)' <= Cardinality(Op)
  <2>1. IsFiniteSet(Rows)' /\ IsFiniteSet(Pending)' /\ Cardinality(Pending)' <= Cardinality(Op)
    BY FS_Subset DEF ReferenceFilesAssumption, Rows, Pending
  <2> QED BY <2>1, FS_CardinalityType
<1>3. CASE CheckQuota(o, f)
  <2>1. Rows' = Rows /\ Cardinality(Rows) + 1 <= MaxFiles
    BY <1>3 DEF CheckQuota, Rows
  <2> QED BY <1>2, <2>1, Numbers DEF Quota
<1>4. CASE Active(o) /\ CreateRow(o)
  <2>1. Rows' \subseteq Rows \union {f}
    BY <1>1 DEF Rows
  <2>2. Cardinality(Rows)' <= Cardinality(Rows) + 1
    <3>1. /\ IsFiniteSet(Rows \union {f})
          /\ Cardinality(Rows \union {f}) \in {Cardinality(Rows), Cardinality(Rows) + 1}
      BY Numbers, FS_AddElement
    <3>2. Cardinality(Rows') <= Cardinality(Rows \union {f})
      BY <2>1, <3>1, FS_Subset
    <3> QED BY <1>2, <3>1, <3>2, Numbers
  <2>3. o \in Pending /\ Pending' = Pending \ {o}
    <3>1. op[o].pc = "create" /\ op'[o].pc = "put"
      BY <1>0, <1>4, ContinuesFacts DEF CreateRow, Continues
    <3> QED BY <1>1, <3>1 DEF Pending
  <2>4. Cardinality(Pending)' = Cardinality(Pending) - 1
    BY <2>3, Numbers, FS_RemoveElement
  <2> QED BY <1>2, <2>2, <2>4, Numbers DEF Quota
<1>5. CASE Rows' \subseteq Rows /\ Pending' \subseteq Pending
  <2>1. Cardinality(Rows)' <= Cardinality(Rows) /\ Cardinality(Pending)' <= Cardinality(Pending)
    BY <1>5, Numbers, FS_Subset
  <2> QED BY <1>2, <2>1, Numbers DEF Quota
<1>6. CASE Begins(o, f) /\ ~CheckQuota(o, f)
  <2>1. op'[o].pc \notin {"name", "create"} /\ row' = row
    BY <1>0, <1>6, BeginsFacts
  <2> QED BY <1>1, <1>5, <2>1 DEF Rows, Pending
<1>7. CASE Active(o) /\ op[o].file = f /\ Continues(o) /\ ~CreateRow(o)
  <2>1. Rows' \subseteq Rows
    <3>1. row' = row \/ row'[f] = NoName \/ UpdateName(o)
      BY <1>0, <1>7 DEF Continues, GetFilename, UncheckedName, PutObject, PutObjectLost, DeleteRow,
         PurgeRow, DeleteObject, DropObject, DropObjectFails, DropRow, Probe, ProbeFails,
         MoveObject, CopyObject, EraseObject, CopyLargeObject, RequestFails
    <3> QED BY <1>1, <1>7, <3>1 DEF Rows, UpdateName
  <2>2. op'[o].pc \in {"name", "create"} => op[o].pc \in {"name", "create"}
    BY <1>0, <1>7, ContinuesFacts DEF Continues, Ends, GetFilename, UncheckedName, Idle
  <2> QED BY <1>1, <1>5, <2>1, <2>2 DEF Pending
<1> QED BY <1>3, <1>4, <1>6, <1>7 DEF StepOf

(* Uploads that count the rows at once exceed a quota of files by no more  *)
(* than their number less one.                                             *)
THEOREM QuotaExceededByFew == Spec => []QuotaBounded
<1>1. Init => Quota
  <2> SUFFICES ASSUME Init PROVE Quota
    OBVIOUS
  <2>1. Rows = {} /\ Pending = {}
    BY DEF Init, Rows, Pending, Idle
  <2> QED BY <2>1, Numbers, FS_EmptySet, ReferenceFilesAssumption DEF Quota
<1>2. Inv /\ Quota /\ [Next]_vars => Quota'
  <2> SUFFICES ASSUME Inv, Quota, [Next]_vars PROVE Quota'
    OBVIOUS
  <2>1. Basics /\ TypeOK
    BY DEF Inv, Basics
  <2>2. CASE UNCHANGED vars
    BY <2>2 DEF vars, Quota, Rows, Pending
  <2> QED BY <2>1, <2>2, StepSplit, QuotaStep, ReferenceFilesAssumption
<1>3. Quota => QuotaBounded
  BY Numbers, ReferenceFilesAssumption DEF Quota, QuotaBounded
<1> QED BY <1>1, <1>2, <1>3, Invariant, ReferenceFilesAssumption, PTL DEF Spec

-----------------------------------------------------------------------------
(* Accounts.                                                               *)
RequestsOfAccounts == [pc: Spread!Steps, by: User \union {None}, on: User \union {None},
    name: UserName \union Provider \union {None}, role: Spread!Roles,
    ident: Identity \union {None}, seen: SUBSET Identity, owner: SUBSET User, taken: BOOLEAN]

AccountsTyped ==
    /\ Spread!TypeOK
    /\ req \in [Req -> RequestsOfAccounts \union {Spread!Idle}]
    /\ \A r \in Req :
        /\ req[r].pc \in {"patch", "dropLinks", "remove"} => req[r].on \in User
        /\ req[r].pc \in {"self", "link", "relink", "password", "unlink"} => req[r].by \in User
        /\ req[r].pc \in {"session", "link", "relink", "signup"} => req[r].ident \in Identity
        /\ req[r].pc \in {"root", "insert"} => req[r].name \in UserName
        /\ req[r].pc = "self" => req[r].name \in UserName \union {None}

(* An account that a request is about to change or to delete was there and *)
(* was no SUPERADMIN; once there, an id is not given again.                *)
TargetsBelow == \A r \in Req :
    req[r].pc \in {"patch", "dropLinks", "remove"} =>
        /\ req[r].on \in Spread!Here \union condemnedUsers
        /\ account[req[r].on].here => account[req[r].on].role # "SUPERADMIN"
        /\ req[r].pc = "patch" => req[r].role # "SUPERADMIN"
        /\ req[r].pc = "remove" => req[r].on \in condemnedUsers

(* No two requests concern one account, and what they concern is there.    *)
Apart ==
    /\ \A r, s \in Req : r # s => Spread!Concerns(req[r]) \intersect Spread!Concerns(req[s]) = {}
    /\ \A r \in Req : Spread!Concerns(req[r]) \subseteq Spread!Here

OneOfEach(u) == \A i, j \in account[u].links : ProviderOf[i] = ProviderOf[j] => i = j
MaySignIn(u) == account[u].password \/ account[u].links # {}

(* What a request has read of the account that makes it still holds.       *)
ReadHolds(q) ==
    /\ q.pc = "password" => q.seen = account[q.by].links
    /\ q.pc = "link" => Spread!OfProvider(account[q.by].links, ProviderOf[q.ident]) = {}
    /\ q.pc = "relink" => q.seen = Spread!OfProvider(account[q.by].links, ProviderOf[q.ident])
    /\ q.pc = "unlink" =>
         account[q.by].password \/ \E i \in account[q.by].links : ProviderOf[i] # q.name

SignInKept ==
    /\ Apart
    /\ \A u \in Spread!Here : OneOfEach(u)
    /\ \A u \in Spread!Here \ condemnedUsers : MaySignIn(u)
    /\ \A r \in Req : ReadHolds(req[r])

AccountsInv == AccountsTyped /\ TargetsBelow /\ (alone => SignInKept)


(* A request that starts, goes on to another step, or ends.                *)
LEMMA RequestsTyped ==
    ASSUME AccountsTyped, NEW r \in Req
    PROVE  /\ \A q \in RequestsOfAccounts : Spread!Start(r, q) =>
                 req' \in [Req -> RequestsOfAccounts \union {Spread!Idle}]
                 /\ req'[r] = q /\ \A s \in Req \ {r} : req'[s] = req[s]
           /\ Spread!Finish(r) =>
                 req' \in [Req -> RequestsOfAccounts \union {Spread!Idle}]
                 /\ req'[r] = Spread!Idle /\ \A s \in Req \ {r} : req'[s] = req[s]
           /\ \A pc \in Spread!Steps : Spread!Goto(r, pc) /\ req[r] # Spread!Idle =>
                 req' \in [Req -> RequestsOfAccounts \union {Spread!Idle}]
                 /\ req'[r] = [req[r] EXCEPT !.pc = pc] /\ \A s \in Req \ {r} : req'[s] = req[s]
           /\ req[r] # Spread!Idle => req[r] \in RequestsOfAccounts
           /\ req[r].pc \in Spread!Steps => req[r] # Spread!Idle
<1>1. req \in [Req -> RequestsOfAccounts \union {Spread!Idle}]
  BY DEF AccountsTyped
<1>2. ASSUME NEW q \in RequestsOfAccounts \union {Spread!Idle}, req' = [req EXCEPT ![r] = q]
      PROVE  /\ req' \in [Req -> RequestsOfAccounts \union {Spread!Idle}]
             /\ req'[r] = q /\ \A s \in Req \ {r} : req'[s] = req[s]
  <2> HIDE DEF RequestsOfAccounts, Spread!Idle
  <2> QED BY <1>1, <1>2
<1>3. ASSUME NEW q \in RequestsOfAccounts, Spread!Start(r, q)
      PROVE  /\ req' \in [Req -> RequestsOfAccounts \union {Spread!Idle}]
             /\ req'[r] = q /\ \A s \in Req \ {r} : req'[s] = req[s]
  <2>1. req' = [req EXCEPT ![r] = q]
    BY <1>3 DEF Spread!Start
  <2> QED BY <1>2, <2>1
<1>4. ASSUME Spread!Finish(r)
      PROVE  /\ req' \in [Req -> RequestsOfAccounts \union {Spread!Idle}]
             /\ req'[r] = Spread!Idle /\ \A s \in Req \ {r} : req'[s] = req[s]
  <2>1. req' = [req EXCEPT ![r] = Spread!Idle]
    BY <1>4 DEF Spread!Finish
  <2> QED BY <1>2, <2>1
<1>5. req[r] # Spread!Idle => req[r] \in RequestsOfAccounts
  BY <1>1
<1>6. ASSUME NEW pc \in Spread!Steps, Spread!Goto(r, pc), req[r] # Spread!Idle
      PROVE  /\ req' \in [Req -> RequestsOfAccounts \union {Spread!Idle}]
             /\ req'[r] = [req[r] EXCEPT !.pc = pc] /\ \A s \in Req \ {r} : req'[s] = req[s]
  <2>1. [req[r] EXCEPT !.pc = pc] \in RequestsOfAccounts
    BY <1>5, <1>6 DEF RequestsOfAccounts
  <2>2. req' = [req EXCEPT ![r] = [req[r] EXCEPT !.pc = pc]]
    BY <1>6 DEF Spread!Goto
  <2> QED BY <1>2, <2>1, <2>2
<1>7. req[r].pc \in Spread!Steps => req[r] # Spread!Idle
  BY DEF Spread!Idle, Spread!Steps
<1> QED BY <1>3, <1>4, <1>5, <1>6, <1>7

LEMMA StartsTyped ==
    ASSUME NEW pc \in Spread!Steps, NEW by \in User \union {None}, NEW on \in User \union {None}
    PROVE  Spread!Request(pc, by, on) \in RequestsOfAccounts
  BY DEF RequestsOfAccounts, Spread!Request, Spread!Roles

StartsWith(q) ==
    /\ q.pc \in {"patch", "dropLinks", "remove"} => q.on \in User
    /\ q.pc \in {"self", "link", "relink", "password", "unlink"} => q.by \in User
    /\ q.pc \in {"session", "link", "relink", "signup"} => q.ident \in Identity
    /\ q.pc \in {"root", "insert"} => q.name \in UserName
    /\ q.pc = "self" => q.name \in UserName \union {None}

AccountRows == [User -> [here: BOOLEAN, name: UserName \union {None}, role: Spread!Roles,
                         password: BOOLEAN, links: SUBSET Identity]]

LEMMA GoingOnTyped ==
    ASSUME AccountsTyped, NEW r \in Req, NEW q \in RequestsOfAccounts \union {Spread!Idle},
           StartsWith(q), req' = [req EXCEPT ![r] = q],
           firstSetup' \in BOOLEAN, alone' \in BOOLEAN, account' \in AccountRows, condemnedUsers' \subseteq User
    PROVE  AccountsTyped'
<1>1. req' \in [Req -> RequestsOfAccounts \union {Spread!Idle}] /\ \A s \in Req : req'[s] = IF s = r THEN q ELSE req[s]
  BY DEF AccountsTyped
<1>2. \A s \in Req : req'[s] = Spread!Idle \/ req'[s].pc \in Spread!Steps
  BY <1>1 DEF RequestsOfAccounts
<1>3. Spread!TypeOK'
  BY <1>2 DEF Spread!TypeOK, AccountRows
<1>4. \A s \in Req : StartsWith(req[s])
  BY DEF AccountsTyped, StartsWith
<1>5. \A s \in Req : StartsWith(req'[s])
  BY <1>1, <1>4
<1> QED BY <1>1, <1>3, <1>5 DEF AccountsTyped, StartsWith

LEMMA DataTyped ==
    ASSUME AccountsTyped
    PROVE  /\ firstSetup \in BOOLEAN /\ alone \in BOOLEAN /\ account \in AccountRows /\ condemnedUsers \subseteq User
           /\ StartsWith(Spread!Idle)
  BY DEF AccountsTyped, Spread!TypeOK, AccountRows, StartsWith, Spread!Idle

LEMMA StartingTyped ==
    ASSUME AccountsTyped, NEW r \in Req, NEW q \in RequestsOfAccounts, Spread!Start(r, q),
           StartsWith(q), UNCHANGED <<firstSetup, account, condemnedUsers, alone>>
    PROVE  AccountsTyped'
  BY GoingOnTyped, DataTyped DEF Spread!Start

(* The row of one account is written, and the request ends or goes on.     *)
LEMMA WritingTyped ==
    ASSUME AccountsTyped, NEW r \in Req, NEW q \in RequestsOfAccounts \union {Spread!Idle},
           StartsWith(q), req' = [req EXCEPT ![r] = q],
           NEW u \in User, NEW entry, Spread!Update(u, entry),
           entry \in [here: BOOLEAN, name: UserName \union {None}, role: Spread!Roles,
                    password: BOOLEAN, links: SUBSET Identity],
           UNCHANGED <<firstSetup, condemnedUsers, alone>>
    PROVE  AccountsTyped'
<1>1. account' \in AccountRows
  BY DataTyped DEF AccountRows, Spread!Update
<1> QED BY <1>1, GoingOnTyped, DataTyped

(* The ways a callback goes on: with no link of the provider it links the  *)
(* identity, with one it links it anew, without a session it signs up.     *)
LEMMA SessionPaths ==
    ASSUME AccountsTyped, NEW r \in Req, Spread!ReadSession(r)
    PROVE  \/ req' = [req EXCEPT ![r] = Spread!Idle]
           \/ \E pc \in {"link", "relink", "signup"}, linked \in SUBSET Identity :
                /\ req' = [req EXCEPT ![r] = [req[r] EXCEPT !.pc = pc, !.seen = linked, !.owner = {}, !.taken = FALSE]]
                /\ pc \in {"link", "relink"} =>
                     /\ req[r].by \in Spread!Here
                     /\ linked = Spread!OfProvider(account[req[r].by].links, ProviderOf[req[r].ident])
                /\ pc = "link" => linked = {}
                /\ pc = "relink" => linked # {}
<1> DEFINE u == IF req[r].by \in Spread!Here THEN req[r].by ELSE None
           linked == IF u = None THEN {}
                     ELSE Spread!OfProvider(account[u].links, ProviderOf[req[r].ident])
           signIn == CASE linked # {} -> {"relink"}
                       [] req[r].owner # {} -> {"idle"}
                       [] OTHER -> IF req[r].taken THEN {"idle"} ELSE {"idle", "signup"}
<1>0. req \in [Req -> RequestsOfAccounts \union {Spread!Idle}] /\ account \in AccountRows
  BY DataTyped DEF AccountsTyped
<1>1. linked \in SUBSET Identity
  BY <1>0 DEF Spread!OfProvider, AccountRows, Spread!Here
<1>2. PICK pc \in (IF u # None /\ linked = {} THEN {"link"} ELSE {}) \union signIn :
        req' = [req EXCEPT ![r] = IF pc = "idle" THEN Spread!Idle
                                  ELSE [@ EXCEPT !.pc = pc, !.seen = linked, !.owner = {}, !.taken = FALSE]]
  BY DEF Spread!ReadSession
<1>3. signIn \subseteq {"idle", "relink", "signup"} /\ ("relink" \in signIn => linked # {})
  BY Zenon
<1>4. /\ pc \in {"idle", "link", "relink", "signup"}
      /\ pc = "link" => u # None /\ linked = {}
      /\ pc = "relink" => linked # {}
  <2> HIDE DEF signIn, linked, u
  <2> QED BY <1>2, <1>3
<1>5. CASE pc = "idle"
  BY <1>2, <1>5
<1>6. CASE pc # "idle"
  <2>1. req' = [req EXCEPT ![r] = [req[r] EXCEPT !.pc = pc, !.seen = linked, !.owner = {}, !.taken = FALSE]]
    <3> HIDE DEF linked
    <3> QED BY <1>0, <1>2, <1>6
  <2>2. pc \in {"link", "relink"} =>
          /\ req[r].by \in Spread!Here
          /\ linked = Spread!OfProvider(account[req[r].by].links, ProviderOf[req[r].ident])
    BY <1>4
  <2> HIDE DEF linked
  <2> QED BY <1>1, <1>4, <1>6, <2>1, <2>2
<1> QED BY <1>5, <1>6

LEMMA AccountsTypedStep ==
    ASSUME Spread!AccountsAssumption, AccountsTyped, NEW r \in Req, Spread!Handle(r)
    PROVE  AccountsTyped'
<1> USE DEF Spread!AccountsAssumption, Spread!Here
<1>0. /\ Spread!TypeOK /\ req \in [Req -> RequestsOfAccounts \union {Spread!Idle}]
  BY DEF AccountsTyped
<1>1. ASSUME NEW n \in UserName, Spread!Setup(r, n) PROVE AccountsTyped'
  <2> DEFINE q == [Spread!Request("root", None, None) EXCEPT !.name = n]
  <2>1. q \in RequestsOfAccounts /\ StartsWith(q)
    BY DEF RequestsOfAccounts, Spread!Request, Spread!Roles, Spread!Steps, StartsWith
  <2> QED BY <1>1, <2>1, StartingTyped DEF Spread!Setup
<1>2. ASSUME NEW by \in User, NEW n \in UserName, NEW role \in Spread!Roles, Spread!CreateUser(r, by, n, role)
      PROVE  AccountsTyped'
  <2> DEFINE q == [Spread!Request("insert", by, None) EXCEPT !.name = n, !.role = role]
  <2>1. q \in RequestsOfAccounts /\ StartsWith(q)
    BY DEF RequestsOfAccounts, Spread!Request, Spread!Roles, Spread!Steps, StartsWith
  <2> QED BY <1>2, <2>1, StartingTyped DEF Spread!CreateUser
<1>3. ASSUME NEW by \in User, NEW u \in User, NEW role \in Spread!Roles, Spread!PatchUser(r, by, u, role)
      PROVE  AccountsTyped'
  <2> DEFINE q == [Spread!Request("patch", by, u) EXCEPT !.role = role]
  <2>1. q \in RequestsOfAccounts /\ StartsWith(q)
    BY DEF RequestsOfAccounts, Spread!Request, Spread!Roles, Spread!Steps, StartsWith
  <2> QED BY <1>3, <2>1, StartingTyped DEF Spread!PatchUser
<1>4. ASSUME NEW by \in User, NEW u \in User, Spread!DeleteUser(r, by, u) PROVE AccountsTyped'
  <2> DEFINE q == Spread!Request("dropLinks", by, u)
  <2>1. q \in RequestsOfAccounts /\ StartsWith(q)
    BY DEF RequestsOfAccounts, Spread!Request, Spread!Roles, Spread!Steps, StartsWith
  <2> QED BY <1>4, <2>1, StartingTyped DEF Spread!DeleteUser
<1>5. ASSUME NEW u \in User, NEW n \in UserName \union {None}, Spread!PatchSelf(r, u, n)
      PROVE  AccountsTyped'
  <2> DEFINE q == [Spread!Request("self", u, None) EXCEPT !.name = n]
  <2>1. q \in RequestsOfAccounts /\ StartsWith(q)
    BY DEF RequestsOfAccounts, Spread!Request, Spread!Roles, Spread!Steps, StartsWith
  <2> QED BY <1>5, <2>1, StartingTyped DEF Spread!PatchSelf
<1>6. ASSUME NEW i \in Identity, NEW by \in User \union {None}, Spread!Callback(r, i, by)
      PROVE  AccountsTyped'
  <2> DEFINE q == [Spread!Request("session", by, None) EXCEPT
                    !.ident = i, !.owner = Spread!Owner(i), !.taken = Spread!NameTaken(NameOf[i])]
  <2>1. Spread!Owner(i) \in SUBSET User /\ Spread!NameTaken(NameOf[i]) \in BOOLEAN
    BY DEF Spread!Owner, Spread!NameTaken
  <2>2. q \in RequestsOfAccounts /\ StartsWith(q)
    BY <2>1 DEF RequestsOfAccounts, Spread!Request, Spread!Roles, Spread!Steps, StartsWith
  <2> QED BY <1>6, <2>2, StartingTyped DEF Spread!Callback
<1>7. ASSUME NEW u \in User, NEW p \in Provider, Spread!Unlink(r, u, p) PROVE AccountsTyped'
  <2> DEFINE q == [Spread!Request("password", u, None) EXCEPT !.name = p, !.seen = account[u].links]
  <2>1. account[u].links \in SUBSET Identity
    BY <1>0 DEF Spread!TypeOK
  <2>2. q \in RequestsOfAccounts /\ StartsWith(q)
    BY <2>1 DEF RequestsOfAccounts, Spread!Request, Spread!Roles, Spread!Steps, StartsWith
  <2> QED BY <1>7, <2>2, StartingTyped DEF Spread!Unlink
<1>r. /\ \A u \in User : account[u] \in [here: BOOLEAN, name: UserName \union {None}, role: Spread!Roles,
                                          password: BOOLEAN, links: SUBSET Identity]
      /\ StartsWith(Spread!Idle)
  BY DataTyped DEF AccountRows
<1>8. ASSUME NEW u \in User, Spread!CreateRoot(r, u) \/ Spread!InsertUser(r, u) \/ Spread!SignUp(r, u)
      PROVE  AccountsTyped'
  <2>1. CASE Spread!CreateRoot(r, u)
    <3>1. req[r].name \in UserName /\ req[r] \in RequestsOfAccounts
      BY <2>1, RequestsTyped DEF AccountsTyped, Spread!CreateRoot, Spread!Steps
    <3>2. [req[r] EXCEPT !.pc = "mark"] \in RequestsOfAccounts /\ StartsWith([req[r] EXCEPT !.pc = "mark"])
      BY <3>1 DEF RequestsOfAccounts, Spread!Steps, StartsWith
    <3>3. req' = [req EXCEPT ![r] = [req[r] EXCEPT !.pc = "mark"]]
      BY <1>0, <2>1 DEF Spread!CreateRoot, Spread!Goto
    <3> QED BY <2>1, <3>1, <3>2, <3>3, WritingTyped DEF Spread!CreateRoot, Spread!Roles
  <2>2. CASE Spread!InsertUser(r, u)
    <3>1. req[r].name \in UserName /\ req[r].role \in Spread!Roles
      BY <2>2, RequestsTyped DEF AccountsTyped, Spread!InsertUser, Spread!Steps, RequestsOfAccounts
    <3> QED BY <1>r, <2>2, <3>1, WritingTyped DEF Spread!InsertUser, Spread!Finish
  <2>3. CASE Spread!SignUp(r, u)
    <3>1. req[r].ident \in Identity
      BY <2>3, RequestsTyped DEF AccountsTyped, Spread!SignUp
    <3> QED BY <1>r, <2>3, <3>1, WritingTyped DEF Spread!SignUp, Spread!Finish, Spread!Roles
  <2> QED BY <1>8, <2>1, <2>2, <2>3
<1>9. CASE Spread!MarkSetup(r) \/ Spread!Fail(r)
  BY <1>r, <1>9, GoingOnTyped, DataTyped DEF Spread!MarkSetup, Spread!Fail, Spread!Finish
<1>10. CASE Spread!UpdateUser(r)
  <2>1. req[r].on \in User /\ req[r].role \in Spread!Roles
    BY <1>10, RequestsTyped DEF AccountsTyped, Spread!UpdateUser, Spread!Steps, RequestsOfAccounts
  <2>2. PICK password \in BOOLEAN : Spread!Update(req[r].on,
            [account[req[r].on] EXCEPT !.role = req[r].role, !.password = password])
    BY <1>10 DEF Spread!UpdateUser
  <2>3. [account[req[r].on] EXCEPT !.role = req[r].role, !.password = password]
         \in [here: BOOLEAN, name: UserName \union {None}, role: Spread!Roles,
                  password: BOOLEAN, links: SUBSET Identity]
    BY <1>r, <2>1
  <2>4. req' = [req EXCEPT ![r] = Spread!Idle] /\ UNCHANGED <<firstSetup, condemnedUsers, alone>>
    BY <1>10 DEF Spread!UpdateUser, Spread!Finish
  <2> QED BY <1>r, <2>1, <2>2, <2>3, <2>4, WritingTyped
<1>11. CASE Spread!DropLinks(r)
  <2>1. req[r].on \in User /\ req[r] \in RequestsOfAccounts
    BY <1>11, RequestsTyped DEF AccountsTyped, Spread!DropLinks, Spread!Steps
  <2>2. [req[r] EXCEPT !.pc = "remove"] \in RequestsOfAccounts /\ StartsWith([req[r] EXCEPT !.pc = "remove"])
    BY <2>1 DEF RequestsOfAccounts, Spread!Steps, StartsWith
  <2>3. req' = [req EXCEPT ![r] = [req[r] EXCEPT !.pc = "remove"]]
    BY <1>0, <1>11 DEF Spread!DropLinks, Spread!Goto
  <2>4. account' \in AccountRows
    BY <1>11, <2>1, DataTyped DEF Spread!DropLinks, AccountRows
  <2> QED BY <1>11, <2>1, <2>2, <2>3, <2>4, GoingOnTyped, DataTyped DEF Spread!DropLinks
<1>12. CASE Spread!RemoveUser(r)
  <2>1. req[r].on \in User
    BY <1>12 DEF AccountsTyped, Spread!RemoveUser
  <2> QED BY <1>r, <1>12, <2>1, WritingTyped DEF Spread!RemoveUser, Spread!Finish, Spread!Nobody, Spread!Roles
<1>13. CASE Spread!UpdateSelf(r)
  <2>1. req[r].by \in User /\ req[r].name \in UserName \union {None}
    BY <1>13 DEF AccountsTyped, Spread!UpdateSelf
  <2>2. PICK password \in BOOLEAN : Spread!Update(req[r].by,
            [account[req[r].by] EXCEPT !.password = password,
                                       !.name = IF req[r].name = None THEN @ ELSE req[r].name])
    BY <1>13 DEF Spread!UpdateSelf
  <2>3. [account[req[r].by] EXCEPT !.password = password,
                                   !.name = IF req[r].name = None THEN @ ELSE req[r].name]
         \in [here: BOOLEAN, name: UserName \union {None}, role: Spread!Roles,
                  password: BOOLEAN, links: SUBSET Identity]
    BY <1>r, <2>1
  <2>4. req' = [req EXCEPT ![r] = Spread!Idle] /\ UNCHANGED <<firstSetup, condemnedUsers, alone>>
    BY <1>13 DEF Spread!UpdateSelf, Spread!Finish
  <2> QED BY <1>r, <2>1, <2>2, <2>3, <2>4, WritingTyped
<1>14. CASE Spread!ReadSession(r)
  <2>1. req[r].ident \in Identity /\ req[r] \in RequestsOfAccounts
    BY <1>14, RequestsTyped DEF AccountsTyped, Spread!ReadSession, Spread!Steps
  <2>2. CASE req' = [req EXCEPT ![r] = Spread!Idle]
    BY <1>14, <1>r, <2>2, GoingOnTyped, DataTyped DEF Spread!ReadSession
  <2>3. ASSUME NEW pc \in {"link", "relink", "signup"}, NEW linked \in SUBSET Identity,
               req' = [req EXCEPT ![r] = [req[r] EXCEPT !.pc = pc, !.seen = linked, !.owner = {}, !.taken = FALSE]],
               pc \in {"link", "relink"} => req[r].by \in Spread!Here
        PROVE  AccountsTyped'
    <3> DEFINE q == [req[r] EXCEPT !.pc = pc, !.seen = linked, !.owner = {}, !.taken = FALSE]
    <3>1. q \in RequestsOfAccounts /\ StartsWith(q)
      BY <2>1, <2>3 DEF RequestsOfAccounts, Spread!Steps, StartsWith
    <3> HIDE DEF q
    <3> QED BY <1>14, <2>3, <3>1, GoingOnTyped, DataTyped DEF Spread!ReadSession, q
  <2> QED BY <1>14, <2>2, <2>3, SessionPaths
<1>15. CASE Spread!Link(r) \/ Spread!Relink(r) \/ Spread!DeleteLinks(r)
  <2>1. req[r].by \in User
    BY <1>15 DEF AccountsTyped, Spread!Link, Spread!Relink, Spread!DeleteLinks
  <2>2. PICK links \in SUBSET Identity : Spread!Update(req[r].by, [account[req[r].by] EXCEPT !.links = links])
    <3>1. account[req[r].by].links \subseteq Identity
      BY <1>r, <2>1
    <3>2. CASE Spread!Link(r)
      <4>1. req[r].ident \in Identity
        BY <3>2 DEF AccountsTyped, Spread!Link
      <4>2. account[req[r].by].links \union {req[r].ident} \in SUBSET Identity
        BY <3>1, <4>1
      <4> QED BY <3>2, <4>2 DEF Spread!Link
    <3>3. CASE Spread!Relink(r)
      <4>1. req[r].ident \in Identity
        BY <3>3 DEF AccountsTyped, Spread!Relink
      <4>2. \A old : (account[req[r].by].links \ {old}) \union {req[r].ident} \in SUBSET Identity
        BY <3>1, <4>1
      <4> QED BY <3>3, <4>2 DEF Spread!Relink
    <3>4. CASE Spread!DeleteLinks(r)
      <4>1. account[req[r].by].links \ Spread!OfProvider(account[req[r].by].links, req[r].name) \in SUBSET Identity
        BY <3>1
      <4> QED BY <3>4, <4>1 DEF Spread!DeleteLinks
    <3> QED BY <1>15, <3>2, <3>3, <3>4
  <2>3. req' = [req EXCEPT ![r] = Spread!Idle] /\ UNCHANGED <<firstSetup, condemnedUsers, alone>>
    BY <1>15 DEF Spread!Link, Spread!Relink, Spread!DeleteLinks, Spread!Finish
  <2>4. [account[req[r].by] EXCEPT !.links = links]
          \in [here: BOOLEAN, name: UserName \union {None}, role: Spread!Roles,
                   password: BOOLEAN, links: SUBSET Identity]
    BY <1>r, <2>1, <2>2
  <2> QED BY <1>r, <2>1, <2>2, <2>3, <2>4, WritingTyped
<1>16. CASE Spread!ReadPassword(r)
  <2>1. req[r].by \in User /\ req[r] \in RequestsOfAccounts
    BY <1>16, RequestsTyped DEF AccountsTyped, Spread!ReadPassword, Spread!Steps
  <2>2. PICK q \in {Spread!Idle, [req[r] EXCEPT !.pc = "unlink", !.seen = {}]} : req' = [req EXCEPT ![r] = q]
    BY <1>0, <1>16 DEF Spread!ReadPassword, Spread!Finish
  <2>3. q \in RequestsOfAccounts \union {Spread!Idle} /\ StartsWith(q)
    BY ZenonT(60), <1>r, <2>1, <2>2 DEF RequestsOfAccounts, Spread!Steps, StartsWith
  <2> QED BY <1>16, <2>2, <2>3, GoingOnTyped, DataTyped DEF Spread!ReadPassword
<1> QED
  BY <1>1, <1>2, <1>3, <1>4, <1>5, <1>6, <1>7, <1>8, <1>9, <1>10, <1>11, <1>12, <1>13, <1>14, <1>15, <1>16
  DEF Spread!Handle

Below(q) == q.pc \in {"patch", "dropLinks", "remove"} =>
    /\ q.on \in Spread!Here \union condemnedUsers
    /\ account[q.on].here => account[q.on].role # "SUPERADMIN"
    /\ q.pc = "patch" => q.role # "SUPERADMIN"
    /\ q.pc = "remove" => q.on \in condemnedUsers

(* What a request does to who is there and to their roles.                 *)
RoleFrame(r) ==
    /\ \A s \in Req \ {r} : req'[s] = req[s]
    /\ condemnedUsers \subseteq condemnedUsers'
    /\ \A u \in User :
        \/ account'[u].here = account[u].here /\ account'[u].role = account[u].role
        \/ ~account[u].here /\ u \notin condemnedUsers /\ account'[u].here
        \/ /\ req[r].pc = "patch" /\ u = req[r].on
           /\ account'[u].here = account[u].here /\ account'[u].role = req[r].role
        \/ req[r].pc = "remove" /\ u = req[r].on /\ ~account'[u].here

LEMMA StartsBelow ==
    ASSUME AccountsTyped, NEW r \in Req, NEW q \in RequestsOfAccounts, Spread!Start(r, q),
           UNCHANGED <<firstSetup, account, condemnedUsers, alone>>, Below(q)
    PROVE  RoleFrame(r) /\ Below(q)' /\ req'[r] = q
<1>1. req'[r] = q /\ \A s \in Req \ {r} : req'[s] = req[s]
  BY RequestsTyped
<1>2. Below(q)'
  BY DEF Below, Spread!Here
<1> QED BY <1>1, <1>2 DEF RoleFrame

LEMMA RoleStep ==
    ASSUME Spread!AccountsAssumption, AccountsTyped, TargetsBelow, NEW r \in Req, Spread!Handle(r)
    PROVE  RoleFrame(r) /\ Below(req[r])'
<1> USE DEF Spread!AccountsAssumption
<1>0. /\ account \in AccountRows /\ Below(req[r])
      /\ req \in [Req -> RequestsOfAccounts \union {Spread!Idle}]
  BY DataTyped DEF TargetsBelow, Below, AccountsTyped
<1>1. ASSUME NEW n \in UserName, Spread!Setup(r, n) PROVE RoleFrame(r) /\ Below(req[r])'
  <2> DEFINE q == [Spread!Request("root", None, None) EXCEPT !.name = n]
  <2>1. q \in RequestsOfAccounts /\ Below(q)
    BY DEF RequestsOfAccounts, Spread!Request, Spread!Roles, Spread!Steps, Below
  <2> QED BY <1>1, <2>1, StartsBelow DEF Spread!Setup, Below
<1>2. ASSUME NEW by \in User, NEW n \in UserName, NEW role \in Spread!Roles, Spread!CreateUser(r, by, n, role)
      PROVE  RoleFrame(r) /\ Below(req[r])'
  <2> DEFINE q == [Spread!Request("insert", by, None) EXCEPT !.name = n, !.role = role]
  <2>1. q \in RequestsOfAccounts
    BY <1>0 DEF RequestsOfAccounts, Spread!Request, Spread!Roles, Spread!Steps, AccountRows
  <2>2. Below(q)
    BY <1>2 DEF Spread!CreateUser, Spread!CanInteract, Spread!Request, Spread!Here, Below
  <2> QED BY <1>2, <2>1, <2>2, StartsBelow DEF Spread!CreateUser, Below
<1>3. ASSUME NEW by \in User, NEW u \in User, NEW role \in Spread!Roles, Spread!PatchUser(r, by, u, role)
      PROVE  RoleFrame(r) /\ Below(req[r])'
  <2> DEFINE q == [Spread!Request("patch", by, u) EXCEPT !.role = role]
  <2>1. q \in RequestsOfAccounts
    BY <1>0 DEF RequestsOfAccounts, Spread!Request, Spread!Roles, Spread!Steps, AccountRows
  <2>2. Below(q)
    BY <1>3 DEF Spread!PatchUser, Spread!CanInteract, Spread!Request, Spread!Here, Below
  <2> QED BY <1>3, <2>1, <2>2, StartsBelow DEF Spread!PatchUser, Below
<1>4. ASSUME NEW by \in User, NEW u \in User, Spread!DeleteUser(r, by, u)
      PROVE  RoleFrame(r) /\ Below(req[r])'
  <2> DEFINE q == Spread!Request("dropLinks", by, u)
  <2>1. q \in RequestsOfAccounts
    BY <1>0 DEF RequestsOfAccounts, Spread!Request, Spread!Roles, Spread!Steps, AccountRows
  <2>2. Below(q)
    BY <1>4 DEF Spread!DeleteUser, Spread!CanInteract, Spread!Request, Spread!Here, Below
  <2> QED BY <1>4, <2>1, <2>2, StartsBelow DEF Spread!DeleteUser, Below
<1>5. ASSUME NEW u \in User, NEW n \in UserName \union {None}, Spread!PatchSelf(r, u, n)
      PROVE  RoleFrame(r) /\ Below(req[r])'
  <2> DEFINE q == [Spread!Request("self", u, None) EXCEPT !.name = n]
  <2>1. q \in RequestsOfAccounts
    BY <1>0 DEF RequestsOfAccounts, Spread!Request, Spread!Roles, Spread!Steps, AccountRows
  <2>2. Below(q)
    BY <1>5 DEF Spread!PatchSelf, Spread!CanInteract, Spread!Request, Spread!Here, Below
  <2> QED BY <1>5, <2>1, <2>2, StartsBelow DEF Spread!PatchSelf, Below
<1>7. ASSUME NEW u \in User, NEW p \in Provider, Spread!Unlink(r, u, p)
      PROVE  RoleFrame(r) /\ Below(req[r])'
  <2> DEFINE q == [Spread!Request("password", u, None) EXCEPT !.name = p, !.seen = account[u].links]
  <2>1. q \in RequestsOfAccounts
    BY <1>0 DEF RequestsOfAccounts, Spread!Request, Spread!Roles, Spread!Steps, AccountRows
  <2>2. Below(q)
    BY <1>7 DEF Spread!Unlink, Spread!CanInteract, Spread!Request, Spread!Here, Below
  <2> QED BY <1>7, <2>1, <2>2, StartsBelow DEF Spread!Unlink, Below
<1>6. ASSUME NEW i \in Identity, NEW by \in User \union {None}, Spread!Callback(r, i, by)
      PROVE  RoleFrame(r) /\ Below(req[r])'
  <2> DEFINE q == [Spread!Request("session", by, None) EXCEPT
                    !.ident = i, !.owner = Spread!Owner(i), !.taken = Spread!NameTaken(NameOf[i])]
  <2>1. Spread!Owner(i) \in SUBSET User /\ Spread!NameTaken(NameOf[i]) \in BOOLEAN
    BY DEF Spread!Owner, Spread!NameTaken, Spread!Here
  <2>2. q \in RequestsOfAccounts /\ Below(q)
    BY <2>1 DEF RequestsOfAccounts, Spread!Request, Spread!Roles, Spread!Steps, Below
  <2> QED BY <1>6, <2>2, StartsBelow DEF Spread!Callback, Below
<1>8. ASSUME NEW u \in User, Spread!CreateRoot(r, u) \/ Spread!InsertUser(r, u) \/ Spread!SignUp(r, u)
      PROVE  RoleFrame(r) /\ Below(req[r])'
  <2>1. req[r] # Spread!Idle /\ UNCHANGED condemnedUsers
    BY <1>8, RequestsTyped DEF Spread!CreateRoot, Spread!InsertUser, Spread!SignUp, Spread!Steps
  <2>2. (\A s \in Req \ {r} : req'[s] = req[s]) /\ req'[r].pc \in {"mark", "idle"}
    <3>1. CASE Spread!CreateRoot(r, u)
      <4>1. req'[r] = [req[r] EXCEPT !.pc = "mark"] /\ (\A s \in Req \ {r} : req'[s] = req[s])
        BY <1>0, <3>1 DEF Spread!CreateRoot, Spread!Goto
      <4>2. req[r] \in RequestsOfAccounts
        BY <2>1, RequestsTyped
      <4> QED BY <4>1, <4>2 DEF RequestsOfAccounts
    <3>2. CASE Spread!InsertUser(r, u) \/ Spread!SignUp(r, u)
      <4>1. Spread!Finish(r)
        BY <3>2 DEF Spread!InsertUser, Spread!SignUp
      <4> QED BY <1>0, <4>1 DEF Spread!Finish, Spread!Idle
    <3> QED BY <1>8, <3>1, <3>2
  <2>3. /\ \A w \in User \ {u} : account'[w] = account[w]
        /\ ~account[u].here /\ u \notin condemnedUsers /\ account'[u].here
    BY <1>0, <1>8 DEF Spread!CreateRoot, Spread!InsertUser, Spread!SignUp, Spread!Free, Spread!Update, AccountRows
  <2> QED BY <2>1, <2>2, <2>3 DEF RoleFrame, Below
<1>9. CASE Spread!MarkSetup(r) \/ Spread!Fail(r)
  BY <1>0, <1>9, RequestsTyped DEF Spread!MarkSetup, Spread!Fail, Spread!Idle, RoleFrame, Below
<1>10. CASE Spread!UpdateUser(r)
  <2>1. req[r].on \in User /\ req[r].pc = "patch" /\ UNCHANGED condemnedUsers
    BY <1>10 DEF AccountsTyped, Spread!UpdateUser
  <2>2. PICK password \in BOOLEAN : Spread!Update(req[r].on,
            [account[req[r].on] EXCEPT !.role = req[r].role, !.password = password])
    BY <1>0, <1>10 DEF Spread!UpdateUser, AccountRows
  <2>3. /\ \A w \in User \ {req[r].on} : account'[w] = account[w]
        /\ account'[req[r].on].here = account[req[r].on].here /\ account'[req[r].on].role = req[r].role
    BY <1>0, <2>1, <2>2 DEF Spread!Update, AccountRows
  <2>4. (\A s \in Req \ {r} : req'[s] = req[s]) /\ req'[r].pc = "idle"
    BY <1>10, RequestsTyped DEF Spread!UpdateUser, Spread!Idle
  <2> QED BY <2>1, <2>3, <2>4 DEF RoleFrame, Below
<1>11. CASE Spread!DropLinks(r)
  <2>1. req[r].on \in User /\ req[r] \in RequestsOfAccounts /\ req[r].pc = "dropLinks"
        /\ condemnedUsers' = condemnedUsers \union {req[r].on}
    BY <1>11, RequestsTyped DEF AccountsTyped, Spread!DropLinks, Spread!Steps
  <2>2. req'[r] = [req[r] EXCEPT !.pc = "remove"] /\ \A s \in Req \ {r} : req'[s] = req[s]
    BY <1>0, <1>11, <2>1, RequestsTyped DEF Spread!DropLinks, Spread!Steps, Spread!Goto
  <2>3. \A u \in User : account'[u].here = account[u].here /\ account'[u].role = account[u].role
    BY <1>0, <1>11, <2>1 DEF Spread!DropLinks, AccountRows
  <2>4. req'[r].pc = "remove" /\ req'[r].on = req[r].on
    BY <2>1, <2>2 DEF RequestsOfAccounts
  <2> QED BY <1>0, <2>1, <2>2, <2>3, <2>4 DEF RoleFrame, Below, Spread!Here
<1>12. CASE Spread!RemoveUser(r)
  <2>1. req[r].on \in User /\ req[r].pc = "remove" /\ UNCHANGED condemnedUsers
    BY <1>12 DEF AccountsTyped, Spread!RemoveUser
  <2>2. (\A w \in User \ {req[r].on} : account'[w] = account[w]) /\ ~account'[req[r].on].here
    BY <1>0, <1>12, <2>1 DEF Spread!RemoveUser, Spread!Update, Spread!Nobody, AccountRows
  <2>3. (\A s \in Req \ {r} : req'[s] = req[s]) /\ req'[r].pc = "idle"
    BY <1>12, RequestsTyped DEF Spread!RemoveUser, Spread!Idle
  <2> QED BY <2>1, <2>2, <2>3 DEF RoleFrame, Below
<1>13. CASE Spread!UpdateSelf(r) \/ Spread!Link(r) \/ Spread!Relink(r) \/ Spread!DeleteLinks(r)
  <2>1. req[r].by \in User /\ UNCHANGED condemnedUsers
    BY <1>13 DEF AccountsTyped, Spread!UpdateSelf, Spread!Link, Spread!Relink, Spread!DeleteLinks
  <2> DEFINE old == account[req[r].by]
  <2>2. PICK entry : /\ Spread!Update(req[r].by, entry)
                     /\ entry.here = old.here /\ entry.role = old.role
    <3>1. old \in [here: BOOLEAN, name: UserName \union {None}, role: Spread!Roles,
                   password: BOOLEAN, links: SUBSET Identity]
      BY <1>0, <2>1 DEF AccountRows
    <3>2. CASE Spread!UpdateSelf(r)
      <4>1. PICK password, name : Spread!Update(req[r].by, [old EXCEPT !.password = password, !.name = name])
        BY <3>2 DEF Spread!UpdateSelf
      <4>2. /\ [old EXCEPT !.password = password, !.name = name].here = old.here
            /\ [old EXCEPT !.password = password, !.name = name].role = old.role
        BY <3>1
      <4> QED BY <4>1, <4>2
    <3>3. CASE Spread!Link(r) \/ Spread!Relink(r) \/ Spread!DeleteLinks(r)
      <4>1. PICK links : Spread!Update(req[r].by, [old EXCEPT !.links = links])
        BY <3>3 DEF Spread!Link, Spread!Relink, Spread!DeleteLinks
      <4>2. [old EXCEPT !.links = links].here = old.here /\ [old EXCEPT !.links = links].role = old.role
        BY <3>1
      <4> QED BY <4>1, <4>2
    <3> QED BY <1>13, <3>2, <3>3
  <2>3. \A u \in User : account'[u].here = account[u].here /\ account'[u].role = account[u].role
    BY <1>0, <2>1, <2>2 DEF Spread!Update, AccountRows
  <2>4. (\A s \in Req \ {r} : req'[s] = req[s]) /\ req'[r].pc = "idle"
    <3>1. Spread!Finish(r)
      BY <1>13 DEF Spread!UpdateSelf, Spread!Link, Spread!Relink, Spread!DeleteLinks
    <3> QED BY <1>0, <3>1 DEF Spread!Finish, Spread!Idle
  <2> QED BY <2>1, <2>3, <2>4 DEF RoleFrame, Below
<1>14. CASE Spread!ReadSession(r)
  <2>1. UNCHANGED <<account, condemnedUsers>> /\ (\A s \in Req \ {r} : req'[s] = req[s])
    BY <1>0, <1>14 DEF Spread!ReadSession
  <2>2. req'[r].pc \notin {"patch", "dropLinks", "remove"}
    <3>1. req[r] \in RequestsOfAccounts
      BY <1>14, RequestsTyped DEF Spread!ReadSession, Spread!Steps
    <3>2. CASE req' = [req EXCEPT ![r] = Spread!Idle]
      BY <1>0, <3>2 DEF Spread!Idle
    <3>3. ASSUME NEW pc \in {"link", "relink", "signup"}, NEW linked,
                 req' = [req EXCEPT ![r] = [req[r] EXCEPT !.pc = pc, !.seen = linked, !.owner = {}, !.taken = FALSE]]
          PROVE  req'[r].pc \notin {"patch", "dropLinks", "remove"}
      <4>1. [req[r] EXCEPT !.pc = pc, !.seen = linked, !.owner = {}, !.taken = FALSE].pc = pc
        BY <3>1 DEF RequestsOfAccounts
      <4> QED BY <1>0, <3>3, <4>1
    <3> QED BY <1>14, <3>2, <3>3, SessionPaths
  <2> QED BY <2>1, <2>2 DEF RoleFrame, Below
<1>15. CASE Spread!ReadPassword(r)
  <2>1. UNCHANGED <<account, condemnedUsers>> /\ (\A s \in Req \ {r} : req'[s] = req[s])
    BY <1>0, <1>15, RequestsTyped DEF Spread!ReadPassword
  <2>2. req[r] \in RequestsOfAccounts
    BY <1>15, RequestsTyped DEF Spread!ReadPassword, Spread!Steps
  <2>3. req'[r].pc \in {"unlink", "idle"}
    <3>1. req'[r] = Spread!Idle \/ req'[r] = [req[r] EXCEPT !.pc = "unlink", !.seen = {}]
      BY <1>0, <1>15 DEF Spread!ReadPassword, Spread!Finish
    <3>2. [req[r] EXCEPT !.pc = "unlink", !.seen = {}].pc = "unlink"
      BY <2>2 DEF RequestsOfAccounts
    <3>3. Spread!Idle.pc = "idle"
      BY DEF Spread!Idle
    <3> QED BY <3>1, <3>2, <3>3
  <2> QED BY <2>1, <2>3 DEF RoleFrame, Below
<1> QED
  BY <1>1, <1>2, <1>3, <1>4, <1>5, <1>6, <1>7, <1>8, <1>9, <1>10, <1>11, <1>12, <1>13, <1>14, <1>15
  DEF Spread!Handle

LEMMA TargetsBelowStep ==
    ASSUME Spread!AccountsAssumption, AccountsTyped, TargetsBelow, NEW r \in Req, Spread!Handle(r)
    PROVE  TargetsBelow' /\ Spread!SuperadminStays
<1>1. RoleFrame(r) /\ Below(req[r])' /\ (\A s \in Req : Below(req[s])) /\ account \in AccountRows
      /\ AccountsTyped'
  BY RoleStep, DataTyped, AccountsTypedStep DEF TargetsBelow, Below
<1>2. ASSUME NEW s \in Req, s # r PROVE Below(req[s])'
  <2>1. req'[s] = req[s] /\ Below(req[s])
    BY <1>1, <1>2 DEF RoleFrame
  <2>2. CASE req[s].pc \in {"patch", "dropLinks", "remove"}
    <3>1. req[s].on \in User
      BY <2>2 DEF AccountsTyped
    <3> QED BY <1>1, <2>1, <2>2, <3>1 DEF RoleFrame, Below, Spread!Here
  <2>3. CASE req[s].pc \notin {"patch", "dropLinks", "remove"}
    BY <2>1, <2>3 DEF Below
  <2> QED BY <2>2, <2>3
<1>3. TargetsBelow'
  BY <1>1, <1>2 DEF TargetsBelow, Below
<1>4. Spread!SuperadminStays
  BY <1>1 DEF Spread!SuperadminStays, RoleFrame, Below
<1> QED BY <1>3, <1>4

(* A step of a request that changes one account at most, one it concerns   *)
(* or one that is made.                                                    *)
LEMMA OneAccountChanges ==
    ASSUME Spread!AccountsAssumption, AccountsTyped, AccountsTyped', SignInKept, NEW r \in Req, NEW u \in User,
           u \in Spread!Concerns(req[r]) \/ ~account[u].here,
           \A w \in User \ {u} : account'[w] = account[w],
           \A s \in Req \ {r} : req'[s] = req[s],
           Spread!Concerns(req[r])' \subseteq Spread!Concerns(req[r]),
           Spread!Concerns(req[r])' \subseteq Spread!Here',
           condemnedUsers \subseteq condemnedUsers',
           account'[u].here => OneOfEach(u)' /\ (u \in condemnedUsers' \/ MaySignIn(u)'),
           ReadHolds(req[r])'
    PROVE  SignInKept'
<1>1. ASSUME NEW s \in Req, s # r
      PROVE  /\ req'[s] = req[s] /\ Spread!Concerns(req[s]) \subseteq Spread!Here /\ u \notin Spread!Concerns(req[s])
             /\ \A w \in Spread!Concerns(req[s]) : account'[w] = account[w]
  BY <1>1 DEF SignInKept, Apart, Spread!Here
<1>2. Apart'
  <2>1. ASSUME NEW s \in Req PROVE Spread!Concerns(req[s])' \subseteq Spread!Concerns(req[s])
    BY <1>1 DEF Spread!Concerns
  <2>2. ASSUME NEW s \in Req, s # r PROVE Spread!Concerns(req[s])' \subseteq Spread!Here'
    BY <1>1, <2>1, <2>2 DEF Spread!Here
  <2> QED BY <2>1, <2>2 DEF Apart, SignInKept
<1>3. \A w \in Spread!Here' : OneOfEach(w)'
  BY DEF SignInKept, OneOfEach, Spread!Here
<1>4. \A w \in (Spread!Here \ condemnedUsers)' : MaySignIn(w)'
  BY DEF SignInKept, MaySignIn, Spread!Here
<1>5. ASSUME NEW s \in Req, s # r PROVE ReadHolds(req[s])'
  <2>1. CASE req[s].pc \in {"password", "link", "relink", "unlink"}
    <3>1. req[s].by \in User /\ req[s] # Spread!Idle
      BY <2>1 DEF AccountsTyped, Spread!Idle
    <3>2. req[s].by \in Spread!Concerns(req[s])
      BY <3>1 DEF Spread!Concerns, Spread!AccountsAssumption
    <3> QED BY <1>1, <1>5, <3>2 DEF ReadHolds, SignInKept
  <2>2. CASE req[s].pc \notin {"password", "link", "relink", "unlink"}
    BY <1>1, <1>5, <2>2 DEF ReadHolds
  <2> QED BY <2>1, <2>2
<1> QED BY <1>2, <1>3, <1>4, <1>5 DEF SignInKept

LEMMA RequestBegins ==
    ASSUME Spread!AccountsAssumption, AccountsTyped, AccountsTyped', alone, SignInKept,
           NEW r \in Req, NEW q \in RequestsOfAccounts, Spread!Start(r, q),
           UNCHANGED <<firstSetup, account, condemnedUsers, alone>>,
           Spread!Concerns(q) \subseteq Spread!Here, ReadHolds(q)
    PROVE  SignInKept'
<1>1. req'[r] = q /\ \A s \in Req \ {r} : req'[s] = req[s]
  BY RequestsTyped
<1>2. \A s \in Req : Spread!Concerns(req[s]) \intersect Spread!Concerns(q) = {}
  BY DEF Spread!Start
<1>3. \A s \in Req : ReadHolds(req'[s])
  BY <1>1 DEF SignInKept
<1>4. \A s \in Req : Spread!Concerns(req'[s]) \subseteq Spread!Here
  BY <1>1 DEF SignInKept, Apart
<1>5. \A s, t \in Req : s # t => Spread!Concerns(req'[s]) \intersect Spread!Concerns(req'[t]) = {}
  BY <1>1, <1>2 DEF SignInKept, Apart
<1>6. Apart'
  BY <1>4, <1>5 DEF Apart, Spread!Here, Spread!Concerns
<1>7. \A s \in Req : ReadHolds(req[s])'
  BY <1>3 DEF ReadHolds, Spread!OfProvider
<1>8. Spread!Here' = Spread!Here
  BY DEF Spread!Here
<1> QED BY <1>6, <1>7, <1>8 DEF SignInKept, OneOfEach, MaySignIn

(* A request that writes one row and ends.                                 *)
LEMMA RequestEnds ==
    ASSUME Spread!AccountsAssumption, AccountsTyped, AccountsTyped', SignInKept, NEW r \in Req, NEW u \in User,
           u \in Spread!Concerns(req[r]) \/ ~account[u].here,
           NEW entry, Spread!Update(u, entry), Spread!Finish(r), UNCHANGED condemnedUsers,
           entry.here => /\ \A i, j \in entry.links : ProviderOf[i] = ProviderOf[j] => i = j
                         /\ u \in condemnedUsers \/ entry.password \/ entry.links # {}
    PROVE  SignInKept'
<1>0. account \in AccountRows /\ req \in [Req -> RequestsOfAccounts \union {Spread!Idle}]
  BY DataTyped DEF AccountsTyped
<1>1. account'[u] = entry /\ \A w \in User \ {u} : account'[w] = account[w]
  BY <1>0 DEF Spread!Update, AccountRows
<1>2. req'[r] = Spread!Idle /\ \A s \in Req \ {r} : req'[s] = req[s]
  BY <1>0 DEF Spread!Finish
<1>3. Spread!Concerns(req[r])' = {} /\ ReadHolds(req[r])'
  BY <1>2 DEF Spread!Concerns, ReadHolds, Spread!Idle
<1>4. account'[u].here => OneOfEach(u)' /\ (u \in condemnedUsers' \/ MaySignIn(u)')
  BY <1>1 DEF OneOfEach, MaySignIn
<1>5. Spread!Concerns(req[r])' \subseteq Spread!Concerns(req[r]) /\ Spread!Concerns(req[r])' \subseteq Spread!Here'
  BY <1>3
<1> QED BY <1>1, <1>2, <1>3, <1>4, <1>5, OneAccountChanges

LEMMA SignInStep ==
    ASSUME Spread!AccountsAssumption, AccountsTyped, AccountsTyped', TargetsBelow, alone, SignInKept,
           NEW r \in Req, Spread!Handle(r)
    PROVE  SignInKept'
<1> USE DEF Spread!AccountsAssumption
<1>0. /\ account \in AccountRows /\ SignInKept /\ None \notin User
      /\ req \in [Req -> RequestsOfAccounts \union {Spread!Idle}]
  BY DataTyped DEF AccountsTyped
<1>h. \A u \in Spread!Here : u \in User /\ account[u].here
  BY DEF Spread!Here
<1>1. ASSUME NEW n \in UserName, Spread!Setup(r, n)
      PROVE  SignInKept'
  <2> DEFINE q == [Spread!Request("root", None, None) EXCEPT !.name = n]
  <2>1. q \in RequestsOfAccounts
    BY <1>0 DEF RequestsOfAccounts, Spread!Request, Spread!Roles, Spread!Steps, AccountRows
  <2>2. Spread!Concerns(q) \subseteq Spread!Here /\ ReadHolds(q)
    BY <1>0, <1>1 DEF Spread!Setup, Spread!Request, Spread!Concerns, ReadHolds
  <2> QED BY <1>0, <1>1, <2>1, <2>2, RequestBegins DEF Spread!Setup
<1>2. ASSUME NEW by \in User, NEW n \in UserName, NEW role \in Spread!Roles, Spread!CreateUser(r, by, n, role)
      PROVE  SignInKept'
  <2> DEFINE q == [Spread!Request("insert", by, None) EXCEPT !.name = n, !.role = role]
  <2>1. q \in RequestsOfAccounts
    BY <1>0 DEF RequestsOfAccounts, Spread!Request, Spread!Roles, Spread!Steps, AccountRows
  <2>2. Spread!Concerns(q) \subseteq Spread!Here /\ ReadHolds(q)
    BY <1>0, <1>2 DEF Spread!CreateUser, Spread!Request, Spread!Concerns, ReadHolds
  <2> QED BY <1>0, <1>2, <2>1, <2>2, RequestBegins DEF Spread!CreateUser
<1>3. ASSUME NEW by \in User, NEW u \in User, NEW role \in Spread!Roles, Spread!PatchUser(r, by, u, role)
      PROVE  SignInKept'
  <2> DEFINE q == [Spread!Request("patch", by, u) EXCEPT !.role = role]
  <2>1. q \in RequestsOfAccounts
    BY <1>0 DEF RequestsOfAccounts, Spread!Request, Spread!Roles, Spread!Steps, AccountRows
  <2>2. Spread!Concerns(q) \subseteq Spread!Here /\ ReadHolds(q)
    BY <1>0, <1>3 DEF Spread!PatchUser, Spread!Request, Spread!Concerns, ReadHolds
  <2> QED BY <1>0, <1>3, <2>1, <2>2, RequestBegins DEF Spread!PatchUser
<1>4. ASSUME NEW by \in User, NEW u \in User, Spread!DeleteUser(r, by, u)
      PROVE  SignInKept'
  <2> DEFINE q == Spread!Request("dropLinks", by, u)
  <2>1. q \in RequestsOfAccounts
    BY <1>0 DEF RequestsOfAccounts, Spread!Request, Spread!Roles, Spread!Steps, AccountRows
  <2>2. Spread!Concerns(q) \subseteq Spread!Here /\ ReadHolds(q)
    BY <1>0, <1>4 DEF Spread!DeleteUser, Spread!Request, Spread!Concerns, ReadHolds
  <2> QED BY <1>0, <1>4, <2>1, <2>2, RequestBegins DEF Spread!DeleteUser
<1>5. ASSUME NEW u \in User, NEW n \in UserName \union {None}, Spread!PatchSelf(r, u, n)
      PROVE  SignInKept'
  <2> DEFINE q == [Spread!Request("self", u, None) EXCEPT !.name = n]
  <2>1. q \in RequestsOfAccounts
    BY <1>0 DEF RequestsOfAccounts, Spread!Request, Spread!Roles, Spread!Steps, AccountRows
  <2>2. Spread!Concerns(q) \subseteq Spread!Here /\ ReadHolds(q)
    BY <1>0, <1>5 DEF Spread!PatchSelf, Spread!Request, Spread!Concerns, ReadHolds
  <2> QED BY <1>0, <1>5, <2>1, <2>2, RequestBegins DEF Spread!PatchSelf
<1>6. ASSUME NEW i \in Identity, NEW by \in User \union {None}, Spread!Callback(r, i, by)
      PROVE  SignInKept'
  <2> DEFINE q == [Spread!Request("session", by, None) EXCEPT
                    !.ident = i, !.owner = Spread!Owner(i), !.taken = Spread!NameTaken(NameOf[i])]
  <2>0. Spread!Owner(i) \in SUBSET User /\ Spread!NameTaken(NameOf[i]) \in BOOLEAN
    BY DEF Spread!Owner, Spread!NameTaken, Spread!Here
  <2>1. q \in RequestsOfAccounts
    BY <1>0, <2>0 DEF RequestsOfAccounts, Spread!Request, Spread!Roles, Spread!Steps, AccountRows
  <2>2. Spread!Concerns(q) \subseteq Spread!Here /\ ReadHolds(q)
    BY <1>0, <1>6 DEF Spread!Callback, Spread!Request, Spread!Concerns, ReadHolds
  <2> QED BY <1>0, <1>6, <2>1, <2>2, RequestBegins DEF Spread!Callback
<1>7. ASSUME NEW u \in User, NEW p \in Provider, Spread!Unlink(r, u, p)
      PROVE  SignInKept'
  <2> DEFINE q == [Spread!Request("password", u, None) EXCEPT !.name = p, !.seen = account[u].links]
  <2>1. q \in RequestsOfAccounts
    BY <1>0 DEF RequestsOfAccounts, Spread!Request, Spread!Roles, Spread!Steps, AccountRows
  <2>2. Spread!Concerns(q) \subseteq Spread!Here /\ ReadHolds(q)
    BY <1>0, <1>7 DEF Spread!Unlink, Spread!Request, Spread!Concerns, ReadHolds
  <2> QED BY <1>0, <1>7, <2>1, <2>2, RequestBegins DEF Spread!Unlink
<1>c. /\ \A q \in RequestsOfAccounts : Spread!Concerns(q) = {q.by, q.on} \ {None}
      /\ \A s \in Req : req[s] = Spread!Idle \/ req[s] \in RequestsOfAccounts
      /\ \A s \in Req : Spread!Concerns(req[s]) \subseteq Spread!Here
      /\ Spread!Idle.pc = "idle"
  <2>1. \A q \in RequestsOfAccounts : q # Spread!Idle
    BY DEF RequestsOfAccounts, Spread!Idle, Spread!Steps
  <2> QED BY <1>0, <2>1 DEF Spread!Concerns, SignInKept, Apart, Spread!Idle
(* The requests that do not end yet.                                       *)
<1>g. ASSUME NEW q \in RequestsOfAccounts, req[r] \in RequestsOfAccounts,
             req' = [req EXCEPT ![r] = q], q.by = req[r].by, q.on = req[r].on,
             UNCHANGED <<account, condemnedUsers>>, ReadHolds(q)
      PROVE  SignInKept'
  <2>1. req'[r] = q /\ \A s \in Req \ {r} : req'[s] = req[s]
    BY <1>0, <1>g
  <2>2. Spread!Concerns(q) = Spread!Concerns(req[r])
    BY <1>c, <1>g
  <2>3. Spread!Here' = Spread!Here /\ \A s \in Req : Spread!Concerns(req[s])' = Spread!Concerns(req'[s])
    BY <1>g DEF Spread!Here, Spread!Concerns
  <2>4. Apart'
    BY <2>1, <2>2, <2>3 DEF SignInKept, Apart
  <2>5. \A s \in Req : ReadHolds(req[s])'
    BY <1>g, <2>1 DEF SignInKept, ReadHolds, Spread!OfProvider
  <2> QED BY <1>g, <2>3, <2>4, <2>5 DEF SignInKept, OneOfEach, MaySignIn
<1>e. ASSUME Spread!Finish(r), UNCHANGED <<account, condemnedUsers>>
      PROVE  SignInKept'
  <2>1. req'[r] = Spread!Idle /\ \A s \in Req \ {r} : req'[s] = req[s]
    BY <1>0, <1>e DEF Spread!Finish
  <2>2. Spread!Concerns(Spread!Idle) = {} /\ ReadHolds(Spread!Idle)
    BY <1>c DEF Spread!Concerns, ReadHolds
  <2>3. Spread!Here' = Spread!Here /\ \A s \in Req : Spread!Concerns(req[s])' = Spread!Concerns(req'[s])
    BY <1>e DEF Spread!Here, Spread!Concerns
  <2>4. Apart'
    BY <2>1, <2>2, <2>3 DEF SignInKept, Apart
  <2>5. \A s \in Req : ReadHolds(req[s])'
    BY <1>e, <2>1, <2>2 DEF SignInKept, ReadHolds, Spread!OfProvider
  <2> QED BY <1>e, <2>3, <2>4, <2>5 DEF SignInKept, OneOfEach, MaySignIn
<1>8. ASSUME NEW u \in User, Spread!CreateRoot(r, u)
      PROVE  SignInKept'
  <2> DEFINE q == [req[r] EXCEPT !.pc = "mark"]
  <2>1. req[r] \in RequestsOfAccounts
    BY <1>8, RequestsTyped DEF Spread!CreateRoot, Spread!Steps
  <2>2. /\ q \in RequestsOfAccounts /\ q.by = req[r].by /\ q.on = req[r].on /\ q.pc = "mark"
    BY <2>1 DEF RequestsOfAccounts, Spread!Steps
  <2>3. req'[r] = q /\ \A s \in Req \ {r} : req'[s] = req[s]
    BY <1>0, <1>8 DEF Spread!CreateRoot, Spread!Goto
  <2>4. /\ account'[u] = [here |-> TRUE, name |-> req[r].name, role |-> "SUPERADMIN", password |-> TRUE, links |-> {}]
        /\ \A w \in User \ {u} : account'[w] = account[w]
        /\ ~account[u].here /\ UNCHANGED condemnedUsers
    BY <1>0, <1>8 DEF Spread!CreateRoot, Spread!Update, AccountRows, Spread!Free
  <2>5. Spread!Concerns(req[r])' = Spread!Concerns(req[r])
    <3>1. Spread!Concerns(req[r])' = Spread!Concerns(req'[r])
      BY DEF Spread!Concerns
    <3> HIDE DEF q
    <3> QED BY <1>c, <2>1, <2>2, <2>3, <3>1
  <2>6. Spread!Concerns(req[r])' \subseteq Spread!Here'
    BY <1>c, <1>h, <2>4, <2>5 DEF Spread!Here
  <2>7. OneOfEach(u)' /\ MaySignIn(u)'
    BY <2>4 DEF OneOfEach, MaySignIn
  <2>8. ReadHolds(req[r])'
    <3> HIDE DEF q
    <3> QED BY <2>2, <2>3 DEF ReadHolds
  <2> QED BY <2>3, <2>4, <2>5, <2>6, <2>7, <2>8, OneAccountChanges
<1>9. ASSUME NEW u \in User, Spread!InsertUser(r, u)
      PROVE  SignInKept'
  <2> DEFINE entry == [here |-> TRUE, name |-> req[r].name, role |-> req[r].role, password |-> TRUE, links |-> {}]
  <2>1. /\ ~account[u].here /\ Spread!Update(u, entry) /\ Spread!Finish(r) /\ UNCHANGED condemnedUsers
        /\ entry.links = {} /\ entry.password
    BY <1>9 DEF Spread!InsertUser, Spread!Free
  <2> HIDE DEF entry
  <2> QED BY <2>1, RequestEnds
<1>10. ASSUME NEW u \in User, Spread!SignUp(r, u)
      PROVE  SignInKept'
  <2> DEFINE i == req[r].ident
             entry == [here |-> TRUE, name |-> NameOf[i], role |-> "USER", password |-> FALSE, links |-> {i}]
  <2>1. /\ ~account[u].here /\ Spread!Update(u, entry) /\ Spread!Finish(r) /\ UNCHANGED condemnedUsers
        /\ entry.links = {i}
    BY <1>10 DEF Spread!SignUp, Spread!Free
  <2> HIDE DEF entry
  <2> QED BY <2>1, RequestEnds
<1>11. CASE Spread!MarkSetup(r) \/ Spread!Fail(r)
  BY <1>11, <1>e DEF Spread!MarkSetup, Spread!Fail
<1>w. ASSUME NEW u \in User
      PROVE  /\ account[u] \in [here: BOOLEAN, name: UserName \union {None}, role: Spread!Roles,
                                 password: BOOLEAN, links: SUBSET Identity]
             /\ account[u].here => \A i, j \in account[u].links : ProviderOf[i] = ProviderOf[j] => i = j
             /\ account[u].here => u \in condemnedUsers \/ account[u].password \/ account[u].links # {}
  BY <1>0 DEF AccountRows, SignInKept, OneOfEach, MaySignIn, Spread!Here
<1>12. CASE Spread!UpdateUser(r)
  <2> DEFINE u == req[r].on
  <2>1. u \in User /\ u \in Spread!Here /\ req[r] \in RequestsOfAccounts
    BY <1>12, RequestsTyped DEF AccountsTyped, Spread!UpdateUser, Spread!Steps
  <2>2. u \in Spread!Concerns(req[r])
    BY <1>0, <1>c, <2>1
  <2>3. PICK password \in BOOLEAN : /\ account[u].password => password
                                    /\ Spread!Update(u, [account[u] EXCEPT !.role = req[r].role, !.password = password])
    BY <1>12 DEF Spread!UpdateUser
  <2> DEFINE entry == [account[u] EXCEPT !.role = req[r].role, !.password = password]
  <2>4. entry.links = account[u].links /\ entry.password = password /\ entry.here = account[u].here
    BY <1>w, <2>1
  <2>5. Spread!Finish(r) /\ UNCHANGED condemnedUsers
    BY <1>12 DEF Spread!UpdateUser
  <2>6. Spread!Update(u, entry)
    BY <2>3
  <2> HIDE DEF entry, u
  <2> QED BY <1>w, <2>1, <2>2, <2>3, <2>4, <2>5, <2>6, RequestEnds
<1>13. CASE Spread!DropLinks(r)
  <2> DEFINE q == [req[r] EXCEPT !.pc = "remove"]
  <2>1. PICK u \in User : u = req[r].on /\ req[r] \in RequestsOfAccounts
    BY <1>13, RequestsTyped DEF AccountsTyped, Spread!DropLinks, Spread!Steps
  <2>2. q \in RequestsOfAccounts /\ q.by = req[r].by /\ q.on = req[r].on /\ q.pc = "remove"
    BY <2>1 DEF RequestsOfAccounts, Spread!Steps
  <2>3. req'[r] = q /\ \A s \in Req \ {r} : req'[s] = req[s]
    BY <1>0, <1>13 DEF Spread!DropLinks, Spread!Goto
  <2>4. u \in Spread!Concerns(req[r]) /\ u \in Spread!Here
    BY <1>0, <1>c, <2>1
  <2>5. /\ account'[u] = [account[u] EXCEPT !.links = {}]
        /\ \A w \in User \ {u} : account'[w] = account[w]
        /\ condemnedUsers' = condemnedUsers \union {u}
    BY <1>0, <1>13, <2>1 DEF Spread!DropLinks, AccountRows
  <2>6. account'[u].links = {} /\ account'[u].here = account[u].here
    BY <1>w, <2>1, <2>5
  <2>7. Spread!Concerns(req[r])' = Spread!Concerns(req[r])
    <3>1. Spread!Concerns(req[r])' = Spread!Concerns(req'[r])
      BY DEF Spread!Concerns
    <3> HIDE DEF q
    <3> QED BY <1>c, <2>1, <2>2, <2>3, <3>1
  <2>8. Spread!Concerns(req[r])' \subseteq Spread!Here'
    <3> HIDE DEF q
    <3> QED BY <1>c, <1>h, <2>1, <2>4, <2>5, <2>6, <2>7 DEF Spread!Here
  <2>9. OneOfEach(u)' /\ u \in condemnedUsers'
    <3>1. \A i, j \in account'[u].links : ProviderOf[i] = ProviderOf[j] => i = j
      BY <2>6
    <3> QED BY <2>1, <2>5, <3>1 DEF OneOfEach
  <2>10. ReadHolds(req[r])'
    <3> HIDE DEF q
    <3> QED BY <2>2, <2>3 DEF ReadHolds
  <2>11. condemnedUsers \subseteq condemnedUsers' /\ account'[u].here => OneOfEach(u)' /\ (u \in condemnedUsers' \/ MaySignIn(u)')
    BY <2>5, <2>9
  <2> HIDE DEF q
  <2> QED BY <2>1, <2>3, <2>4, <2>5, <2>7, <2>8, <2>9, <2>10, <2>11, OneAccountChanges
<1>14. CASE Spread!RemoveUser(r)
  <2>1. req[r].on \in User /\ req[r] \in RequestsOfAccounts
    BY <1>14, RequestsTyped DEF AccountsTyped, Spread!RemoveUser, Spread!Steps
  <2>2. req[r].on \in Spread!Concerns(req[r])
    BY <1>0, <1>c, <2>1
  <2>3. /\ Spread!Update(req[r].on, Spread!Nobody) /\ Spread!Finish(r) /\ UNCHANGED condemnedUsers
        /\ ~Spread!Nobody.here
    BY <1>14 DEF Spread!RemoveUser, Spread!Nobody
  <2> QED BY <2>1, <2>2, <2>3, RequestEnds
<1>15. CASE Spread!UpdateSelf(r)
  <2> DEFINE u == req[r].by
  <2>1. u \in User /\ u \in Spread!Here /\ req[r] \in RequestsOfAccounts
    BY <1>15, RequestsTyped DEF AccountsTyped, Spread!UpdateSelf, Spread!Steps
  <2>2. u \in Spread!Concerns(req[r])
    BY <1>0, <1>c, <2>1
  <2>3. PICK password, name : /\ password \in BOOLEAN /\ (account[u].password => password)
                             /\ Spread!Update(u, [account[u] EXCEPT !.password = password, !.name = name])
    BY <1>15 DEF Spread!UpdateSelf
  <2> DEFINE entry == [account[u] EXCEPT !.password = password, !.name = name]
  <2>4. entry.links = account[u].links /\ entry.password = password /\ entry.here = account[u].here
    BY <1>w, <2>1
  <2>5. Spread!Finish(r) /\ UNCHANGED condemnedUsers
    BY <1>15 DEF Spread!UpdateSelf
  <2>6. Spread!Update(u, entry)
    BY <2>3
  <2> HIDE DEF entry, u
  <2> QED BY <1>w, <2>1, <2>2, <2>3, <2>4, <2>5, <2>6, RequestEnds
<1>16. CASE Spread!ReadSession(r)
  <2>1. req[r].ident \in Identity /\ req[r] \in RequestsOfAccounts /\ UNCHANGED <<account, condemnedUsers>>
    BY <1>16, RequestsTyped DEF AccountsTyped, Spread!ReadSession, Spread!Steps
  <2>2. CASE req' = [req EXCEPT ![r] = Spread!Idle]
    BY <1>e, <2>1, <2>2 DEF Spread!Finish
  <2>3. ASSUME NEW pc \in {"link", "relink", "signup"}, NEW linked \in SUBSET Identity,
               req' = [req EXCEPT ![r] = [req[r] EXCEPT !.pc = pc, !.seen = linked, !.owner = {}, !.taken = FALSE]],
               pc \in {"link", "relink"} =>
                 linked = Spread!OfProvider(account[req[r].by].links, ProviderOf[req[r].ident]),
               pc = "link" => linked = {}
        PROVE  SignInKept'
    <3> DEFINE q == [req[r] EXCEPT !.pc = pc, !.seen = linked, !.owner = {}, !.taken = FALSE]
    <3>1. /\ q \in RequestsOfAccounts /\ q.by = req[r].by /\ q.on = req[r].on /\ q.ident = req[r].ident
          /\ q.pc = pc /\ q.seen = linked
      BY <2>1 DEF RequestsOfAccounts, Spread!Steps
    <3>2. req' = [req EXCEPT ![r] = q]
      BY <2>3
    <3> HIDE DEF q
    <3>3. ReadHolds(q)
      BY <2>3, <3>1 DEF ReadHolds
    <3> QED BY <1>g, <2>1, <3>1, <3>2, <3>3
  <2> QED BY <1>16, <2>2, <2>3, SessionPaths
<1>17. CASE Spread!Link(r)
  <2>1. PICK u \in User : u = req[r].by /\ u \in Spread!Here /\ req[r] \in RequestsOfAccounts /\ req[r].ident \in Identity
    BY <1>17, RequestsTyped DEF AccountsTyped, Spread!Link, Spread!Steps
  <2> DEFINE links == account[u].links \union {req[r].ident}
             entry == [account[u] EXCEPT !.links = links]
  <2>2. u \in Spread!Concerns(req[r])
    BY <1>0, <1>c, <2>1
  <2>3. Spread!OfProvider(account[u].links, ProviderOf[req[r].ident]) = {}
    BY <1>17, <2>1 DEF SignInKept, ReadHolds, Spread!Link
  <2>4. entry.links = links
    BY <1>w
  <2>5. \A i, j \in links : ProviderOf[i] = ProviderOf[j] => i = j
    BY <1>h, <1>w, <2>1, <2>3 DEF Spread!OfProvider
  <2>6. Spread!Finish(r) /\ UNCHANGED condemnedUsers /\ Spread!Update(u, entry) /\ links # {}
    BY <1>17, <2>1 DEF Spread!Link
  <2> HIDE DEF entry, links
  <2> QED BY <2>2, <2>4, <2>5, <2>6, RequestEnds
<1>18. CASE Spread!Relink(r)
  <2>1. PICK u \in User : u = req[r].by /\ u \in Spread!Here /\ req[r] \in RequestsOfAccounts /\ req[r].ident \in Identity
    BY <1>18, RequestsTyped DEF AccountsTyped, Spread!Relink, Spread!Steps
  <2>2. PICK old \in req[r].seen \intersect account[u].links :
          Spread!Update(u, [account[u] EXCEPT !.links = (account[u].links \ {old}) \union {req[r].ident}])
    BY <1>18, <2>1 DEF Spread!Relink
  <2> DEFINE links == (account[u].links \ {old}) \union {req[r].ident}
             entry == [account[u] EXCEPT !.links = links]
  <2>3. u \in Spread!Concerns(req[r])
    BY <1>0, <1>c, <2>1
  <2>4. ProviderOf[old] = ProviderOf[req[r].ident]
    BY <1>18, <2>1, <2>2 DEF SignInKept, ReadHolds, Spread!Relink, Spread!OfProvider
  <2>5. entry.links = links
    BY <1>w
  <2>6. \A i, j \in links : ProviderOf[i] = ProviderOf[j] => i = j
    BY <1>h, <1>w, <2>1, <2>2, <2>4
  <2>7. Spread!Finish(r) /\ UNCHANGED condemnedUsers /\ Spread!Update(u, entry) /\ links # {}
    BY <1>18, <2>2 DEF Spread!Relink
  <2> HIDE DEF entry, links
  <2> QED BY <2>3, <2>5, <2>6, <2>7, RequestEnds
<1>19. CASE Spread!ReadPassword(r)
  <2>1. PICK u \in User : u = req[r].by /\ req[r] \in RequestsOfAccounts
    BY <1>19, RequestsTyped DEF AccountsTyped, Spread!ReadPassword, Spread!Steps
  <2>2. UNCHANGED <<account, condemnedUsers>>
    BY <1>19 DEF Spread!ReadPassword
  <2>3. CASE Spread!Finish(r)
    BY <1>e, <2>2, <2>3
  <2>4. CASE ~Spread!Finish(r)
    <3> DEFINE q == [req[r] EXCEPT !.pc = "unlink", !.seen = {}]
    <3>0. /\ req' = [req EXCEPT ![r].pc = "unlink", ![r].seen = {}] /\ u \in Spread!Here /\ req[r].seen # {}
          /\ Cardinality(req[r].seen) > 1 \/ account[u].password
      <4>1. u \in Spread!Here /\ req[r].seen # {} /\ (Cardinality(req[r].seen) > 1 \/ account[u].password)
        <5> DEFINE may == /\ req[r].by \in Spread!Here /\ req[r].seen # {}
                          /\ Spread!Cardinality(req[r].seen) > 1 \/ account[req[r].by].password
        <5>1. IF may THEN req' = [req EXCEPT ![r].pc = "unlink", ![r].seen = {}] ELSE Spread!Finish(r)
          BY <1>19, Zenon DEF Spread!ReadPassword
        <5>2. may
          <6> HIDE DEF may
          <6> QED BY <2>4, <5>1
        <5>3. Spread!Cardinality(req[r].seen) = Cardinality(req[r].seen)
          BY DEF Spread!Cardinality, Cardinality
        <5> QED BY <2>1, <5>2, <5>3
      <4>2. req' = [req EXCEPT ![r].pc = "unlink", ![r].seen = {}]
        BY <1>19, <2>4 DEF Spread!ReadPassword
      <4> QED BY <4>1, <4>2
    <3>1. req' = [req EXCEPT ![r] = q]
      BY <1>0, <3>0
    <3>2. /\ q \in RequestsOfAccounts /\ q.by = u /\ q.on = req[r].on /\ q.name = req[r].name /\ q.pc = "unlink"
      BY <2>1 DEF RequestsOfAccounts, Spread!Steps
    <3>3. req[r].seen = account[u].links
      BY <1>19, <2>1 DEF SignInKept, ReadHolds, Spread!ReadPassword
    <3>4. account[u].password \/ \E i \in account[u].links : ProviderOf[i] # req[r].name
      <4>1. SUFFICES ASSUME ~account[u].password, \A i \in account[u].links : ProviderOf[i] = req[r].name
                     PROVE  FALSE
        OBVIOUS
      <4>2. PICK i : i \in account[u].links
        BY <3>0, <3>3
      <4>3. account[u].links = {i}
        BY <1>h, <1>w, <3>0, <4>1, <4>2
      <4>4. Cardinality({i}) > 1
        BY <3>0, <3>3, <4>1, <4>3
      <4> QED BY <4>4, FS_Singleton
    <3> HIDE DEF q
    <3>5. ReadHolds(q)
      BY <3>2, <3>4 DEF ReadHolds
    <3> QED BY <1>g, <2>1, <2>2, <3>1, <3>2, <3>5
  <2> QED BY <2>3, <2>4
<1>20. CASE Spread!DeleteLinks(r)
  <2>1. PICK u \in User : u = req[r].by /\ u \in Spread!Here /\ req[r] \in RequestsOfAccounts
    BY <1>20, RequestsTyped DEF AccountsTyped, Spread!DeleteLinks, Spread!Steps
  <2> DEFINE links == account[u].links \ Spread!OfProvider(account[u].links, req[r].name)
             entry == [account[u] EXCEPT !.links = links]
  <2>2. u \in Spread!Concerns(req[r])
    BY <1>0, <1>c, <2>1
  <2>3. account[u].password \/ links # {}
    BY <1>20, <2>1 DEF SignInKept, ReadHolds, Spread!DeleteLinks, Spread!OfProvider
  <2>4. entry.links = links /\ entry.password = account[u].password
    BY <1>w
  <2>5. \A i, j \in links : ProviderOf[i] = ProviderOf[j] => i = j
    BY <1>h, <1>w, <2>1
  <2>6. Spread!Finish(r) /\ UNCHANGED condemnedUsers /\ Spread!Update(u, entry)
    BY <1>20, <2>1 DEF Spread!DeleteLinks
  <2> HIDE DEF entry, links
  <2> QED BY <2>2, <2>3, <2>4, <2>5, <2>6, RequestEnds
<1> QED
  BY <1>1, <1>2, <1>3, <1>4, <1>5, <1>6, <1>7, <1>8, <1>9, <1>10, <1>11, <1>12, <1>13, <1>14, <1>15, <1>16, <1>17,
     <1>18, <1>19, <1>20
  DEF Spread!Handle

(* As long as no two requests concern an account at once, it keeps a way   *)
(* to sign in until its deletion begins, whatever is linked, linked anew   *)
(* and unlinked; and nobody demotes or deletes a SUPERADMIN, although the  *)
(* roles are checked on what was read: for any accounts, identities,       *)
(* providers and requests.                                                 *)
THEOREM AccountsKeep ==
    ASSUME Spread!AccountsAssumption
    PROVE  Spread!Spec => AccountsKept
<1>1. Spread!Init => AccountsInv
  <2> SUFFICES ASSUME Spread!Init PROVE AccountsInv
    OBVIOUS
  <2>1. req \in [Req -> RequestsOfAccounts \union {Spread!Idle}] /\ \A r \in Req : req[r] = Spread!Idle
    BY DEF Spread!Init
  <2>2. account \in AccountRows /\ Spread!Here = {}
    BY DEF Spread!Init, Spread!Nobody, AccountRows, Spread!Roles, Spread!Here
  <2>3. AccountsTyped
    BY <2>1, <2>2 DEF AccountsTyped, AccountRows, Spread!TypeOK, Spread!Init, Spread!Idle
  <2>4. TargetsBelow
    BY <2>1 DEF TargetsBelow, Spread!Idle
  <2>5. SignInKept
    BY <2>1, <2>2 DEF SignInKept, Apart, Spread!Concerns, ReadHolds, Spread!Idle
  <2> QED BY <2>3, <2>4, <2>5 DEF AccountsInv
<1>2. AccountsInv /\ [Spread!Next]_(Spread!vars) => AccountsInv' /\ [Spread!SuperadminStays]_accountVars
  <2> SUFFICES ASSUME AccountsInv, [Spread!Next]_(Spread!vars)
               PROVE  AccountsInv' /\ [Spread!SuperadminStays]_accountVars
    OBVIOUS
  <2>1. ASSUME NEW r \in Req, Spread!Handle(r) PROVE AccountsInv' /\ Spread!SuperadminStays
    <3>1. AccountsTyped' /\ TargetsBelow' /\ Spread!SuperadminStays
      BY <2>1, AccountsTypedStep, TargetsBelowStep DEF AccountsInv
    <3>2. alone' = alone
      BY <2>1 DEF Spread!Handle, Spread!Setup, Spread!CreateRoot, Spread!InsertUser, Spread!SignUp, Spread!MarkSetup,
           Spread!CreateUser, Spread!PatchUser, Spread!DeleteUser, Spread!UpdateUser, Spread!DropLinks, Spread!RemoveUser,
           Spread!PatchSelf, Spread!UpdateSelf, Spread!Callback, Spread!ReadSession, Spread!Link, Spread!Relink,
           Spread!Unlink, Spread!ReadPassword, Spread!DeleteLinks, Spread!Fail
    <3>3. ASSUME alone PROVE SignInKept'
      BY <2>1, <3>1, <3>3, SignInStep DEF AccountsInv
    <3> QED BY <3>1, <3>2, <3>3 DEF AccountsInv
  <2>2. CASE UNCHANGED accountVars
    <3>1. AccountsTyped' /\ TargetsBelow'
      BY <2>2 DEF accountVars, AccountsInv, AccountsTyped, Spread!TypeOK, TargetsBelow, Spread!Here
    <3>2. SignInKept => SignInKept'
      BY <2>2 DEF accountVars, Spread!Here, SignInKept, Apart, Spread!Concerns, OneOfEach, MaySignIn, ReadHolds, Spread!OfProvider
    <3> QED BY <2>2, <3>1, <3>2 DEF accountVars, AccountsInv
  <2> QED BY <2>1, <2>2 DEF Spread!Next, Spread!vars, accountVars
<1>3. AccountsInv => Spread!TypeOK /\ Spread!LoginMethodKept
  BY DEF AccountsInv, AccountsTyped, SignInKept, MaySignIn, Spread!LoginMethodKept
<1> QED BY <1>1, <1>2, <1>3, PTL DEF Spread!Spec, AccountsKept
=============================================================================
