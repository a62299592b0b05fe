--------------------------- MODULE FileStoreProofs ---------------------------
(***************************************************************************)
(* Proofs about FileStore: its type invariant for every instance; that it  *)
(* implements FileCatalog; that an acknowledged file nobody may remove     *)
(* keeps its row and its bytes; that while all goes well no object is left *)
(* without a row; and that the tasks erase an object before its row.       *)
(***************************************************************************)
EXTENDS QuietStore, TLAPS

(* What the three bookkeeping operators do to the goroutines' records:     *)
(* goroutine o changes as named, the others do not.                        *)
Starts(o, pc, f, n, m, s) ==
    /\ op' \in [Op -> Busy \union {Idle}]
    /\ op[o] = Idle
    /\ op'[o] \in Busy
    /\ op'[o].pc = pc /\ op'[o].file = f /\ op'[o].name = n
    /\ op'[o].to = m /\ op'[o].strict = s
    /\ \A p \in Op \ {o} : op'[p] = op[p]

LEMMA StartEffect ==
    ASSUME op \in [Op -> Busy \union {Idle}], NEW o \in Op, NEW pc \in PC, NEW f \in File,
           NEW n \in Name, NEW m \in Name \union {NoName}, NEW s \in BOOLEAN,
           Start(o, pc, f, n, m, s)
    PROVE  Starts(o, pc, f, n, m, s)
<1>1. op[o] = Idle
  BY DEF Start, Busy, PC
<1>2. op'[o] = [pc |-> pc, file |-> f, name |-> n, to |-> m, strict |-> s]
  BY DEF Start
<1>3. op'[o] \in Busy
  BY <1>2 DEF Busy
<1>4. \A p \in Op \ {o} : op'[p] = op[p]
  BY DEF Start
<1>5. op' \in [Op -> Busy \union {Idle}]
  BY <1>3, <1>4 DEF Start
<1> QED BY <1>1, <1>2, <1>3, <1>4, <1>5 DEF Starts

LEMMA GotoEffect ==
    ASSUME op \in [Op -> Busy \union {Idle}], NEW o \in Op, op[o].pc # "idle",
           NEW pc \in PC, Goto(o, pc)
    PROVE  /\ op' \in [Op -> Busy \union {Idle}]
           /\ op[o] \in Busy /\ op'[o] \in Busy
           /\ op'[o].pc = pc /\ op'[o].file = op[o].file /\ op'[o].name = op[o].name
           /\ op'[o].to = op[o].to /\ op'[o].strict = op[o].strict
           /\ \A p \in Op \ {o} : op'[p] = op[p]
<1>1. op[o] \in Busy
  BY DEF Idle
<1>2. op'[o] = [op[o] EXCEPT !.pc = pc]
  BY DEF Goto
<1>3. /\ op'[o] \in Busy
      /\ op'[o].pc = pc /\ op'[o].file = op[o].file /\ op'[o].name = op[o].name
      /\ op'[o].to = op[o].to /\ op'[o].strict = op[o].strict
  BY <1>1, <1>2 DEF Busy
<1>4. \A p \in Op \ {o} : op'[p] = op[p]
  BY DEF Goto
<1>5. op' \in [Op -> Busy \union {Idle}]
  BY <1>3, <1>4 DEF Goto
<1> QED BY <1>1, <1>3, <1>4, <1>5

LEMMA FinishEffect ==
    ASSUME op \in [Op -> Busy \union {Idle}], NEW o \in Op, Finish(o)
    PROVE  /\ op' \in [Op -> Busy \union {Idle}]
           /\ op'[o] = Idle
           /\ \A p \in Op \ {o} : op'[p] = op[p]
  BY DEF Finish

(* A goroutine under way is at a step of a handler, on a file and a name.  *)
LEMMA BusyFields ==
    ASSUME op \in [Op -> Busy \union {Idle}], NEW o \in Op, op[o].pc # "idle"
    PROVE  /\ op[o] \in Busy /\ op[o].pc \in PC
           /\ op[o].file \in File /\ op[o].name \in Name
           /\ op[o].to \in Name \union {NoName}
  BY DEF Busy, Idle

(* All a step of the specification can be; the proofs below split on it.   *)
LEMMA NextCases ==
    ASSUME Next
    PROVE  \/ \E o \in Op, f \in File :
                \/ UploadBegin(o, f) \/ ServeBegin(o, f) \/ BulkBegin(o, f)
                \/ DetachBegin(o, f) \/ DeleteBegin(o, f) \/ ExpireBegin(o, f)
                \/ RequeryBegin(o, f) \/ \E m \in NamesOf[f] : RenameBegin(o, f, m)
           \/ \E o \in Op : Continues(o)
           \/ \E f \in File : Expire(f)
           \/ Crash
  BY ConfigAssumption DEF Next, Request

(* Every step keeps the types.                                             *)
LEMMA TypeStep ==
    ASSUME TypeOK, [Next]_vars
    PROVE  TypeOK'
<1> USE NamesAssumption DEF TypeOK
<1>0. PC = {"put", "insert", "undo", "dropObj", "dropRow", "rmRow", "rmObj",
            "move", "moveDrop", "update", "probe"}
  BY DEF PC
<1>1. ASSUME NEW o \in Op, NEW f \in File, UploadBegin(o, f) PROVE TypeOK'
  <2>1. PICK n \in NamesOf[f] : Start(o, "put", f, n, NoName, FALSE)
    BY <1>1 DEF UploadBegin
  <2>2. op' \in [Op -> Busy \union {Idle}]
    BY <1>0, <2>1, StartEffect DEF Starts
  <2> QED BY <1>1, <2>2 DEF UploadBegin
<1>2. ASSUME NEW o \in Op, NEW f \in File, NEW kind, NEW pc \in PC, NEW s \in BOOLEAN,
             NEW m \in Name \union {NoName}, Reads(o, kind, pc, f, m, s)
      PROVE  op' \in [Op -> Busy \union {Idle}]
  BY <1>2, StartEffect DEF Reads, Starts
<1>3. ASSUME NEW o \in Op, NEW f \in File,
             ServeBegin(o, f) \/ BulkBegin(o, f) \/ DetachBegin(o, f)
             \/ DeleteBegin(o, f) \/ ExpireBegin(o, f) \/ RequeryBegin(o, f)
      PROVE  TypeOK'
  <2>1. op' \in [Op -> Busy \union {Idle}]
    BY <1>0, <1>2, <1>3 DEF ServeBegin, BulkBegin, DetachBegin, DeleteBegin,
                            ExpireBegin, RequeryBegin
  <2> QED BY <1>3, <2>1 DEF ServeBegin, BulkBegin, DetachBegin, DeleteBegin,
                            ExpireBegin, RequeryBegin
<1>4. ASSUME NEW o \in Op, NEW f \in File, NEW m \in NamesOf[f], RenameBegin(o, f, m)
      PROVE  TypeOK'
  <2>1. op' \in [Op -> Busy \union {Idle}]
    BY <1>0, <1>2, <1>4 DEF RenameBegin
  <2> QED BY <1>4, <2>1 DEF RenameBegin
<1>5. ASSUME NEW o \in Op, Continues(o) PROVE TypeOK'
  <2>1. op[o].pc # "idle" /\ ((\E pc \in PC : Goto(o, pc)) \/ Finish(o))
    BY <1>0, <1>5 DEF Continues,
         UploadPut, UploadPutFails, UploadInsert, UploadInsertFails, UploadUndo,
         DropObject, DropObjectFails, DropRow, DropRowFails, RemoveRow,
         RemoveRowFails, RemoveObject, MoveLocal, MoveCopy, MoveDrop, MoveFails,
         RenameUpdate, RenameUpdateFails, RequeryMissing, RequeryPresent
  <2>2. op' \in [Op -> Busy \union {Idle}]
    BY <2>1, GotoEffect, FinishEffect
  <2>3. op[o].file \in File /\ op[o].name \in Name /\ op[o].to \in Name \union {NoName}
    BY <2>1, BusyFields
  <2> HIDE DEF TypeOK
  <2>4. CASE UploadPut(o) \/ UploadPutFails(o) \/ UploadUndo(o) \/ DropObject(o)
             \/ RemoveObject(o) \/ MoveLocal(o) \/ MoveCopy(o) \/ MoveDrop(o)
    BY <2>2, <2>3, <2>4 DEF TypeOK, UploadPut, UploadPutFails, UploadUndo, DropObject,
         RemoveObject, MoveLocal, MoveCopy, MoveDrop, DeleteObject
  <2>5. CASE UploadInsert(o) \/ UploadInsertFails(o) \/ DropRow(o) \/ RemoveRow(o)
             \/ RenameUpdate(o)
    BY <2>2, <2>3, <2>5 DEF TypeOK, UploadInsert, UploadInsertFails, DropRow, RemoveRow,
         RenameUpdate, DeleteRow
  <2>6. CASE DropObjectFails(o) \/ DropRowFails(o) \/ RemoveRowFails(o) \/ MoveFails(o)
             \/ RenameUpdateFails(o) \/ RequeryMissing(o) \/ RequeryPresent(o)
    BY <2>2, <2>6 DEF TypeOK, DropObjectFails, DropRowFails, RemoveRowFails, MoveFails,
         RenameUpdateFails, RequeryMissing, RequeryPresent
  <2> QED BY <1>5, <2>4, <2>5, <2>6 DEF Continues
<1>6. ASSUME NEW f \in File, Expire(f) PROVE TypeOK'
  BY <1>6 DEF Expire
<1>7. CASE Crash
  BY <1>7 DEF Crash
<1>8. CASE UNCHANGED vars
  BY <1>8 DEF vars
<1> QED BY <1>1, <1>3, <1>4, <1>5, <1>6, <1>7, <1>8, NextCases

(* Every variable keeps its type: in particular each goroutine works on an *)
(* id and under a name, never on one in the place of the other.            *)
THEOREM TypeCorrect == Spec => []TypeOK
<1>1. Init => TypeOK
  BY DEF Init, TypeOK
<1>2. TypeOK /\ [Next]_vars => TypeOK'
  BY TypeStep
<1> QED BY <1>1, <1>2, PTL DEF Spec

-----------------------------------------------------------------------------
(* Inductive steps.  What each kind of step does, in the terms of the invariant. *)

(* Any request or task begins by taking a free goroutine; an upload takes  *)
(* a new file, and everything else a file with a row, under the row's name. *)
Begins(o, f) ==
    \/ UploadBegin(o, f) \/ ServeBegin(o, f) \/ BulkBegin(o, f)
    \/ DetachBegin(o, f) \/ DeleteBegin(o, f) \/ ExpireBegin(o, f)
    \/ RequeryBegin(o, f) \/ \E m \in NamesOf[f] : RenameBegin(o, f, m)

Took(o, kind, pc, f, m) ==
    /\ op[o] = Idle /\ op'[o] \in Busy /\ op'[o].file = f /\ op'[o].pc = pc
    /\ kind \in Kinds /\ row[f] # NoName /\ op'[o].name = row[f] /\ op'[o].to = m
    /\ \A p \in Op \ {o} : op'[p] = op[p]

LEMMA BeginStep ==
    ASSUME TypeOK, NEW o \in Op, NEW f \in File, Begins(o, f)
    PROVE  /\ op[o] = Idle /\ op'[o] \in Busy /\ op'[o].file = f
           /\ \A p \in Op \ {o} : op'[p] = op[p]
           /\ row' = row /\ object' = object /\ acked' = acked /\ expired' = expired
           /\ requested' \in {requested, requested \union {f}}
           /\ \/ /\ op'[o].pc = "put" /\ f \notin started /\ started' = started \union {f}
                 /\ op'[o].name \in NamesOf[f] \ {EmptyName} /\ op'[o].to = NoName
                 /\ requested' = requested
              \/ /\ started' = started /\ row[f] # NoName /\ op'[o].name = row[f]
                 /\ \/ op'[o].pc \in {"dropObj", "dropRow", "rmRow"} /\ f \in condemned'
                    \/ op'[o].pc = "probe" /\ "requery" \in Kinds
                    \/ /\ op'[o].pc \in {"move", "update"} /\ "rename" \in Kinds
                       /\ op'[o].to \in NamesOf[f]
                       /\ op'[o].pc = "move" => op'[o].to \notin {EmptyName, row[f]}
<1> USE NamesAssumption DEF TypeOK
<1>0. PC = {"put", "insert", "undo", "dropObj", "dropRow", "rmRow", "rmObj",
            "move", "moveDrop", "update", "probe"}
  BY DEF PC
<1>1. CASE UploadBegin(o, f)
  <2>1. PICK n \in NamesOf[f] \ {EmptyName} : Start(o, "put", f, n, NoName, FALSE)
    BY <1>1 DEF UploadBegin
  <2>2. n \in Name /\ "put" \in PC
    BY <1>0, <2>1
  <2>3. /\ op[o] = Idle /\ op'[o] \in Busy /\ op'[o].file = f /\ op'[o].pc = "put"
        /\ op'[o].name = n /\ op'[o].to = NoName
        /\ \A p \in Op \ {o} : op'[p] = op[p]
    <3>0. op \in [Op -> Busy \union {Idle}]
      OBVIOUS
    <3> HIDE DEF TypeOK
    <3>1. Start(o, "put", f, n, NoName, FALSE) /\ NoName \in Name \union {NoName} /\ FALSE \in BOOLEAN
      BY <2>1
    <3>2. Starts(o, "put", f, n, NoName, FALSE)
      BY <2>2, <3>0, <3>1, StartEffect
    <3> QED BY <3>2 DEF Starts
  <2> QED BY <1>1, <2>1, <2>3 DEF UploadBegin
<1>2. ASSUME NEW kind, NEW pc \in PC, NEW s \in BOOLEAN,
             NEW m \in Name \union {NoName}, Reads(o, kind, pc, f, m, s)
      PROVE  Took(o, kind, pc, f, m)
  <2>1. row[f] \in Name
    BY <1>2 DEF Reads
  <2>2. Starts(o, pc, f, row[f], m, s)
    BY <1>2, <2>1, StartEffect DEF Reads
  <2> QED BY <1>2, <2>2 DEF Reads, Starts, Took
<1>3. CASE ServeBegin(o, f) \/ ExpireBegin(o, f)
  <2>1. \E kind \in {"serve", "expire"}, s \in BOOLEAN : Reads(o, kind, "dropObj", f, NoName, s)
    BY <1>3 DEF ServeBegin, ExpireBegin
  <2>2. \E kind \in {"serve", "expire"} : Took(o, kind, "dropObj", f, NoName)
    <3>1. PICK kind \in {"serve", "expire"}, s \in BOOLEAN : Reads(o, kind, "dropObj", f, NoName, s)
      BY <2>1
    <3>2. "dropObj" \in PC /\ NoName \in Name \union {NoName}
      BY <1>0
    <3> QED BY <1>2, <3>1, <3>2
  <2> QED BY <1>3, <2>2 DEF ServeBegin, ExpireBegin, condemned, Took
<1>4. CASE BulkBegin(o, f) \/ DetachBegin(o, f) \/ DeleteBegin(o, f)
  <2>1. \E kind \in Kinds, pc \in {"dropObj", "dropRow", "rmRow"} :
            Reads(o, kind, pc, f, NoName, FALSE)
    BY <1>4 DEF BulkBegin, DetachBegin, DeleteBegin, Reads
  <2>2. \E kind \in Kinds, pc \in {"dropObj", "dropRow", "rmRow"} : Took(o, kind, pc, f, NoName)
    BY <1>0, <1>2, <2>1
  <2> QED BY <1>4, <2>2 DEF BulkBegin, DetachBegin, DeleteBegin, condemned, Took
<1>5. CASE RequeryBegin(o, f)
  <2>1. Took(o, "requery", "probe", f, NoName)
    BY <1>0, <1>2, <1>5 DEF RequeryBegin
  <2> QED BY <1>5, <2>1 DEF RequeryBegin, Took
<1>6. ASSUME NEW m \in NamesOf[f], RenameBegin(o, f, m)
      PROVE  /\ op[o] = Idle /\ op'[o] \in Busy /\ op'[o].file = f
             /\ op'[o].pc \in {"move", "update"} /\ "rename" \in Kinds
             /\ row[f] # NoName /\ op'[o].name = row[f] /\ op'[o].to = m
             /\ op'[o].pc = "move" => m \notin {EmptyName, row[f]}
             /\ \A p \in Op \ {o} : op'[p] = op[p]
             /\ UNCHANGED <<row, object, started, acked, expired, requested>>
  <2>1. m \in Name
    BY <1>6
  <2>2. CASE m # EmptyName /\ m # row[f]
    <3>1. Reads(o, "rename", "move", f, m, FALSE)
      BY <1>6, <2>2 DEF RenameBegin
    <3>2. Took(o, "rename", "move", f, m)
      BY <1>0, <1>2, <2>1, <3>1
    <3> QED BY <1>6, <2>2, <3>2 DEF RenameBegin, Took
  <2>3. CASE ~(m # EmptyName /\ m # row[f])
    <3>1. Reads(o, "rename", "update", f, m, FALSE)
      BY <1>6, <2>3 DEF RenameBegin
    <3>2. Took(o, "rename", "update", f, m)
      BY <1>0, <1>2, <2>1, <3>1
    <3> QED BY <1>6, <3>2 DEF RenameBegin, Took
  <2> QED BY <2>2, <2>3
<1> HIDE DEF TypeOK
<1>7. CASE \E m \in NamesOf[f] : RenameBegin(o, f, m)
  BY <1>6, <1>7
<1> QED BY <1>1, <1>3, <1>4, <1>5, <1>7 DEF Begins

(* A goroutine under way moves along its handler, keeping what it read.    *)
Follows == {<<"put", "insert">>, <<"insert", "undo">>, <<"dropObj", "dropRow">>,
            <<"rmRow", "rmObj">>, <<"move", "update">>, <<"move", "moveDrop">>,
            <<"moveDrop", "update">>, <<"probe", "dropRow">>}

LEMMA ContinuesStep ==
    ASSUME TypeOK, NEW o \in Op, Continues(o)
    PROVE  /\ op[o] \in Busy /\ op[o].pc # "idle"
           /\ op[o].file \in File /\ op[o].name \in Name
           /\ \A p \in Op \ {o} : op'[p] = op[p]
           /\ \/ op'[o] = Idle
              \/ /\ op'[o] \in Busy
                 /\ op'[o].file = op[o].file /\ op'[o].name = op[o].name
                 /\ op'[o].to = op[o].to
                 /\ <<op[o].pc, op'[o].pc>> \in Follows
                 /\ op'[o].pc = "moveDrop" => Backend = "s3"
           /\ UNCHANGED <<started, expired, requested>>
<1>0. PC = {"put", "insert", "undo", "dropObj", "dropRow", "rmRow", "rmObj",
            "move", "moveDrop", "update", "probe"}
  BY DEF PC
<1>1. /\ op[o].pc # "idle"
      /\ \/ Finish(o)
         \/ \E pc \in PC : /\ Goto(o, pc) /\ <<op[o].pc, pc>> \in Follows
                           /\ pc = "moveDrop" => Backend = "s3"
  BY <1>0 DEF Continues, Follows,
             UploadPut, UploadPutFails, UploadInsert, UploadInsertFails,
             UploadUndo, DropObject, DropObjectFails, DropRow, DropRowFails,
             RemoveRow, RemoveRowFails, RemoveObject, MoveLocal, MoveCopy,
             MoveDrop, MoveFails, RenameUpdate, RenameUpdateFails, RequeryMissing,
             RequeryPresent
<1>2. UNCHANGED <<started, expired, requested>>
  BY DEF Continues,
             UploadPut, UploadPutFails, UploadInsert, UploadInsertFails,
             UploadUndo, DropObject, DropObjectFails, DropRow, DropRowFails,
             RemoveRow, RemoveRowFails, RemoveObject, MoveLocal, MoveCopy,
             MoveDrop, MoveFails, RenameUpdate, RenameUpdateFails, RequeryMissing,
             RequeryPresent
<1>3. op \in [Op -> Busy \union {Idle}]
  BY DEF TypeOK
<1>4. CASE Finish(o)
  BY <1>1, <1>2, <1>3, <1>4, FinishEffect, BusyFields
<1>5. ASSUME NEW pc \in PC, Goto(o, pc), <<op[o].pc, pc>> \in Follows,
             pc = "moveDrop" => Backend = "s3"
      PROVE  /\ op'[o] \in Busy
             /\ op'[o].file = op[o].file /\ op'[o].name = op[o].name
             /\ op'[o].to = op[o].to /\ op'[o].pc = pc
             /\ \A p \in Op \ {o} : op'[p] = op[p]
  BY <1>1, <1>3, <1>5, GotoEffect
<1> QED BY <1>1, <1>2, <1>3, <1>4, <1>5, BusyFields

(* What such a step does to the rows and the acknowledgements.             *)
LEMMA RowStep ==
    ASSUME TypeOK, NEW o \in Op, Continues(o)
    PROVE  \/ row' = row /\ acked' = acked
           \/ /\ op[o].pc \in {"dropRow", "rmRow"} /\ acked' = acked
              /\ row' = [row EXCEPT ![op[o].file] = NoName]
           \/ /\ op[o].pc = "insert" /\ op'[o].pc = "undo" /\ acked' = acked
              /\ row' = [row EXCEPT ![op[o].file] = op[o].name]
           \/ /\ op[o].pc = "insert" /\ op'[o] = Idle /\ acked' = acked \union {op[o].file}
              /\ row' = [row EXCEPT ![op[o].file] = op[o].name]
           \/ /\ op[o].pc = "update" /\ row[op[o].file] # NoName /\ acked' = acked
              /\ row' = [row EXCEPT ![op[o].file] = op[o].to]
<1>1. op \in [Op -> Busy \union {Idle}]
  BY DEF TypeOK
<1>2. CASE UploadInsert(o)
  BY <1>1, <1>2, FinishEffect DEF UploadInsert
<1>3. CASE UploadInsertFails(o)
  BY <1>1, <1>3, GotoEffect DEF UploadInsertFails, PC
<1>4. CASE DropRow(o) \/ RemoveRow(o) \/ RenameUpdate(o)
  BY <1>4 DEF DropRow, RemoveRow, RenameUpdate, DeleteRow
<1>5. CASE UploadPut(o) \/ UploadPutFails(o) \/ UploadUndo(o) \/ DropObject(o)
           \/ RemoveObject(o) \/ MoveLocal(o) \/ MoveCopy(o) \/ MoveDrop(o)
  BY <1>5 DEF UploadPut, UploadPutFails, UploadUndo, DropObject, RemoveObject, MoveLocal,
              MoveCopy, MoveDrop
<1>6. CASE DropObjectFails(o) \/ DropRowFails(o) \/ RemoveRowFails(o) \/ MoveFails(o)
           \/ RenameUpdateFails(o) \/ RequeryMissing(o) \/ RequeryPresent(o)
  BY <1>6 DEF DropObjectFails, DropRowFails, RemoveRowFails, MoveFails,
              RenameUpdateFails, RequeryMissing, RequeryPresent
<1> QED BY <1>2, <1>3, <1>4, <1>5, <1>6 DEF Continues

(* What such a step does to the objects.                                   *)
LEMMA ObjectStep ==
    ASSUME TypeOK, NEW o \in Op, Continues(o)
    PROVE  \/ object' = object /\ (op[o].pc = "put" => op'[o] = Idle)
           \/ /\ op[o].pc \in {"undo", "dropObj", "rmObj", "moveDrop"}
              /\ object' = [object EXCEPT ![op[o].name] = NoFile]
           \/ /\ op[o].pc = "put" /\ op'[o].pc = "insert"
              /\ object' = [object EXCEPT ![op[o].name] = op[o].file]
           \/ /\ op[o].pc = "put" /\ op'[o] = Idle
              /\ object' = [object EXCEPT ![op[o].name] = Torn]
           \/ /\ op[o].pc = "move" /\ object[op[o].name] # NoFile
              /\ object' = [object EXCEPT ![op[o].to] = object[op[o].name],
                                          ![op[o].name] = NoFile]
           \/ op[o].pc = "move" /\ op'[o].pc = "moveDrop"
<1>1. op \in [Op -> Busy \union {Idle}]
  BY DEF TypeOK
<1>2. CASE UploadPut(o)
  BY <1>1, <1>2, GotoEffect DEF UploadPut, PC
<1>3. CASE UploadPutFails(o)
  BY <1>1, <1>3, FinishEffect DEF UploadPutFails
<1>4. CASE UploadUndo(o) \/ DropObject(o) \/ RemoveObject(o) \/ MoveDrop(o)
  BY <1>4 DEF UploadUndo, DropObject, RemoveObject, MoveDrop, DeleteObject
<1>5. CASE MoveLocal(o)
  BY <1>5 DEF MoveLocal
<1>6. CASE MoveCopy(o)
  BY <1>1, <1>6, GotoEffect DEF MoveCopy, PC
<1>7. CASE UploadInsert(o) \/ UploadInsertFails(o) \/ DropRow(o) \/ RemoveRow(o)
           \/ RenameUpdate(o)
  BY <1>7 DEF UploadInsert, UploadInsertFails, DropRow, RemoveRow, RenameUpdate
<1>8. CASE DropObjectFails(o) \/ DropRowFails(o) \/ RemoveRowFails(o) \/ MoveFails(o)
           \/ RenameUpdateFails(o) \/ RequeryMissing(o) \/ RequeryPresent(o)
  BY <1>8 DEF DropObjectFails, DropRowFails, RemoveRowFails, MoveFails,
              RenameUpdateFails, RequeryMissing, RequeryPresent
<1> QED BY <1>2, <1>3, <1>4, <1>5, <1>6, <1>7, <1>8 DEF Continues

(* Time passing, a crash and a stutter: rows, objects and acknowledgements *)
(* stay, and goroutines stay or are all gone.                              *)
LEMMA OtherStep ==
    ASSUME (\E f \in File : Expire(f)) \/ Crash \/ UNCHANGED vars
    PROVE  /\ UNCHANGED <<row, object, started, acked, requested>>
           /\ expired \subseteq expired'
           /\ op' = op \/ op' = [o \in Op |-> Idle]
  BY DEF Expire, Crash, vars

LEMMA StepCases ==
    ASSUME [Next]_vars
    PROVE  \/ \E o \in Op, f \in File : Begins(o, f)
           \/ \E o \in Op : Continues(o)
           \/ (\E f \in File : Expire(f)) \/ Crash \/ UNCHANGED vars
  BY NextCases DEF Begins

(* Every goroutine is free or busy, and a free one has no file.            *)
LEMMA OpKinds ==
    ASSUME TypeOK, NEW o \in Op
    PROVE  /\ op[o] = Idle \/ op[o] \in Busy
           /\ op[o] = Idle <=> op[o].pc = "idle"
           /\ op[o] \in Busy => /\ op[o].file \in File /\ op[o].name \in Name /\ op[o].pc \in PC
                                /\ op[o].file # NoFile
           /\ op[o] = Idle => op[o].file = NoFile
  BY NamesAssumption DEF TypeOK, Busy, Idle, PC

LEMMA KnownFilesStep ==
    ASSUME "requery" \notin Kinds, CatalogInv, [Next]_vars
    PROVE  KnownFiles'
<1>0. TypeOK /\ KnownFiles
  BY DEF CatalogInv
<1>1. ASSUME NEW o \in Op, NEW f \in File, Begins(o, f) PROVE KnownFiles'
  <2>1. /\ row' = row /\ acked' = acked /\ started \subseteq started'
        /\ \A p \in Op \ {o} : op'[p] = op[p]
    BY <1>0, <1>1, BeginStep
  <2>2. /\ op'[o].file \in started'
        /\ op'[o].pc \in {"move", "moveDrop", "update"} => op'[o].to # NoName
        /\ op'[o].pc # "probe"
    BY <1>0, <1>1, BeginStep, NamesAssumption DEF KnownFiles
  <2> QED BY <1>0, <2>1, <2>2 DEF KnownFiles
<1>2. ASSUME NEW o \in Op, Continues(o) PROVE KnownFiles'
  <2>1. /\ \A p \in Op \ {o} : op'[p] = op[p]
        /\ started' = started /\ op[o].file \in File /\ op[o].pc # "idle"
        /\ \/ op'[o] = Idle
           \/ /\ op'[o].file = op[o].file /\ op'[o].to = op[o].to
              /\ <<op[o].pc, op'[o].pc>> \in Follows
    BY <1>0, <1>2, ContinuesStep
  <2>2. /\ op[o].file \in started
        /\ op[o].pc \in {"move", "moveDrop", "update"} => op[o].to # NoName
    BY <1>0, <2>1 DEF KnownFiles
  <2>3. acked' \subseteq started'
    BY <1>0, <1>2, <2>1, <2>2, RowStep DEF KnownFiles
  <2>4. \A f \in File : row'[f] # NoName => f \in started'
    BY <1>0, <1>2, <2>1, <2>2, RowStep DEF KnownFiles, TypeOK
  <2>5. op'[o].pc # "idle" =>
            /\ op'[o].file \in started'
            /\ op'[o].pc \in {"move", "moveDrop", "update"} => op'[o].to # NoName
            /\ op'[o].pc # "probe"
    BY <2>1, <2>2 DEF Follows, Idle
  <2> QED BY <1>0, <2>1, <2>3, <2>4, <2>5 DEF KnownFiles
<1>3. CASE (\E f \in File : Expire(f)) \/ Crash \/ UNCHANGED vars
  BY <1>0, <1>3, OtherStep DEF KnownFiles, Idle
<1> QED BY <1>1, <1>2, <1>3, StepCases

LEMMA UploaderAloneStep ==
    ASSUME CatalogInv, [Next]_vars
    PROVE  UploaderAlone'
<1>0. TypeOK /\ KnownFiles /\ UploaderAlone
  BY DEF CatalogInv
<1>1. ASSUME NEW o \in Op, NEW f \in File, Begins(o, f) PROVE UploaderAlone'
  <2>1. \A p \in Op \ {o} : op'[p] = op[p]
    BY <1>0, <1>1, BeginStep
  <2>2. op'[o].file = f /\ row' = row /\ acked' = acked
    BY <1>0, <1>1, BeginStep
  <2>3. CASE f \notin started
    <3>1. \A p \in Op \ {o} : op'[p].file # f
      <4>1. \A p \in Op : op[p].pc # "idle" => op[p].file \in started
        BY <1>0 DEF KnownFiles
      <4>2. \A p \in Op : op[p].pc = "idle" => op[p].file = NoFile
        BY <1>0, OpKinds
      <4> QED BY <2>1, <2>3, <4>1, <4>2, NamesAssumption
    <3>2. row[f] = NoName /\ f \notin acked
      BY <1>0, <2>3 DEF KnownFiles
    <3> QED BY <1>0, <2>1, <2>2, <3>1, <3>2 DEF UploaderAlone
  <2>4. CASE f \in started
    <3>1. row[f] # NoName /\ op'[o].pc \notin {"put", "insert", "undo"}
      BY <1>0, <1>1, <2>4, BeginStep
    <3>2. \A p \in Op : op[p].pc \in {"put", "insert"} => op[p].file # f
      BY <1>0, <3>1 DEF UploaderAlone
    <3> QED BY <1>0, <2>1, <2>2, <3>1, <3>2 DEF UploaderAlone
  <2> QED BY <2>3, <2>4
<1>2. ASSUME NEW o \in Op, Continues(o) PROVE UploaderAlone'
  <2>1. \A p \in Op \ {o} : op'[p] = op[p]
    BY <1>0, <1>2, ContinuesStep
  <2>2. op[o].pc # "idle" /\ op[o].file \in File
    BY <1>0, <1>2, ContinuesStep
  <2>3. \/ op'[o] = Idle
        \/ /\ op'[o].file = op[o].file
           /\ op'[o].pc = "insert" => op[o].pc = "put"
           /\ op'[o].pc = "undo" => op[o].pc = "insert"
           /\ op'[o].pc # "put"
    BY <1>0, <1>2, ContinuesStep DEF Follows
  <2>4. \A p \in Op \ {o} : op[p].pc \in {"put", "insert"} => op[p].file # op[o].file
    BY <1>0 DEF UploaderAlone
  <2>5. \A g \in File \ {op[o].file} :
            row'[g] = row[g] /\ (g \in acked' <=> g \in acked)
    BY <1>0, <1>2, <2>2, RowStep DEF TypeOK
  <2>6. ASSUME NEW p \in Op \ {o}
        PROVE  /\ op'[p].pc \in {"put", "insert"} =>
                     /\ row'[op'[p].file] = NoName
                     /\ \A q \in Op \ {p} : op'[q].file # op'[p].file
               /\ op'[p].pc \in {"put", "insert", "undo"} => op'[p].file \notin acked'
    <3>1. CASE op[p].pc \in {"put", "insert"}
      <4>1. op[p].file \in File
        BY <1>0, <3>1, OpKinds, BusyFields DEF TypeOK
      <4>2. row[op[p].file] = NoName /\ op[p].file \notin acked
            /\ \A q \in Op \ {p} : op[q].file # op[p].file
        BY <1>0, <3>1 DEF UploaderAlone
      <4>3. op'[o].file # op[p].file
        BY <2>3, <4>1, <4>2, NamesAssumption DEF Idle
      <4> QED BY <2>1, <2>4, <2>5, <3>1, <4>1, <4>2, <4>3
    <3>2. CASE op[p].pc = "undo"
      <4>1. op[p].file \in File /\ op[p].file \notin acked
        BY <1>0, <3>2, BusyFields DEF TypeOK, UploaderAlone
      <4>2. op[p].file = op[o].file => op[o].pc \notin {"put", "insert"}
        BY <1>0, <4>1 DEF UploaderAlone
      <4> QED BY <1>0, <1>2, <2>1, <2>5, <3>2, <4>1, <4>2, RowStep
    <3> QED BY <2>1, <3>1, <3>2
  <2>7. /\ op'[o].pc \in {"put", "insert"} =>
              /\ row'[op'[o].file] = NoName
              /\ \A q \in Op \ {o} : op'[q].file # op'[o].file
        /\ op'[o].pc \in {"put", "insert", "undo"} => op'[o].file \notin acked'
    <3>1. CASE op'[o] = Idle
      BY <3>1 DEF Idle
    <3>2. CASE op'[o] # Idle /\ op'[o].pc \in {"insert", "undo"}
      <4>1. op'[o].file = op[o].file /\ op[o].pc \in {"put", "insert"}
        BY <2>3, <3>2
      <4>2. row[op[o].file] = NoName /\ op[o].file \notin acked
            /\ \A q \in Op \ {o} : op[q].file # op[o].file
        BY <1>0, <4>1 DEF UploaderAlone
      <4>3. acked' = acked
        BY <1>0, <1>2, <3>2, <4>1, RowStep
      <4>4. op'[o].pc = "insert" => op[o].pc = "put" /\ row' = row
        BY <1>0, <1>2, <2>3, <3>2, RowStep
      <4>5. op'[o].pc # "put"
        BY <3>2
      <4> QED BY <2>1, <4>1, <4>2, <4>3, <4>4, <4>5
    <3> QED BY <2>3, <3>1, <3>2
  <2> QED BY <2>6, <2>7 DEF UploaderAlone
<1>3. CASE (\E f \in File : Expire(f)) \/ Crash \/ UNCHANGED vars
  BY <1>0, <1>3, OtherStep DEF UploaderAlone, Idle
<1> QED BY <1>1, <1>2, <1>3, StepCases

LEMMA RemoverEntitledStep ==
    ASSUME CatalogInv, [Next]_vars
    PROVE  RemoverEntitled'
<1>0. TypeOK /\ KnownFiles /\ RemoverEntitled
  BY DEF CatalogInv
<1>1. ASSUME NEW o \in Op, NEW f \in File, Begins(o, f) PROVE RemoverEntitled'
  <2>1. condemned \subseteq condemned' /\ \A p \in Op \ {o} : op'[p] = op[p]
    BY <1>0, <1>1, BeginStep DEF condemned
  <2>2. op'[o].pc \in {"dropObj", "dropRow", "rmRow", "rmObj"} => op'[o].file \in condemned'
    BY <1>0, <1>1, BeginStep
  <2> QED BY <1>0, <2>1, <2>2 DEF RemoverEntitled
<1>2. ASSUME NEW o \in Op, Continues(o) PROVE RemoverEntitled'
  <2>1. condemned' = condemned /\ \A p \in Op \ {o} : op'[p] = op[p]
    BY <1>0, <1>2, ContinuesStep DEF condemned
  <2>2. op[o].pc # "idle" /\ op[o].pc # "probe"
    BY <1>0, <1>2, ContinuesStep DEF KnownFiles
  <2>3. \/ op'[o] = Idle
        \/ op'[o].file = op[o].file /\ <<op[o].pc, op'[o].pc>> \in Follows
    BY <1>0, <1>2, ContinuesStep
  <2> QED BY <1>0, <2>1, <2>2, <2>3 DEF RemoverEntitled, Follows, Idle
<1>3. CASE (\E f \in File : Expire(f)) \/ Crash \/ UNCHANGED vars
  BY <1>0, <1>3, OtherStep DEF RemoverEntitled, Idle, condemned
<1> QED BY <1>1, <1>2, <1>3, StepCases

(* What the step lemmas need holds throughout, unless requery_size runs.   *)
THEOREM CatalogInvariant ==
    ASSUME "requery" \notin Kinds
    PROVE  Spec => []CatalogInv
<1>1. Init => CatalogInv
  BY NamesAssumption DEF Init, CatalogInv, TypeOK, KnownFiles, UploaderAlone,
       RemoverEntitled, Idle
<1>2. CatalogInv /\ [Next]_vars => CatalogInv'
  <2> SUFFICES ASSUME CatalogInv, [Next]_vars PROVE CatalogInv'
    OBVIOUS
  <2>1. TypeOK'
    BY TypeStep DEF CatalogInv
  <2> QED BY <2>1, KnownFilesStep, UploaderAloneStep, RemoverEntitledStep DEF CatalogInv
<1> QED BY <1>1, <1>2, PTL DEF Spec

-----------------------------------------------------------------------------
(* Refinement.                                                             *)

(* A goroutine's step leaves the phase of other files alone.               *)
LEMMA OtherPhases ==
    ASSUME CatalogInv, NEW o \in Op, Continues(o), NEW g \in File, g # op[o].file
    PROVE  Phase'[g] = Phase[g]
<1>1. TypeOK
  BY DEF CatalogInv
<1>2. row'[g] = row[g] /\ started' = started
  BY <1>1, ContinuesStep, RowStep DEF TypeOK
<1>3. op'[o].file # g /\ \A p \in Op \ {o} : op'[p] = op[p]
  <2>1. op'[o] = Idle \/ op'[o].file = op[o].file
    BY <1>1, ContinuesStep
  <2>2. Idle.file = NoFile
    BY DEF Idle
  <2> QED BY <1>1, <2>1, <2>2, ContinuesStep, NamesAssumption
<1>4. Uploading(g)' <=> Uploading(g)
  BY <1>3 DEF Uploading
<1> QED BY <1>2, <1>4 DEF Phase

(* Such a step stores its own file, ends its upload, removes it, or leaves *)
(* its phase alone.                                                        *)
LEMMA OwnPhase ==
    ASSUME CatalogInv, NEW o \in Op, Continues(o), NEW f \in File, f = op[o].file
    PROVE  \/ Phase'[f] = Phase[f] /\ acked' = acked
           \/ /\ Phase[f] = "new" /\ Phase'[f] = "stored"
              /\ acked' \in {acked, acked \union {f}}
           \/ Phase[f] = "new" /\ Phase'[f] = "gone" /\ acked' = acked
           \/ /\ Phase[f] = "stored" /\ Phase'[f] = "gone" /\ acked' = acked
              /\ f \in condemned
<1>0. TypeOK /\ KnownFiles /\ UploaderAlone /\ RemoverEntitled /\ NoName \notin Name
  BY NamesAssumption DEF CatalogInv
<1>1. /\ f \in File /\ op[o].name \in Name /\ f \in started /\ started' = started
      /\ op[o].pc # "idle"
      /\ \A p \in Op \ {o} : op'[p] = op[p]
      /\ row \in [File -> Name \union {NoName}]
  BY <1>0, ContinuesStep DEF KnownFiles, TypeOK
<1>2. /\ Phase[f] = IF row[f] # NoName THEN "stored" ELSE IF Uploading(f) THEN "new" ELSE "gone"
      /\ Phase'[f] = IF row'[f] # NoName THEN "stored"
                     ELSE IF Uploading(f)' THEN "new" ELSE "gone"
  BY <1>1 DEF Phase
<1>3. CASE op[o].pc \in {"put", "insert"}
  <2>1. Uploading(f) /\ row[f] = NoName /\ \A p \in Op \ {o} : op[p].file # f
    BY <1>0, <1>3 DEF Uploading, UploaderAlone
  <2>3. \/ row' = row /\ acked' = acked
        \/ /\ row' = [row EXCEPT ![f] = op[o].name]
           /\ acked' \in {acked, acked \union {f}}
    BY <1>0, <1>3, RowStep
  <2>4. CASE row' = row /\ acked' = acked
    <3>1. Phase'[f] \in {"new", "gone"}
      BY <1>2, <2>1, <2>4
    <3> QED BY <1>2, <2>1, <2>4, <3>1
  <2>5. CASE row' = [row EXCEPT ![f] = op[o].name]
    BY <1>0, <1>1, <1>2, <2>1, <2>3, <2>5
  <2> QED BY <2>3, <2>4, <2>5
<1>4. CASE op[o].pc \notin {"put", "insert"}
  <2>1. op'[o].pc \notin {"put", "insert"}
    BY <1>0, <1>4, ContinuesStep DEF Follows, Idle
  <2>2. Uploading(f)' <=> Uploading(f)
    BY <1>1, <1>4, <2>1 DEF Uploading
  <2>3. CASE row' = row /\ acked' = acked
    BY <1>2, <2>2, <2>3
  <2>4. CASE row' = [row EXCEPT ![f] = NoName] /\ acked' = acked
             /\ op[o].pc \in {"dropRow", "rmRow"}
    <3>1. f \in condemned
      BY <1>0, <2>4 DEF RemoverEntitled
    <3>2. row[f] # NoName => ~Uploading(f)
      BY <1>0 DEF Uploading, UploaderAlone
    <3>3. row'[f] = NoName
      BY <1>1, <2>4
    <3> QED BY <1>2, <2>2, <2>4, <3>1, <3>2, <3>3
  <2>5. CASE row' = [row EXCEPT ![f] = op[o].to] /\ row[f] # NoName /\ acked' = acked
             /\ op[o].pc = "update"
    <3>1. row'[f] = op[o].to
      BY <1>1, <2>5
    <3>2. op[o].to # NoName
      BY <1>0, <2>5 DEF KnownFiles
    <3> QED BY <1>2, <2>5, <3>1, <3>2
  <2> QED BY <1>0, <1>4, <2>3, <2>4, <2>5, RowStep
<1> QED BY <1>3, <1>4

(* A begun request condemns its file or shows the catalog nothing.         *)
LEMMA BeginPhases ==
    ASSUME CatalogInv, NEW o \in Op, NEW f \in File, Begins(o, f)
    PROVE  /\ Phase' = Phase /\ acked' = acked
           /\ condemned' = condemned \/ (condemned' = condemned \union {f} /\ Phase[f] = "stored")
<1>0. TypeOK /\ KnownFiles /\ UploaderAlone
  BY DEF CatalogInv
<1>1. /\ op[o] = Idle /\ op'[o].file = f /\ row' = row /\ acked' = acked
      /\ \A p \in Op \ {o} : op'[p] = op[p]
      /\ requested' \in {requested, requested \union {f}} /\ expired' = expired
  BY <1>0, BeginStep
<1>2. op[o].file = NoFile /\ op[o].pc = "idle"
  BY <1>1 DEF Idle
<1>3. ASSUME NEW g \in File, g # f
      PROVE  (Uploading(g)' <=> Uploading(g)) /\ (g \in started' <=> g \in started)
  <2>1. started' \in {started, started \union {f}}
    BY <1>0, BeginStep
  <2> QED BY <1>1, <1>2, <1>3, <2>1, NamesAssumption DEF Uploading
<1>4. CASE op'[o].pc = "put"
  <2>1. f \notin started /\ f \in started' /\ requested' = requested
    BY <1>0, <1>4, BeginStep
  <2>2. row[f] = NoName
    BY <1>0, <2>1 DEF KnownFiles
  <2>3. Uploading(f)'
    BY <1>1, <1>4 DEF Uploading
  <2>4. Phase[f] = "new" /\ Phase'[f] = "new"
    BY <1>1, <2>1, <2>2, <2>3 DEF Phase
  <2>5. \A g \in File : Phase'[g] = Phase[g]
    BY <1>1, <1>3, <2>4 DEF Phase
  <2> QED BY <1>1, <2>1, <2>5 DEF Phase, condemned
<1>5. CASE op'[o].pc # "put"
  <2>1. row[f] # NoName
    BY <1>0, <1>5, BeginStep
  <2>2. Phase[f] = "stored" /\ Phase'[f] = "stored"
    BY <1>1, <2>1 DEF Phase
  <2>3. \A g \in File : Phase'[g] = Phase[g]
    BY <1>1, <1>3, <2>2 DEF Phase
  <2>4. Phase' = Phase
    BY <2>3 DEF Phase
  <2>5. condemned' \in {condemned, condemned \union {f}}
    BY <1>1 DEF condemned
  <2> QED BY <1>1, <2>2, <2>4, <2>5
<1> QED BY <1>4, <1>5

(* FileStore implements FileCatalog in every instance without requery_size: *)
(* whatever the backend, the names and the faults, a file goes once from   *)
(* new to stored to gone, is acknowledged only as it becomes stored, and   *)
(* if acknowledged goes only when somebody was entitled to remove it.      *)
THEOREM Refinement ==
    ASSUME "requery" \notin Kinds
    PROVE  Spec => ImplementsCatalog
<1>1. Init => Catalog!CatalogInit
  BY DEF Init, Catalog!CatalogInit, Phase, condemned
<1>2. ASSUME CatalogInv, [Next]_vars
      PROVE  [Catalog!CatalogNext]_(Catalog!catalogVars)
  <2> USE DEF Catalog!CatalogNext
  <2>1. ASSUME NEW o \in Op, NEW f \in File, Begins(o, f)
        PROVE  UNCHANGED Catalog!catalogVars \/ Catalog!Condemn(f)
    BY <1>2, <2>1, BeginPhases DEF Catalog!Condemn, Catalog!catalogVars
  <2>2. ASSUME NEW o \in Op, Continues(o)
        PROVE  Catalog!CatalogNext \/ UNCHANGED Catalog!catalogVars
    <3>1. PICK f \in File : f = op[o].file
      BY <1>2, <2>2, ContinuesStep DEF CatalogInv
    <3>2. condemned' = condemned
      BY <1>2, <2>2, ContinuesStep DEF CatalogInv, condemned
    <3>3. ASSUME NEW v, Phase'[f] = v
          PROVE  Phase' = [Phase EXCEPT ![f] = v]
      <4>1. \A g \in File \ {f} : Phase'[g] = Phase[g]
        BY <1>2, <2>2, <3>1, OtherPhases
      <4> QED BY <3>3, <4>1 DEF Phase
    <3>4. CASE Phase'[f] = Phase[f] /\ acked' = acked
      <4>1. Phase' = Phase
        BY <3>3, <3>4 DEF Phase
      <4> QED BY <3>2, <3>4, <4>1 DEF Catalog!catalogVars
    <3>5. CASE /\ Phase[f] = "new" /\ Phase'[f] = "stored"
               /\ acked' \in {acked, acked \union {f}}
      BY <3>2, <3>3, <3>5 DEF Catalog!Store
    <3>6. CASE Phase[f] = "new" /\ Phase'[f] = "gone" /\ acked' = acked
      <4>1. Phase' = [g \in File |-> IF g \in {f} THEN "gone" ELSE Phase[g]]
        BY <3>3, <3>6 DEF Phase
      <4>2. Catalog!Abort({f})
        BY <3>2, <3>6, <4>1 DEF Catalog!Abort
      <4> QED BY <4>2
    <3>7. CASE /\ Phase[f] = "stored" /\ Phase'[f] = "gone" /\ acked' = acked
               /\ f \in condemned
      BY <3>2, <3>3, <3>7 DEF Catalog!Remove
    <3> QED BY <1>2, <2>2, <3>1, <3>4, <3>5, <3>6, <3>7, OwnPhase
  <2>3. ASSUME NEW f \in File, Expire(f) PROVE Catalog!Condemn(f)
    <3>1. row' = row /\ started' = started /\ op' = op
      BY <2>3 DEF Expire
    <3>2. Phase' = Phase
      BY <3>1 DEF Phase, Uploading
    <3> QED BY <2>3, <3>2 DEF Expire, Phase, condemned, Catalog!Condemn
  <2>4. CASE Crash
    <3> DEFINE F == {g \in File : Uploading(g)}
    <3>1. \A g \in F : row[g] = NoName /\ g \in started
      BY <1>2 DEF Uploading, CatalogInv, UploaderAlone, KnownFiles
    <3>2. \A g \in File : ~Uploading(g)'
      BY <2>4 DEF Crash, Uploading, Idle
    <3>3. row' = row /\ started' = started /\ acked' = acked /\ condemned' = condemned
      BY <2>4 DEF Crash, condemned
    <3>4. Phase' = [g \in File |-> IF g \in F THEN "gone" ELSE Phase[g]]
      BY <3>1, <3>2, <3>3 DEF Phase
    <3>5. \A g \in F : Phase[g] = "new"
      BY <3>1 DEF Phase
    <3>6. Catalog!Abort(F)
      BY <3>3, <3>4, <3>5 DEF Catalog!Abort
    <3>7. F \in SUBSET File
      OBVIOUS
    <3> HIDE DEF F
    <3> QED BY <3>6, <3>7
  <2>5. CASE UNCHANGED vars
    BY <2>5 DEF vars, Phase, Uploading, condemned, Catalog!catalogVars
  <2>6. CASE \E f \in File : Expire(f)
    BY <2>3, <2>6
  <2> QED BY <1>2, <2>1, <2>2, <2>4, <2>5, <2>6, StepCases
<1> QED BY <1>1, <1>2, CatalogInvariant, PTL DEF Spec, ImplementsCatalog, Catalog!CatalogSpec

-----------------------------------------------------------------------------
(* Durability. *)

LEMMA NamesOwnedStep ==
    ASSUME DurableInstance, DurableInv, [Next]_vars
    PROVE  NamesOwned'
<1>0. TypeOK /\ NamesOwned /\ NoName \notin Name
  BY NamesAssumption DEF DurableInv, CatalogInv
<1>1. ASSUME NEW o \in Op, NEW f \in File, Begins(o, f) PROVE NamesOwned'
  <2>1. row' = row /\ op'[o].file = f /\ \A p \in Op \ {o} : op'[p] = op[p]
    BY <1>0, <1>1, BeginStep
  <2>2. /\ op'[o].name \in NamesOf[f]
        /\ op'[o].pc \in {"move", "update"} => "rename" \in Kinds /\ op'[o].to \in NamesOf[f]
        /\ op'[o].pc = "move" => op'[o].to \notin {EmptyName, op'[o].name}
        /\ op'[o].pc = "put" => op'[o].name # EmptyName
        /\ op'[o].pc # "moveDrop"
    BY <1>0, <1>1, BeginStep DEF NamesOwned
  <2> QED BY <1>0, <2>1, <2>2 DEF NamesOwned
<1>2. ASSUME NEW o \in Op, Continues(o) PROVE NamesOwned'
  <2>1. \A p \in Op \ {o} : op'[p] = op[p]
    BY <1>0, <1>2, ContinuesStep
  <2>2. op[o].pc # "idle" /\ op[o].file \in File
    BY <1>0, <1>2, ContinuesStep
  <2>3. /\ op[o].name \in NamesOf[op[o].file]
        /\ op[o].pc \in {"move", "update"} =>
              "rename" \in Kinds /\ op[o].to \in NamesOf[op[o].file]
        /\ op[o].pc # "moveDrop"
    BY <1>0, <2>2 DEF NamesOwned
  <2>4. \A f \in File : row'[f] # NoName => row'[f] \in NamesOf[f]
    BY <1>0, <1>2, <2>2, <2>3, RowStep DEF NamesOwned, TypeOK
  <2>5. CASE op'[o] = Idle
    <3>1. op'[o].pc = "idle"
      BY <2>5 DEF Idle
    <3>2. ASSUME NEW p \in Op, op'[p].pc # "idle"
          PROVE  op'[p] = op[p]
      BY <2>1, <3>1, <3>2
    <3> QED BY <1>0, <2>4, <3>2 DEF NamesOwned
  <2>6. CASE op'[o] # Idle
    <3>1. /\ op'[o].file = op[o].file /\ op'[o].name = op[o].name /\ op'[o].to = op[o].to
          /\ <<op[o].pc, op'[o].pc>> \in Follows
          /\ op'[o].pc = "moveDrop" => Backend = "s3"
      BY <1>0, <1>2, <2>6, ContinuesStep
    <3>2. op'[o].pc \notin {"moveDrop", "move", "put"}
          /\ (op'[o].pc = "update" => op[o].pc = "move")
      BY <2>3, <3>1 DEF DurableInstance, Follows
    <3> QED BY <1>0, <2>1, <2>3, <2>4, <3>1, <3>2 DEF NamesOwned
  <2> QED BY <2>5, <2>6
<1>3. CASE (\E f \in File : Expire(f)) \/ Crash \/ UNCHANGED vars
  BY <1>0, <1>3, OtherStep DEF NamesOwned, Idle
<1> QED BY <1>1, <1>2, <1>3, StepCases

LEMMA BytesOwnedStep ==
    ASSUME DurableInstance, DurableInv, [Next]_vars
    PROVE  BytesOwned'
<1>0. TypeOK /\ KnownFiles /\ UploaderAlone /\ NamesOwned /\ BytesOwned
  BY DEF DurableInv, CatalogInv
<1>1. ASSUME NEW o \in Op, NEW f \in File, Begins(o, f) PROVE BytesOwned'
  <2>1. /\ object' = object /\ acked' = acked /\ started \subseteq started'
        /\ op'[o].file = f /\ op'[o].pc # "insert"
        /\ op'[o].pc = "put" => f \notin started
        /\ \A p \in Op \ {o} : op'[p] = op[p]
    BY <1>0, <1>1, BeginStep
  <2> QED BY <1>0, <2>1 DEF BytesOwned
<1>2. ASSUME NEW o \in Op, Continues(o) PROVE BytesOwned'
  <2> DEFINE f == op[o].file
             n == op[o].name
             m == op[o].to
  <2>1. /\ \A p \in Op \ {o} : op'[p] = op[p]
        /\ started' = started /\ f \in File /\ n \in Name
        /\ op'[o] = Idle \/ (op'[o].file = f /\ op'[o].name = n
                              /\ <<op[o].pc, op'[o].pc>> \in Follows)
    BY <1>0, <1>2, ContinuesStep
  <2>2. /\ f \in started /\ n \in NamesOf[f]
        /\ op[o].pc = "move" => m \in NamesOf[f] \ {EmptyName, n}
        /\ op[o].pc = "put" => n # EmptyName
        /\ op[o].pc # "moveDrop" /\ op'[o].pc # "moveDrop"
    BY <1>0, <1>2, <2>1, NamesOwnedStep, ContinuesStep DEF NamesOwned, KnownFiles, DurableInstance
  <2>3. \A g \in File \ {f} : \A k \in NamesOf[g] :
            k \in NamesOf[f] => k = EmptyName /\ object[k] = NoFile
    BY <1>0, <2>1 DEF DurableInstance, BytesOwned
  <2>4. \A k \in Name : object'[k] # object[k] => k \in NamesOf[f] \ {EmptyName}
    <3>1. object[EmptyName] = NoFile /\ object \in [Name -> File \union {NoFile, Torn}]
      BY <1>0 DEF BytesOwned, TypeOK
    <3> QED BY <1>0, <1>2, <2>1, <2>2, <3>1, ObjectStep
  <2>5. \A g \in File \ {f} : \A k \in NamesOf[g] : object'[k] = object[k]
    BY <2>3, <2>4, NamesAssumption DEF DurableInstance, BytesOwned
  <2>6. ASSUME f \in acked, NEW k \in NamesOf[f]
        PROVE  object'[k] \in {f, NoFile}
    <3>1. object[k] \in {f, NoFile} /\ object[n] \in {f, NoFile} /\ op[o].pc # "put"
      BY <1>0, <2>2, <2>6 DEF BytesOwned, UploaderAlone
    <3>2. k \in Name /\ object \in [Name -> File \union {NoFile, Torn}]
      BY <1>0, <2>1, <2>6, NamesAssumption DEF TypeOK
    <3> QED BY <1>0, <1>2, <2>2, <3>1, <3>2, ObjectStep
  <2>7. object'[EmptyName] = NoFile
    BY <1>0, <2>4, NamesAssumption DEF BytesOwned
  <2>8. ASSUME NEW g \in File \ started', NEW k \in NamesOf[g] PROVE object'[k] = NoFile
    BY <1>0, <2>1, <2>2, <2>5, <2>8 DEF BytesOwned
  <2>9. ASSUME NEW g \in acked', NEW k \in NamesOf[g] PROVE object'[k] \in {g, NoFile}
    <3>1. acked \subseteq File
      BY <1>0 DEF TypeOK
    <3>2. CASE g \in acked
      BY <1>0, <2>5, <2>6, <2>9, <3>1, <3>2 DEF BytesOwned
    <3>3. CASE g \notin acked
      <4>1. g = f /\ op[o].pc = "insert"
        BY <1>0, <1>2, <2>9, <3>3, RowStep
      <4>2. object' = object
        BY <1>0, <1>2, <4>1, ObjectStep
      <4> QED BY <1>0, <2>9, <4>1, <4>2 DEF BytesOwned
    <3> QED BY <3>2, <3>3
  <2>10. ASSUME NEW p \in Op, op'[p].pc \in {"put", "insert"}, p # o
         PROVE  /\ op'[p].pc = "put" => \A k \in NamesOf[op'[p].file] : object'[k] = NoFile
                /\ op'[p].pc = "insert" =>
                     /\ object'[op'[p].name] = op'[p].file
                     /\ \A k \in NamesOf[op'[p].file] : object'[k] \in {op'[p].file, NoFile}
    <3>1. op'[p] = op[p]
      BY <2>1, <2>10
    <3>2. op[p].file \in File \ {f} /\ op[p].name \in NamesOf[op[p].file]
      BY <1>0, <2>10, <3>1, BusyFields DEF TypeOK, UploaderAlone, NamesOwned
    <3>3. \A k \in NamesOf[op[p].file] : object'[k] = object[k]
      BY <2>5, <3>2
    <3> QED BY <1>0, <2>10, <3>1, <3>2, <3>3 DEF BytesOwned
  <2>11. ASSUME op'[o].pc \in {"put", "insert"}
         PROVE  /\ op'[o].pc = "insert" /\ op'[o].file = f /\ op'[o].name = n
                /\ object'[n] = f
                /\ \A k \in NamesOf[f] : object'[k] \in {f, NoFile}
    <3>1. op'[o].pc = "insert" /\ op[o].pc = "put" /\ op'[o].file = f /\ op'[o].name = n
      BY <2>1, <2>11 DEF Follows, Idle
    <3>2. object' = [object EXCEPT ![n] = f]
      BY <1>0, <1>2, <3>1, ObjectStep DEF Idle
    <3>3. \A k \in NamesOf[f] : object[k] = NoFile
      BY <1>0, <3>1 DEF BytesOwned
    <3>4. object \in [Name -> File \union {NoFile, Torn}] /\ NamesOf[f] \subseteq Name
      BY <1>0, <2>1, NamesAssumption DEF TypeOK
    <3> QED BY <2>1, <3>1, <3>2, <3>3, <3>4
  <2> QED BY <2>7, <2>8, <2>9, <2>10, <2>11 DEF BytesOwned
<1>3. CASE (\E f \in File : Expire(f)) \/ Crash \/ UNCHANGED vars
  BY <1>0, <1>3, OtherStep DEF BytesOwned, Idle
<1> QED BY <1>1, <1>2, <1>3, StepCases

LEMMA AckedDurableStep ==
    ASSUME DurableInstance, DurableInv, [Next]_vars
    PROVE  AckedDurable'
<1>0. /\ TypeOK /\ KnownFiles /\ UploaderAlone /\ RemoverEntitled
      /\ NamesOwned /\ BytesOwned /\ AckedDurable
  BY DEF DurableInv, CatalogInv
<1>1. ASSUME NEW o \in Op, NEW f \in File, Begins(o, f) PROVE AckedDurable'
  <2>1. row' = row /\ object' = object /\ acked' = acked /\ condemned \subseteq condemned'
    BY <1>0, <1>1, BeginStep DEF condemned
  <2> QED BY <1>0, <2>1 DEF AckedDurable
<1>2. ASSUME NEW o \in Op, Continues(o) PROVE AckedDurable'
  <2> DEFINE f == op[o].file
             n == op[o].name
             m == op[o].to
  <2>1. /\ condemned' = condemned /\ f \in File /\ n \in Name
    BY <1>0, <1>2, ContinuesStep DEF condemned
  <2>2. /\ n \in NamesOf[f] /\ n \in Name /\ NamesOf[f] \subseteq Name
        /\ op[o].pc = "move" => m \in NamesOf[f] \ {EmptyName, n}
        /\ op[o].pc = "update" => m \in NamesOf[f]
        /\ op[o].pc = "put" => n # EmptyName
        /\ op[o].pc # "moveDrop" /\ op'[o].pc # "moveDrop"
    BY <1>0, <1>2, <2>1, NamesOwnedStep, ContinuesStep, NamesAssumption DEF NamesOwned
  <2>3. /\ object \in [Name -> File \union {NoFile, Torn}] /\ NoFile \notin File
        /\ row \in [File -> Name \union {NoName}] /\ NoName \notin Name
        /\ acked \subseteq File /\ object[EmptyName] = NoFile
    BY <1>0, NamesAssumption DEF TypeOK, BytesOwned
  <2>4. ASSUME NEW g \in acked' \ condemned', g # f
        PROVE  row'[g] # NoName /\ \E k \in NamesOf[g] : object'[k] = g
    <3>1. g \in acked \ condemned /\ g \in File
      BY <1>0, <1>2, <2>1, <2>3, <2>4, RowStep
    <3>2. row'[g] = row[g] /\ row[g] # NoName
      BY <1>0, <1>2, <2>1, <2>3, <2>4, <3>1, RowStep DEF AckedDurable
    <3>3. PICK k \in NamesOf[g] : object[k] = g
      BY <1>0, <3>1 DEF AckedDurable
    <3>4. k \in Name /\ k # EmptyName /\ k \notin NamesOf[f]
      BY <2>1, <2>3, <2>4, <3>1, <3>3, NamesAssumption DEF DurableInstance
    <3>5. object'[k] = object[k]
      BY <1>0, <1>2, <2>2, <2>3, <3>4, ObjectStep
    <3> QED BY <3>2, <3>3, <3>5
  <2>5. ASSUME f \in acked' \ condemned'
        PROVE  row'[f] # NoName /\ \E k \in NamesOf[f] : object'[k] = f
    <3>1. op[o].pc \notin {"dropObj", "dropRow", "rmRow", "rmObj"}
      BY <1>0, <2>1, <2>5 DEF RemoverEntitled
    <3>2. CASE f \in acked
      <4>1. row[f] # NoName /\ op[o].pc \notin {"put", "insert", "undo"}
        BY <1>0, <2>1, <2>5, <3>2 DEF AckedDurable, UploaderAlone
      <4>2. row'[f] # NoName
        BY <1>0, <1>2, <2>1, <2>2, <2>3, <3>1, <4>1, RowStep
      <4>3. PICK k \in NamesOf[f] : object[k] = f
        BY <1>0, <2>1, <2>5, <3>2 DEF AckedDurable
      <4>4. CASE op[o].pc = "move"
        <5>1. object[n] \in {f, NoFile}
          BY <1>0, <2>2, <3>2 DEF BytesOwned
        <5>2. object'[k] = f \/ object'[m] = f
          BY <1>0, <1>2, <2>1, <2>2, <2>3, <4>3, <4>4, <5>1, ObjectStep
        <5> QED BY <2>2, <4>2, <4>3, <4>4, <5>2
      <4>5. CASE op[o].pc # "move"
        BY <1>0, <1>2, <2>2, <3>1, <4>1, <4>2, <4>3, <4>5, ObjectStep
      <4> QED BY <4>4, <4>5
    <3>3. CASE f \notin acked
      <4>1. op[o].pc = "insert" /\ row' = [row EXCEPT ![f] = n]
        BY <1>0, <1>2, <2>5, <3>3, RowStep
      <4>2. object' = object
        BY <1>0, <1>2, <4>1, ObjectStep
      <4>3. object[n] = f
        BY <1>0, <4>1 DEF BytesOwned
      <4> QED BY <2>1, <2>2, <2>3, <4>1, <4>2, <4>3
    <3> QED BY <3>2, <3>3
  <2> QED BY <2>4, <2>5 DEF AckedDurable
<1>3. CASE (\E f \in File : Expire(f)) \/ Crash \/ UNCHANGED vars
  <2>1. row' = row /\ object' = object /\ acked' = acked /\ condemned \subseteq condemned'
    BY <1>3, OtherStep DEF condemned
  <2> QED BY <1>0, <2>1 DEF AckedDurable
<1> QED BY <1>1, <1>2, <1>3, StepCases

(* An acknowledged file nobody is entitled to remove keeps its row and its *)
(* bytes, in every instance where names are private to a file, a rename is *)
(* atomic or absent, and requery_size does not run.  (Without the first,   *)
(* two uploads under one name overwrite each other.)                       *)
THEOREM Durability ==
    ASSUME DurableInstance
    PROVE  Spec => []AckedDurable
<1>1. Init => DurableInv
  BY NamesAssumption DEF Init, DurableInv, CatalogInv, TypeOK, KnownFiles, UploaderAlone,
       RemoverEntitled, NamesOwned, BytesOwned, AckedDurable, Idle, condemned
<1>2. DurableInv /\ [Next]_vars => DurableInv'
  <2> SUFFICES ASSUME DurableInv, [Next]_vars PROVE DurableInv'
    OBVIOUS
  <2>1. CatalogInv /\ "requery" \notin Kinds
    BY DEF DurableInv, DurableInstance
  <2>2. TypeOK'
    BY <2>1, TypeStep DEF CatalogInv
  <2>3. CatalogInv'
    BY <2>1, <2>2, KnownFilesStep, UploaderAloneStep, RemoverEntitledStep DEF CatalogInv
  <2> QED BY <2>3, NamesOwnedStep, BytesOwnedStep, AckedDurableStep DEF DurableInv
<1>3. DurableInv => AckedDurable
  BY DEF DurableInv
<1> QED BY <1>1, <1>2, <1>3, PTL DEF Spec

-----------------------------------------------------------------------------
(* No leak while all goes well. *)

(* What a goroutine under way does then.                                   *)
QuietSteps(o) ==
    \/ /\ op[o].pc = "put" /\ op'[o].pc = "insert"
       /\ object' = [object EXCEPT ![op[o].name] = op[o].file] /\ row' = row
    \/ /\ op[o].pc = "insert" /\ op'[o] = Idle
       /\ row' = [row EXCEPT ![op[o].file] = op[o].name] /\ object' = object
    \/ op[o].pc = "insert" /\ op'[o].pc = "undo" /\ row' = row /\ object' = object
    \/ /\ op[o].pc \in {"undo", "rmObj"} /\ op'[o] = Idle
       /\ object' = [object EXCEPT ![op[o].name] = NoFile] /\ row' = row
    \/ /\ op[o].pc = "dropObj" /\ (op'[o] = Idle \/ op'[o].pc = "dropRow")
       /\ object' = [object EXCEPT ![op[o].name] = NoFile] /\ row' = row
    \/ /\ op[o].pc = "dropRow" /\ op'[o] = Idle /\ object' = object
       /\ row' = row \/ row' = [row EXCEPT ![op[o].file] = NoName]
    \/ op[o].pc \in {"rmRow", "probe"} /\ op'[o] = Idle /\ UNCHANGED <<row, object>>
    \/ /\ op[o].pc = "rmRow" /\ op'[o].pc = "rmObj" /\ object' = object
       /\ row' = [row EXCEPT ![op[o].file] = NoName]
    \/ /\ op[o].pc = "probe" /\ op'[o].pc = "dropRow" /\ object[op[o].name] = NoFile
       /\ UNCHANGED <<row, object>>

LEMMA QuietContinues ==
    ASSUME TypeOK, ~Trouble, NEW o \in Op, Continues(o),
           op[o].pc \notin {"move", "moveDrop", "update"}
    PROVE  /\ QuietSteps(o)
           /\ op[o].file \in File /\ op[o].name \in Name /\ started' = started
           /\ \A p \in Op \ {o} : op'[p] = op[p]
           /\ op'[o] = Idle \/ (op'[o].file = op[o].file /\ op'[o].name = op[o].name)
<1>0. /\ op[o].file \in File /\ op[o].name \in Name /\ started' = started /\ op[o].pc # "idle"
      /\ \A p \in Op \ {o} : op'[p] = op[p]
      /\ op'[o] = Idle \/ (op'[o].file = op[o].file /\ op'[o].name = op[o].name)
  BY ContinuesStep
<1> SUFFICES QuietSteps(o)
  BY <1>0
<1>1. op \in [Op -> Busy \union {Idle}] /\ object \in [Name -> File \union {NoFile, Torn}]
  BY DEF TypeOK
<1>2. /\ op[o].pc = "put" => op'[o].pc # "idle"
      /\ op[o].pc = "insert" /\ op'[o].pc = "undo" => row' = row
      /\ op[o].pc \in {"undo", "dropObj", "rmObj"} => op'[o] = op[o] \/ object'[op[o].name] = NoFile
      /\ op[o].pc = "probe" /\ op'[o].pc = "dropRow" => object[op[o].name] = NoFile
  BY DEF Trouble
<1>3. Idle.pc = "idle"
  BY DEF Idle
<1>4. /\ Goto(o, "insert") => op'[o].pc = "insert"
      /\ Goto(o, "undo") => op'[o].pc = "undo"
      /\ Goto(o, "dropRow") => op'[o].pc = "dropRow"
      /\ Goto(o, "rmObj") => op'[o].pc = "rmObj"
  <2>1. op[o] \in Busy
    BY <1>0, <1>1, BusyFields
  <2> QED BY <1>1, <2>1 DEF Goto, Busy
<1>5. Finish(o) => op'[o] = Idle
  BY <1>1, FinishEffect
<1>6. object'[op[o].name] = NoFile /\ object' = object => object' = [object EXCEPT ![op[o].name] = NoFile]
  BY <1>0, <1>1
<1>7. CASE UploadPut(o) \/ UploadPutFails(o)
  BY <1>2, <1>3, <1>4, <1>5, <1>7 DEF QuietSteps, UploadPut, UploadPutFails
<1>8. CASE UploadInsert(o) \/ UploadInsertFails(o)
  BY <1>2, <1>4, <1>5, <1>8 DEF QuietSteps, UploadInsert, UploadInsertFails
<1>9. CASE UploadUndo(o) \/ RemoveObject(o)
  BY <1>2, <1>3, <1>5, <1>6, <1>9 DEF QuietSteps, UploadUndo, RemoveObject, DeleteObject
<1>10. CASE DropObject(o) \/ DropObjectFails(o)
  BY <1>2, <1>3, <1>4, <1>5, <1>6, <1>10 DEF QuietSteps, DropObject, DropObjectFails, DeleteObject
<1>11. CASE DropRow(o) \/ DropRowFails(o) \/ RemoveRow(o) \/ RemoveRowFails(o)
  BY <1>4, <1>5, <1>11 DEF QuietSteps, DropRow, DropRowFails, RemoveRow, RemoveRowFails, DeleteRow
<1>12. CASE RequeryMissing(o) \/ RequeryPresent(o)
  BY <1>2, <1>4, <1>5, <1>12 DEF QuietSteps, RequeryMissing, RequeryPresent
<1>13. ~(MoveLocal(o) \/ MoveCopy(o) \/ MoveDrop(o) \/ MoveFails(o) \/ RenameUpdate(o) \/ RenameUpdateFails(o))
  BY DEF MoveLocal, MoveCopy, MoveDrop, MoveFails, RenameUpdate, RenameUpdateFails
<1> QED BY <1>7, <1>8, <1>9, <1>10, <1>11, <1>12, <1>13 DEF Continues

(* What a request or a task that begins then is.                           *)
LEMMA QuietBegins ==
    ASSUME TypeOK, ~Trouble, NEW o \in Op, NEW f \in File, Begins(o, f)
    PROVE  op'[o].pc \in {"put", "dropObj", "rmRow", "probe"}
<1>1. UploadBegin(o, f) \/ ServeBegin(o, f) \/ BulkBegin(o, f) \/ DeleteBegin(o, f)
      \/ ExpireBegin(o, f) \/ RequeryBegin(o, f)
  BY DEF Begins, Trouble
<1>2. \E pc \in {"put", "dropObj", "rmRow", "probe"} : \E n, m, s : Start(o, pc, f, n, m, s)
  BY <1>1 DEF UploadBegin, ServeBegin, BulkBegin, DeleteBegin, ExpireBegin, RequeryBegin, Reads
<1> QED BY <1>2 DEF Start, TypeOK

(* No two files are given one name but the empty one.                      *)
NamesPrivate ==
    \A f, g \in File : f # g => NamesOf[f] \intersect NamesOf[g] \subseteq {EmptyName}

LEMMA QuietBeginStep ==
    ASSUME TypeOK, OneName, ObjectsKnown, NoLeak, ~Trouble,
           NEW o \in Op, NEW f \in File, Begins(o, f)
    PROVE  OneName' /\ ObjectsKnown' /\ NoLeak'
<1>1. /\ op[o] = Idle /\ op'[o].file = f /\ row' = row /\ object' = object
      /\ \A p \in Op \ {o} : op'[p] = op[p]
      /\ started \subseteq started' /\ f \in started'
      /\ \/ op'[o].pc = "put" /\ f \notin started /\ op'[o].name \in NamesOf[f] \ {EmptyName}
         \/ op'[o].pc # "put" /\ row[f] # NoName /\ op'[o].name = row[f]
  BY BeginStep DEF OneName
<1>2. op'[o].pc \in {"put", "dropObj", "rmRow", "probe"}
  BY QuietBegins
<1>3. \A p \in Op : op[p].file = f => op[p].pc # "idle" /\ f \in started
  BY NamesAssumption, OpKinds DEF OneName
<1>4. /\ op'[o].name \in NamesOf[f] \ {EmptyName}
      /\ row[f] \in {op'[o].name, NoName}
      /\ \A p \in Op \ {o} : op[p].file = f => op[p].name = op'[o].name
  <2>1. CASE op'[o].pc = "put"
    BY <1>1, <1>3, <2>1 DEF OneName
  <2>2. CASE op'[o].pc # "put"
    BY <1>1, <1>3, <2>2 DEF OneName
  <2> QED BY <2>1, <2>2
<1>5. OneName'
  <2>1. \A p \in Op \ {o} : op[p].pc # "idle" => row'[op[p].file] \in {op[p].name, NoName}
    BY <1>1 DEF OneName
  <2>2. \A p, q \in Op : op'[p].pc # "idle" /\ op'[q].file = op'[p].file => op'[q].name = op'[p].name
    BY <1>1, <1>4 DEF OneName
  <2> QED BY <1>1, <1>2, <1>4, <2>1, <2>2 DEF OneName
<1>6. ObjectsKnown'
  <2>1. \A p \in Op \ {o} : op[p].pc \in {"put", "insert"} => op[p].file # f
    BY <1>1, <1>3 DEF ObjectsKnown, OneName
  <2>2. op'[o].pc = "put" => row[f] = NoName /\ \A p \in Op \ {o} : op[p].file # f
    BY <1>1, <1>3 DEF OneName
  <2> QED BY <1>1, <1>2, <2>1, <2>2 DEF ObjectsKnown
<1>7. NoLeak'
  BY <1>1 DEF NoLeak, Idle
<1> QED BY <1>5, <1>6, <1>7

LEMMA QuietContinueStep ==
    ASSUME NamesPrivate, TypeOK, OneName, ObjectsKnown, NoLeak, ~Trouble,
           NEW o \in Op, Continues(o)
    PROVE  OneName' /\ ObjectsKnown' /\ NoLeak'
<1>0. op[o].pc # "idle"
  BY ContinuesStep
<1>1. PICK f \in File, n \in Name : f = op[o].file /\ n = op[o].name
  BY ContinuesStep
<1>2. /\ f \in started /\ n \in NamesOf[f] \ {EmptyName} /\ row[f] \in {n, NoName}
      /\ \A p \in Op : op[p].file = f => op[p].name = n
      /\ op[o].pc \notin {"move", "moveDrop", "update"}
  BY <1>0, <1>1 DEF OneName
<1>3. /\ QuietSteps(o) /\ started' = started
      /\ \A p \in Op \ {o} : op'[p] = op[p]
      /\ op'[o] = Idle \/ (op'[o].file = f /\ op'[o].name = n)
  BY <1>1, <1>2, QuietContinues
<1>4. /\ row \in [File -> Name \union {NoName}] /\ object \in [Name -> File \union {NoFile, Torn}]
      /\ NoName \notin Name /\ NoFile \notin File /\ Idle.pc = "idle" /\ Idle.file = NoFile
      /\ NamesOf[f] \subseteq Name
  BY NamesAssumption DEF TypeOK, Idle
<1>5. /\ \A g \in File \ {f} : row'[g] = row[g]
      /\ row'[f] \in {n, NoName}
      /\ \A k \in Name \ {n} : object'[k] = object[k]
      /\ object'[n] \in {object[n], f, NoFile}
  BY <1>1, <1>2, <1>3, <1>4 DEF QuietSteps
<1>6. op'[o].pc \in {"idle", "insert", "undo", "dropRow", "rmObj"}
  BY <1>3, <1>4 DEF QuietSteps
<1>7. \A p \in Op : op[p].pc # "idle" =>
        op[p].file \in File /\ op[p].name \in Name /\ op[p].name \in NamesOf[op[p].file] \ {EmptyName}
  BY OpKinds DEF OneName
<1>8. \A p \in Op : op[p].pc # "idle" /\ op[p].file # f => op[p].name # n
  BY <1>2, <1>7 DEF NamesPrivate
<1>9. OneName'
  <2>1. \A g \in File : row'[g] # NoName => row'[g] \in NamesOf[g] \ {EmptyName} /\ g \in started
    BY <1>2, <1>5 DEF OneName
  <2>2. ASSUME NEW k \in Name, object'[k] # NoFile
        PROVE  object'[k] \in started /\ k \in NamesOf[object'[k]] \ {EmptyName}
    BY <1>2, <1>5, <2>2 DEF OneName
  <2>3. ASSUME NEW p \in Op, op'[p].pc # "idle"
        PROVE  /\ op'[p].file \in started
               /\ op'[p].name \in NamesOf[op'[p].file] \ {EmptyName}
               /\ op'[p].pc \notin {"move", "moveDrop", "update"}
               /\ row'[op'[p].file] \in {op'[p].name, NoName}
    <3>1. CASE p = o
      BY <1>2, <1>3, <1>4, <1>5, <1>6, <2>3, <3>1
    <3>2. CASE p # o
      <4>1. op'[p] = op[p] /\ op[p].file \in File
        BY <1>3, <1>7, <2>3, <3>2
      <4>2. /\ op[p].file \in started
            /\ op[p].name \in NamesOf[op[p].file] \ {EmptyName}
            /\ op[p].pc \notin {"move", "moveDrop", "update"}
            /\ row[op[p].file] \in {op[p].name, NoName}
        BY <2>3, <4>1 DEF OneName
      <4> QED BY <1>2, <1>5, <4>1, <4>2
    <3> QED BY <3>1, <3>2
  <2>4. ASSUME NEW p \in Op, NEW q \in Op, op'[p].pc # "idle", op'[q].file = op'[p].file
        PROVE  op'[q].name = op'[p].name
    <3>1. CASE op'[p].file = f
      BY <1>2, <1>3, <1>4, <2>4, <3>1
    <3>2. CASE op'[p].file # f
      <4>1. p # o /\ op'[p] = op[p] /\ op[p].file \in File
        BY <1>3, <1>4, <1>7, <2>4, <3>2
      <4>2. q # o /\ op'[q] = op[q]
        BY <1>3, <1>4, <2>4, <3>2, <4>1
      <4> QED BY <2>4, <4>1, <4>2 DEF OneName
    <3> QED BY <3>1, <3>2
  <2> QED BY <1>3, <2>1, <2>2, <2>3, <2>4 DEF OneName
<1>10. ObjectsKnown'
  <2>1. ASSUME NEW p \in Op \ {o}, op[p].pc \in {"put", "insert"}
        PROVE  /\ row'[op[p].file] = NoName
               /\ \A q \in Op \ {p} : op'[q].file # op[p].file
               /\ op[p].pc = "insert" => object'[op[p].name] = op[p].file
    <3>1. /\ op[p].file \in File /\ op[p].name \in Name /\ row[op[p].file] = NoName
          /\ \A q \in Op \ {p} : op[q].file # op[p].file
          /\ op[p].pc = "insert" => object[op[p].name] = op[p].file
      BY <1>7, <2>1 DEF ObjectsKnown
    <3>2. op[p].file # f /\ op[p].name # n
      BY <1>1, <1>8, <2>1, <3>1
    <3> QED BY <1>3, <1>4, <1>5, <3>1, <3>2
  <2>2. ASSUME NEW p \in Op \ {o}, op[p].pc = "dropRow"
        PROVE  object'[op[p].name] = NoFile
    <3>1. object[op[p].name] = NoFile /\ op[p].name \in Name
      BY <1>7, <2>2 DEF ObjectsKnown
    <3>2. op[o].pc = "put" => op[p].name # n
      BY <1>1, <1>8, <2>2 DEF ObjectsKnown
    <3>3. op[o].pc # "put" => object'[n] \in {object[n], NoFile}
      BY <1>1, <1>3, <1>4 DEF QuietSteps
    <3> QED BY <1>5, <3>1, <3>2, <3>3
  <2>3. op'[o].pc = "insert" => row'[f] = NoName /\ object'[n] = f
                                /\ \A q \in Op \ {o} : op'[q].file # f
    BY <1>1, <1>3, <1>4 DEF QuietSteps, ObjectsKnown
  <2>4. op'[o].pc = "dropRow" => object'[n] = NoFile
    BY <1>1, <1>3, <1>4 DEF QuietSteps
  <2> QED BY <1>3, <1>4, <1>6, <2>1, <2>2, <2>3, <2>4 DEF ObjectsKnown
<1>11. NoLeak'
  <2> SUFFICES ASSUME NEW k \in Name, object'[k] # NoFile
               PROVE  \E g \in File :
                        /\ object'[k] = g
                        /\ \/ row'[g] = k
                           \/ \E p \in Op : op'[p].file = g /\ op'[p].name = k
                                            /\ op'[p].pc \in {"insert", "undo", "rmObj"}
    BY DEF NoLeak
  <2>1. CASE k # n
    <3>1. object[k] # NoFile /\ object'[k] = object[k]
      BY <1>5, <2>1
    <3>2. PICK g \in File :
            /\ object[k] = g
            /\ \/ row[g] = k
               \/ \E p \in Op : op[p].file = g /\ op[p].name = k
                                /\ op[p].pc \in {"insert", "undo", "rmObj"}
      BY <3>1 DEF NoLeak
    <3>3. g # f
      BY <1>2, <1>4, <2>1, <3>2
    <3> QED BY <1>1, <1>3, <1>5, <3>1, <3>2, <3>3
  <2>2. CASE k = n
    <3>1. CASE op[o].pc = "put"
      BY <1>1, <1>3, <1>4, <2>2, <3>1 DEF QuietSteps
    <3>2. CASE op[o].pc = "insert"
      <4>1. object'[n] = f
        BY <1>1, <1>3, <3>2 DEF QuietSteps, ObjectsKnown
      <4>2. row'[f] = n \/ (op'[o].pc = "undo" /\ op'[o].file = f /\ op'[o].name = n)
        BY <1>1, <1>3, <1>4, <3>2 DEF QuietSteps
      <4> QED BY <2>2, <4>1, <4>2
    <3>3. CASE op[o].pc \in {"rmRow", "probe"}
      <4>1. object' = object
        BY <3>3, <1>3 DEF QuietSteps
      <4>2. PICK g \in File :
              /\ object[n] = g
              /\ \/ row[g] = n
                 \/ \E p \in Op : op[p].file = g /\ op[p].name = n
                                  /\ op[p].pc \in {"insert", "undo", "rmObj"}
        BY <2>2, <4>1 DEF NoLeak
      <4>3. CASE row' = row
        BY <1>1, <1>3, <2>2, <3>3, <4>1, <4>2, <4>3
      <4>4. CASE op'[o].pc = "rmObj"
        <5>1. g = f
          BY <1>2, <1>4, <4>2 DEF OneName, NamesPrivate
        <5> QED BY <1>3, <1>4, <2>2, <4>1, <4>2, <4>4, <5>1
      <4> QED BY <1>3, <3>3, <4>3, <4>4 DEF QuietSteps
    <3>4. CASE op[o].pc \in {"undo", "rmObj", "dropObj", "dropRow"}
      BY <1>1, <1>3, <1>4, <2>2, <3>4 DEF QuietSteps, ObjectsKnown
    <3> QED BY <1>3, <3>1, <3>2, <3>3, <3>4 DEF QuietSteps
  <2> QED BY <2>1, <2>2
<1> QED BY <1>9, <1>10, <1>11

(* Every instance where names are private to a file, whatever the backend, *)
(* the faults and the kinds: until the first trouble no object is left     *)
(* without its row or somebody to remove it.                               *)
THEOREM LeaksNothing ==
    ASSUME NamesPrivate
    PROVE  QuietSpec => []NoLeakWhenQuiet
<1>1. Init /\ quiet = TRUE => TypeOK /\ QuietInv
  BY NamesAssumption DEF Init, TypeOK, QuietInv, OneName, ObjectsKnown, NoLeak, Idle
<1>2. TypeOK /\ QuietInv /\ [Next /\ Watch]_<<vars, quiet>> => TypeOK' /\ QuietInv'
  <2> SUFFICES ASSUME TypeOK, QuietInv, [Next /\ Watch]_<<vars, quiet>>
               PROVE  TypeOK' /\ QuietInv'
    OBVIOUS
  <2>1. TypeOK'
    BY TypeStep
  <2>2. CASE UNCHANGED <<vars, quiet>>
    <3>1. UNCHANGED <<row, object, started, op, quiet>>
      BY <2>2 DEF vars
    <3>2. OneName' = OneName /\ ObjectsKnown' = ObjectsKnown /\ NoLeak' = NoLeak
      BY <3>1 DEF OneName, ObjectsKnown, NoLeak
    <3> QED BY <2>1, <3>1, <3>2 DEF QuietInv
  <2>3. CASE Next /\ Watch
    <3> SUFFICES ASSUME quiet' PROVE OneName' /\ ObjectsKnown' /\ NoLeak'
      BY <2>1 DEF QuietInv
    <3>1. quiet /\ ~Trouble
      BY <2>3 DEF Watch
    <3>2. OneName /\ ObjectsKnown /\ NoLeak
      BY <3>1 DEF QuietInv
    <3>3. CASE \E o \in Op, f \in File : Begins(o, f)
      BY <3>1, <3>2, <3>3, QuietBeginStep
    <3>4. CASE \E o \in Op : Continues(o)
      BY <3>1, <3>2, <3>4, QuietContinueStep
    <3>5. CASE \E f \in File : Expire(f)
      BY <3>2, <3>5 DEF Expire, OneName, ObjectsKnown, NoLeak
    <3>6. ~Crash
      BY <3>1 DEF Trouble
    <3> QED BY <2>3, <3>3, <3>4, <3>5, <3>6, NextCases DEF Begins
  <2> QED BY <2>2, <2>3
<1>3. QuietInv => NoLeakWhenQuiet
  BY DEF QuietInv, NoLeakWhenQuiet
<1> QED BY <1>1, <1>2, <1>3, PTL DEF QuietSpec

-----------------------------------------------------------------------------
(* The tasks erase the object first. *)

Absent(f) == \A k \in Name : object[k] # f

(* A file is stored once and under one name; a task that goes on to the    *)
(* row has erased the object, since it gives up when it could not.         *)
AtHome == \A f \in File :
    /\ f \notin started => Absent(f)
    /\ f \in expired => f \in started
    /\ \A k \in Name : object[k] = f => row[f] \in {k, NoName}
    /\ f \in expired /\ row[f] = NoName => Absent(f)

Erasing == \A o \in Op : op[o].pc # "idle" =>
    LET f == op[o].file
    IN  /\ op[o].pc \in {"put", "insert", "undo", "dropObj", "dropRow"}
        /\ op[o].pc \in {"put", "insert"} => f \notin expired
        /\ op[o].pc = "put" => Absent(f)
        /\ op[o].pc = "insert" => \A k \in Name : object[k] = f => k = op[o].name
        /\ op[o].pc \in {"dropObj", "dropRow"} => f \in expired
        /\ op[o].pc = "dropObj" => op[o].strict /\ row[f] \in {op[o].name, NoName}
        /\ op[o].pc = "dropRow" => Absent(f)

TasksInv == CatalogInv /\ AtHome /\ Erasing

LEMMA TasksBegin ==
    ASSUME Kinds \subseteq {"upload", "expire"}, TasksInv, NEW o \in Op, NEW f \in File, Begins(o, f)
    PROVE  AtHome' /\ Erasing'
<1>1. UploadBegin(o, f) \/ ExpireBegin(o, f)
  BY DEF Begins, ServeBegin, BulkBegin, DetachBegin, DeleteBegin, RequeryBegin, RenameBegin, Reads
<1>2. TypeOK /\ KnownFiles /\ op \in [Op -> Busy \union {Idle}]
  BY DEF TasksInv, CatalogInv, TypeOK
<1>3. /\ row' = row /\ object' = object /\ expired' = expired /\ started \subseteq started'
      /\ op'[o].file = f /\ \A p \in Op \ {o} : op'[p] = op[p]
  BY <1>2, BeginStep
<1>4. AtHome'
  BY <1>3 DEF TasksInv, AtHome, Absent
<1>5. CASE UploadBegin(o, f)
  <2>1. op'[o].pc = "put" /\ f \notin started
    BY <1>2, <1>5 DEF UploadBegin, Start
  <2>2. f \notin expired /\ Absent(f)
    BY <2>1 DEF TasksInv, AtHome
  <2> QED BY <1>3, <1>4, <2>1, <2>2 DEF TasksInv, Erasing, Absent
<1>6. CASE ExpireBegin(o, f)
  <2>1. op'[o].pc = "dropObj" /\ op'[o].strict /\ op'[o].name = row[f] /\ f \in expired
    BY <1>2, <1>6 DEF ExpireBegin, Reads, Start
  <2> QED BY <1>3, <1>4, <2>1 DEF TasksInv, Erasing, Absent
<1> QED BY <1>1, <1>5, <1>6

LEMMA TasksContinue ==
    ASSUME TasksInv, NEW o \in Op, Continues(o)
    PROVE  AtHome' /\ Erasing'
<1>0. TypeOK /\ UploaderAlone /\ op \in [Op -> Busy \union {Idle}]
      /\ row \in [File -> Name \union {NoName}] /\ object \in [Name -> File \union {NoFile, Torn}]
  BY DEF TasksInv, CatalogInv, TypeOK
<1>1. PICK f \in File, n \in Name : f = op[o].file /\ n = op[o].name
  BY <1>0, ContinuesStep
<1>2. /\ op[o].pc \in {"put", "insert", "undo", "dropObj", "dropRow"}
      /\ started' = started /\ expired' = expired
      /\ \A p \in Op \ {o} : op'[p] = op[p]
      /\ \/ op'[o].pc = "idle"
         \/ /\ op'[o].file = f /\ op'[o].name = n
            /\ \/ op[o].pc = "put" /\ op'[o].pc = "insert"
               \/ op[o].pc = "insert" /\ op'[o].pc = "undo"
               \/ op[o].pc = "dropObj" /\ op'[o].pc = "dropRow"
  BY <1>0, <1>1, ContinuesStep DEF TasksInv, Erasing, Follows, Idle
<1>3. /\ NoFile \notin File /\ Torn \notin File /\ NoName \notin Name
  BY NamesAssumption
<1>4. op[o].pc = "dropObj" /\ op'[o].pc = "dropRow" => object' = [object EXCEPT ![n] = NoFile]
  <2>1. op[o].pc = "dropObj" => op[o].strict
    BY DEF TasksInv, Erasing
  <2>2. Finish(o) => op'[o].pc = "idle"
    BY <1>0 DEF Finish, Idle
  <2> QED BY <1>1, <2>1, <2>2 DEF Continues,
             UploadPut, UploadPutFails, UploadInsert, UploadInsertFails,
             UploadUndo, DropObject, DropObjectFails, DropRow, DropRowFails,
             RemoveRow, RemoveRowFails, RemoveObject, MoveLocal, MoveCopy,
             MoveDrop, MoveFails, RenameUpdate, RenameUpdateFails, RequeryMissing,
             RequeryPresent, DeleteObject
(* Of the objects, only one put by its uploader is new.                    *)
<1>5. /\ \A k \in Name : object'[k] \in {object[k], NoFile, Torn} \/
            (op[o].pc = "put" /\ op'[o].pc = "insert" /\ k = n /\ object'[k] = f)
      /\ op[o].pc \in {"insert", "dropRow"} => object' = object
  BY <1>0, <1>1, <1>2, ObjectStep
<1>6. \/ row' = row
      \/ op[o].pc = "dropRow" /\ row' = [row EXCEPT ![f] = NoName]
      \/ op[o].pc = "insert" /\ row' = [row EXCEPT ![f] = n]
  BY <1>0, <1>1, <1>2, RowStep
<1>7. op[o].pc \in {"put", "insert"} => row[f] = NoName /\ \A p \in Op \ {o} : op[p].file # f
  BY <1>0, <1>1 DEF UploaderAlone
<1>8. \A g \in File : Absent(g) /\ (g # f \/ op[o].pc # "put") => Absent(g)'
  BY <1>3, <1>5 DEF Absent
<1>9. /\ op[o].pc \in {"put", "insert"} => f \notin expired
      /\ op[o].pc = "put" => Absent(f)
      /\ op[o].pc = "insert" => \A k \in Name : object[k] = f => k = n
      /\ op[o].pc \in {"dropObj", "dropRow"} => f \in expired
      /\ op[o].pc = "dropObj" => row[f] \in {n, NoName}
      /\ op[o].pc = "dropRow" => Absent(f)
      /\ f \in started
  BY <1>1, <1>2 DEF TasksInv, CatalogInv, KnownFiles, Erasing
<1>10. AtHome'
  <2> SUFFICES ASSUME NEW g \in File
               PROVE  /\ g \notin started => Absent(g)'
                      /\ g \in expired => g \in started
                      /\ \A k \in Name : object'[k] = g => row'[g] \in {k, NoName}
                      /\ g \in expired /\ row'[g] = NoName => Absent(g)'
    BY <1>2 DEF AtHome
  <2>1. /\ g \notin started => Absent(g)
        /\ g \in expired => g \in started
        /\ \A k \in Name : object[k] = g => row[g] \in {k, NoName}
        /\ g \in expired /\ row[g] = NoName => Absent(g)
    BY DEF TasksInv, AtHome
  <2>2. \A k \in Name : object'[k] = g => row'[g] \in {k, NoName}
    BY <1>0, <1>3, <1>5, <1>6, <1>7, <1>9, <2>1
  <2>3. g \in expired /\ row'[g] = NoName => Absent(g)
    BY <1>0, <1>3, <1>6, <1>9, <2>1
  <2> QED BY <1>8, <1>9, <2>1, <2>2, <2>3
<1>11. Erasing'
  <2> DEFINE Fine(g, r) ==
        /\ r.pc \in {"put", "insert", "undo", "dropObj", "dropRow"}
        /\ r.pc \in {"put", "insert"} => g \notin expired
        /\ r.pc = "put" => \A k \in Name : object'[k] # g
        /\ r.pc = "insert" => \A k \in Name : object'[k] = g => k = r.name
        /\ r.pc \in {"dropObj", "dropRow"} => g \in expired
        /\ r.pc = "dropObj" => r.strict /\ row'[g] \in {r.name, NoName}
        /\ r.pc = "dropRow" => \A k \in Name : object'[k] # g
  <2>1. ASSUME NEW p \in Op \ {o}, op[p].pc # "idle" PROVE Fine(op[p].file, op[p])
    <3>1. PICK g \in File : g = op[p].file
      BY <1>0, <2>1, BusyFields
    <3>2. /\ op[p].pc \in {"put", "insert", "undo", "dropObj", "dropRow"}
          /\ op[p].pc \in {"put", "insert"} => g \notin expired
          /\ op[p].pc = "put" => Absent(g)
          /\ op[p].pc = "insert" => \A k \in Name : object[k] = g => k = op[p].name
          /\ op[p].pc \in {"dropObj", "dropRow"} => g \in expired
          /\ op[p].pc = "dropObj" => op[p].strict /\ row[g] \in {op[p].name, NoName}
          /\ op[p].pc = "dropRow" => Absent(g)
      BY <2>1, <3>1 DEF TasksInv, Erasing
    <3>3. op[o].pc \in {"put", "insert"} => g # f
      BY <1>7, <3>1
    <3>4. row'[g] \in {row[g], NoName}
      BY <1>0, <1>6, <3>3
    <3>5. Absent(g) => Absent(g)'
      BY <1>8, <3>3
    <3>6. \A k \in Name : object'[k] = g => object[k] = g
      BY <1>3, <1>5, <3>3
    <3>7. op[p].pc = "insert" => \A k \in Name : object'[k] = g => k = op[p].name
      BY <3>2, <3>6
    <3>8. op[p].pc = "dropObj" => op[p].strict /\ row'[g] \in {op[p].name, NoName}
      BY <3>2, <3>4
    <3> QED BY <3>1, <3>2, <3>5, <3>7, <3>8 DEF Absent
  <2>2. op'[o].pc # "idle" => Fine(f, op'[o])
    <3>1. op'[o].pc = "insert" => \A k \in Name : object'[k] = f => k = n
      BY <1>2, <1>3, <1>5, <1>9 DEF Absent
    <3>2. op'[o].pc = "dropRow" => Absent(f)'
      <4>1. op[o].pc = "dropObj" => \A k \in Name : object[k] = f => k = n
        BY <1>9 DEF TasksInv, AtHome, Absent
      <4> QED BY <1>0, <1>2, <1>3, <1>4, <4>1 DEF Absent
    <3> QED BY <1>2, <1>9, <3>1, <3>2 DEF Absent
  <2>3. op'[o].pc # "idle" => op'[o].file = f
    BY <1>2
  <2>4. \A p \in Op : op'[p].pc # "idle" => Fine(op'[p].file, op'[p])
    BY <1>2, <2>1, <2>2, <2>3
  <2> QED BY <1>2, <2>4 DEF Erasing, Absent
<1> QED BY <1>10, <1>11

(* In every instance where files are uploaded and removed by the tasks,    *)
(* whatever fails and whenever the process dies: a task never lets go of   *)
(* the row of an expired file whose object is still there.                 *)
THEOREM ExpiryErases ==
    ASSUME Kinds \subseteq {"upload", "expire"}
    PROVE  Spec => []ExpiryLeavesNothing
<1>0. "requery" \notin Kinds
  OBVIOUS
<1>1. Init => AtHome /\ Erasing
  BY NamesAssumption DEF Init, AtHome, Erasing, Absent, Idle
<1>2. CatalogInv /\ AtHome /\ Erasing /\ [Next]_vars => AtHome' /\ Erasing'
  <2> SUFFICES ASSUME TasksInv, [Next]_vars PROVE AtHome' /\ Erasing'
    BY DEF TasksInv
  <2>1. CASE \E o \in Op, f \in File : Begins(o, f)
    BY <2>1, TasksBegin
  <2>2. CASE \E o \in Op : Continues(o)
    BY <2>2, TasksContinue
  <2>3. ASSUME NEW f \in File, Expire(f) PROVE AtHome' /\ Erasing'
    <3>1. /\ UNCHANGED <<row, object, started, op>> /\ expired' = expired \union {f}
          /\ row[f] # NoName /\ f \in started
      BY <2>3 DEF Expire, TasksInv, CatalogInv, KnownFiles
    <3>2. \A o \in Op : op[o].pc \in {"put", "insert"} => op[o].file # f
      BY <3>1 DEF TasksInv, CatalogInv, UploaderAlone
    <3> QED BY <3>1, <3>2 DEF TasksInv, AtHome, Erasing, Absent
  <2>4. CASE Crash \/ UNCHANGED vars
    BY <2>4 DEF Crash, vars, TasksInv, AtHome, Erasing, Absent, Idle
  <2> QED BY <2>1, <2>2, <2>3, <2>4, StepCases
<1>3. CatalogInv /\ AtHome => ExpiryLeavesNothing
  BY NamesAssumption DEF CatalogInv, TypeOK, AtHome, Absent, ExpiryLeavesNothing
<1> QED BY <1>0, <1>1, <1>2, <1>3, CatalogInvariant, PTL DEF Spec
=============================================================================
