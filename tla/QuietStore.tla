------------------------------ MODULE QuietStore ------------------------------
(***************************************************************************)
(* FileStore with a history variable: whether everything has gone well so  *)
(* far, and nothing was asked for that separates a file from its object.   *)
(* The code makes no step for it.                                          *)
(***************************************************************************)
EXTENDS FileStore

VARIABLE quiet

(* A step after which an object may stay with nobody to remove it: the     *)
(* process dies; a Put fails; the answer to an insert is lost; a deletion  *)
(* fails; a lookup fails where there is an object; a bulk delete keeps the *)
(* objects; a rename begins.                                               *)
Trouble ==
    \/ Crash
    \/ \E o \in Op :
        \/ op[o].pc = "put" /\ op'[o].pc = "idle"
        \/ op[o].pc = "insert" /\ op'[o].pc = "undo" /\ row' # row
        \/ op[o].pc \in {"undo", "dropObj", "rmObj"} /\ op'[o] # op[o]
           /\ object'[op[o].name] # NoFile
        \/ op[o].pc = "probe" /\ op'[o].pc = "dropRow" /\ object[op[o].name] # NoFile
        \/ \E f \in File : DetachBegin(o, f) \/ \E m \in NamesOf[f] : RenameBegin(o, f, m)

Watch == quiet' = (quiet /\ ~Trouble)

QuietSpec == Init /\ quiet = TRUE /\ [][Next /\ Watch]_<<vars, quiet>>

(* Until then every object has its row, or a goroutine about to insert the *)
(* row or to delete the object: refused inserts and deletions of rows,     *)
(* overlapping deletions and uploads leak nothing.                         *)
NoLeakWhenQuiet == quiet => NoLeak

-----------------------------------------------------------------------------
(* Why: the inductive invariant.                                           *)

(* A file has one name all along, not the empty one.                       *)
OneName ==
    /\ \A f \in File : row[f] # NoName =>
         row[f] \in NamesOf[f] \ {EmptyName} /\ f \in started
    /\ \A o \in Op : op[o].pc # "idle" =>
         /\ op[o].file \in started
         /\ op[o].name \in NamesOf[op[o].file] \ {EmptyName}
         /\ op[o].pc \notin {"move", "moveDrop", "update"}
         /\ row[op[o].file] \in {op[o].name, NoName}
         /\ \A p \in Op : op[p].file = op[o].file => op[p].name = op[o].name
    /\ \A n \in Name : object[n] # NoFile =>
         object[n] \in started /\ n \in NamesOf[object[n]] \ {EmptyName}

(* An uploader has its file to itself and, once put, its object; whoever   *)
(* deletes a row last has deleted its object.                              *)
ObjectsKnown == \A o \in Op :
    /\ op[o].pc \in {"put", "insert"} =>
         /\ row[op[o].file] = NoName
         /\ \A p \in Op \ {o} : op[p].file # op[o].file
    /\ op[o].pc = "insert" => object[op[o].name] = op[o].file
    /\ op[o].pc = "dropRow" => object[op[o].name] = NoFile

QuietInv == quiet => OneName /\ ObjectsKnown /\ NoLeak
=============================================================================
