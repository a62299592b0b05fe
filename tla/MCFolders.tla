------------------------------ MODULE MCFolders ------------------------------
(***************************************************************************)
(* Small instances of Folders, of ReferenceFolders and of UserExports: the *)
(* first step of a behaviour chooses one.                                  *)
(*                                                                         *)
(* Trees of Folders that differ only in the names of the folders are left  *)
(* out by ordering them: d1 is first, and d3 is never above d2.  So are    *)
(* the exports: e2 does not start before e1.                               *)
(***************************************************************************)
EXTENDS FolderServers, TLC

CONSTANTS d1, d2, d3, x1, c1, c2, f1, f2, r1, r2, e1, e2

VARIABLE instance

allVars == <<instance, vars, histories, reVars, exVars>>

(* One tab that moves and deletes folders every way, beside creations and  *)
(* uploads; any call may fail.                                             *)
Tree == INSTANCE Folders WITH
    Client <- {c1}, Others <- {"create", "upload", "patch"}, Faults <- {"db", "ds"}

(* Two cascade-files deletions of overlapping subtrees.                    *)
Cascade == INSTANCE Folders WITH
    DeleteActions <- {"cascade-files"}, Others <- {}, Faults <- {}

(* Two deletions, while a folder is created and the file moved under them. *)
Ends == INSTANCE Folders WITH
    DeleteActions <- {"root", "cascade", "cascade-files"},
    Others <- {"create", "move"}, Faults <- {"db"}

-----------------------------------------------------------------------------
(* What the two tabs do, and the trees they start from.                    *)
Two(a, b, any, faults) == [may |-> (r1 :> a) @@ (r2 :> b), anyTarget |-> any, faults |-> faults]
Cascades == {"none", "cascade", "cascade-files"}
Deletions == Cascades \union {"root", "folder"}
Anything == Deletions \union {"move", "create", "add", "remove", "upload", "chain", "export"}
ReferenceSituations ==
    {Two(Anything, {}, FALSE, TRUE), Two(Cascades \union {"move"}, Cascades, FALSE, FALSE),
     Two(Deletions, {"root", "cascade"}, FALSE, FALSE),
     Two({"export", "chain"}, {"move", "root", "cascade-files", "add"}, FALSE, FALSE)}
At3(a, b, c, x, y) == (d1 :> a) @@ (d2 :> b) @@ (d3 :> c) @@ (f1 :> x) @@ (f2 :> y)
Trees == {At3(Root, d1, d2, d2, d3), At3(Root, d1, d1, d2, d1),
          At3(Root, Root, d2, d3, d1), At3(Root, d1, Unborn, d2, Unborn)}

-----------------------------------------------------------------------------
(* The state of a part that is not looked at does not matter.              *)
Parked == CHOOSE t \in Trees : TRUE

MCInit ==
    /\ Init /\ moved = FALSE /\ disturbed = FALSE
    /\ parent[d1] \in {Root, Unborn} /\ parent[d2] # d3
    /\ \/ instance = "tree"
       \/ instance = "cascade" /\ Live = Folder
       \/ instance = "ends" /\ parent[d3] = Unborn
       \/ instance \in {"reference", "exports"} /\ Live = {} /\ loc[x1] = Unborn
    /\ place \in IF instance = "reference" THEN Trees ELSE {Parked}
    /\ reScene \in IF instance = "reference" THEN ReferenceScene
                   ELSE {CHOOSE s \in ReferenceScene : TRUE}
    /\ Re!Init /\ Ex!Init
    /\ instance # "exports" => server = "zipline"

MCNext ==
    /\ UNCHANGED instance
    /\ \/ instance = "tree" /\ Tree!Next /\ UNCHANGED <<reVars, exVars>>
       \/ instance = "cascade" /\ Cascade!Next /\ UNCHANGED <<reVars, exVars>>
       \/ instance = "ends" /\ Ends!Next /\ UNCHANGED <<parent[d3], reVars, exVars>>
       \/ instance = "reference" /\ Re!Next /\ UNCHANGED <<vars, exVars>>
       \/ instance = "exports" /\ Ex!Next /\ UNCHANGED <<vars, reVars>>
          /\ (Ex!Started(e2)' => Ex!Started(e1)')
    /\ Watch

(* FairSpec's fairness, for the behaviours of the third instance, and that *)
(* of ReferenceFolders.                                                    *)
MCSpec ==
    /\ MCInit
    /\ [][MCNext]_allVars
    /\ \A c \in Client : WF_vars(instance = "ends" /\ Ends!Request(c))
    /\ Re!Fairness

-----------------------------------------------------------------------------

(* Every deletion answers in the end, and on the TypeScript server every   *)
(* request about folders.                                                  *)
TabsEnd ==
    /\ \A c \in Client :
        []<>(instance = "ends" => work[c].action = "none")
    /\ Re!RequestsEnd
=============================================================================
