---------------------------- MODULE FoldersProofs ----------------------------
(***************************************************************************)
(* The Go server.  A tab whose dialogs do not offer a folder's own         *)
(* descendants keeps the tree a tree, however many folders there are and   *)
(* whatever fails, as long as no second tab moves folders at the same      *)
(* time.  Whatever any number of tabs do and whatever fails, a deletion    *)
(* stays within its subtree as long as nothing is moved meanwhile; and     *)
(* deletions that nothing else comes between leave exactly the objects of  *)
(* the files that are listed.                                              *)
(*                                                                         *)
(* The TypeScript server.  Transactions that lock their rows keep every    *)
(* file's object as long as it has a row, and lose it with the row; an     *)
(* export holds what stayed below its folder and could be read; and the    *)
(* folders stay one tree, as long as one tab moves them below one another. *)
(***************************************************************************)
EXTENDS FolderServers, SequenceTheorems, TLAPS

OneTab == \A a, b \in Client : a = b

(* A walk has a call that has not returned, and a folder to start from.    *)
Walking == \A c \in Client :
    /\ work[c].pc \in {"collect", "tree"} => work[c].stack # <<>>
    /\ work[c].pc # "idle" => work[c].folder \in Folder

(* What a dialog offers, and where a deletion moves the children.          *)
Offered(c) ==
    IF work[c].pc = "dialog" THEN work[c].options
    ELSE IF work[c].pc = "children" THEN {work[c].target} \intersect Folder
    ELSE {}

Chosen == \A c \in Client :
    /\ work[c].pc \in {"dialog", "children"} => work[c].folder \in Folder
    /\ \A g \in Offered(c) : parent[g] # Unborn /\ ~Under(g, work[c].folder)

(* Foreign key: a parent has a row.                                        *)
ParentsLive == \A g \in Folder : parent[g] \in Folder => parent[g] \in Live

Inv == TypeOK /\ Walking

TreeInv == Acyclic /\ ParentsLive /\ Chosen

-----------------------------------------------------------------------------
(* Type correctness.                                                       *)

LEMMA Stacks ==
    ASSUME NEW S, NEW s \in Seq(S), s # <<>>
    PROVE  /\ Head(s) \in S /\ Tail(s) \in Seq(S) /\ Last(s) \in S
           /\ Len(s) # 1 => Tail(s) # <<>> /\ s[2] \in S /\ Tail(Tail(s)) \in Seq(S)
<1>1. Head(s) \in S /\ Tail(s) \in Seq(S) /\ Len(Tail(s)) = Len(s) - 1
  BY HeadTailProperties, Zenon
<1>2. Len(s) \in Nat /\ Len(s) # 0 /\ \A i \in 1..Len(s) : s[i] \in S
  BY LenProperties, EmptySeq, ElementOfSeq
<1>3. Last(s) \in S
  BY <1>2 DEF Last
<1>4. ASSUME Len(s) # 1 PROVE Tail(s) # <<>> /\ s[2] \in S /\ Tail(Tail(s)) \in Seq(S)
  <2>1. 2 \in 1..Len(s) /\ Len(Tail(s)) # 0
    BY <1>1, <1>2, <1>4
  <2>2. s[2] \in S
    BY <2>1, <1>2
  <2>3. Tail(s) # <<>>
    <3>1. Len(<<>>) = 0
      OBVIOUS
    <3> QED BY <2>1, <3>1, Zenon
  <2> QED BY <2>2, <2>3, <1>1, HeadTailProperties, Zenon
<1> QED BY <1>1, <1>3, <1>4

(* A call of either recursion that is under way has a frame to work on.    *)
LEMMA TopFrame ==
    ASSUME Inv, NEW c \in Client, work[c].pc \in {"collect", "tree"}
    PROVE  /\ Top(c) \in Frame
           /\ Tail(work[c].stack) \in Seq(Frame)
           /\ work[c].stack \in Seq(Frame) /\ work[c].stack # <<>>
           /\ Last(work[c].stack) \in Frame
           /\ Len(work[c].stack) # 1 =>
                /\ Tail(work[c].stack) # <<>>
                /\ work[c].stack[2] \in Frame
                /\ Tail(Tail(work[c].stack)) \in Seq(Frame)
<1>1. work[c].stack \in Seq(Frame) /\ work[c].stack # <<>>
  BY DEF Inv, TypeOK, Walking, Work
<1> QED BY <1>1, Stacks, Zenon DEF Top

LEMMA PushedTwo ==
    ASSUME NEW a \in Frame, NEW b \in Frame, NEW s \in Seq(Frame)
    PROVE  <<a, b>> \o s \in Seq(Frame) /\ <<a, b>> \o s # <<>>
<1>1. <<a, b>> \in Seq(Frame) /\ Len(<<a, b>>) = 2
  OBVIOUS
<1>2. <<a, b>> \o s \in Seq(Frame) /\ Len(<<a, b>> \o s) = 2 + Len(s) /\ Len(s) \in Nat
  BY <1>1, ConcatProperties, SMT
<1> QED BY <1>2

LEMMA Pushed ==
    ASSUME NEW frame \in Frame, NEW s \in Seq(Frame)
    PROVE  <<frame>> \o s \in Seq(Frame) /\ <<frame>> \o s # <<>>
<1>1. <<frame>> \in Seq(Frame) /\ Len(<<frame>>) = 1
  OBVIOUS
<1>2. <<frame>> \o s \in Seq(Frame) /\ Len(<<frame>> \o s) = 1 + Len(s) /\ Len(s) \in Nat
  BY <1>1, ConcatProperties, SMT
<1> QED BY <1>2

(* The forms in which a step writes the record of its client.              *)
WorkOK == work \in [Client -> Work] /\ Walking

LEMMA WorkStep ==
    ASSUME Inv, NEW c \in Client
    PROVE  /\ Finish(c) => WorkOK'
           /\ \A w \in Work :
                /\ w.pc \in {"collect", "tree"} => w.stack # <<>>
                /\ w.pc # "idle" => w.folder \in Folder
                /\ work' = [work EXCEPT ![c] = w]
                => WorkOK'
           /\ work[c].pc # "idle" =>
                /\ \A pc \in Pcs \ {"collect", "tree"} : Goto(c, pc) => WorkOK'
                /\ \A pc \in Pcs \ {"collect", "tree"}, names \in SUBSET File :
                     work' = [work EXCEPT ![c].pc = pc, ![c].names = names, ![c].stack = <<>>] => WorkOK'
                /\ work' = [work EXCEPT ![c].pc = "drop", ![c].stack = <<>>] => WorkOK'
                /\ \A s \in Seq(Frame) : s # <<>> =>
                     /\ work' = [work EXCEPT ![c].stack = s] => WorkOK'
                     /\ work' = [work EXCEPT ![c].pc = "tree", ![c].stack = s] => WorkOK'
                /\ \A names \in SUBSET File : work' = [work EXCEPT ![c].names = names] => WorkOK'
<1>1. work \in [Client -> Work] /\ <<>> \in Seq(Frame)
  BY DEF Inv, TypeOK
<1>2. Idle \in Work /\ Idle.pc = "idle"
  BY DEF Idle, Work, Pcs, Place, Actions
<1> USE <1>1, <1>2 DEF WorkOK, Walking, Inv, Work
<1>3. Finish(c) => WorkOK'
  BY DEF Finish, Idle
<1>4. ASSUME work[c].pc # "idle", NEW pc \in Pcs \ {"collect", "tree"}, Goto(c, pc) PROVE WorkOK'
  BY <1>4 DEF Goto
<1>5. ASSUME work[c].pc # "idle", NEW pc \in Pcs \ {"collect", "tree"}, NEW names \in SUBSET File,
             work' = [work EXCEPT ![c].pc = pc, ![c].names = names, ![c].stack = <<>>]
      PROVE  WorkOK'
  BY <1>5
<1>6. ASSUME work[c].pc # "idle", work' = [work EXCEPT ![c].pc = "drop", ![c].stack = <<>>]
      PROVE  WorkOK'
  BY <1>6 DEF Pcs
<1>7. ASSUME work[c].pc # "idle", NEW s \in Seq(Frame), s # <<>>,
             work' = [work EXCEPT ![c].stack = s]
      PROVE  WorkOK'
  BY <1>7
<1>8. ASSUME work[c].pc # "idle", NEW s \in Seq(Frame), s # <<>>,
             work' = [work EXCEPT ![c].pc = "tree", ![c].stack = s]
      PROVE  WorkOK'
  BY <1>8 DEF Pcs
<1>9. ASSUME work[c].pc # "idle", NEW names \in SUBSET File, work' = [work EXCEPT ![c].names = names]
      PROVE  WorkOK'
  BY <1>9
<1>10. ASSUME NEW w \in Work, w.pc \in {"collect", "tree"} => w.stack # <<>>,
              w.pc # "idle" => w.folder \in Folder, work' = [work EXCEPT ![c] = w]
       PROVE  WorkOK'
  BY <1>10
<1> QED BY <1>3, <1>4, <1>5, <1>6, <1>7, <1>8, <1>9, <1>10

(* Each step writes one record, with a stack of frames or with an empty one.*)
LEMMA TypeStep ==
    ASSUME Inv, [Next]_vars
    PROVE  Inv'
<1>1. SUFFICES WorkOK' /\ parent' \in [Folder -> Place \union {Gone, Unborn}]
                /\ loc' \in [File -> Place \union {Gone, Unborn}] /\ object' \subseteq File
  BY DEF Inv, TypeOK, WorkOK
<1>2. /\ parent \in [Folder -> Place \union {Gone, Unborn}] /\ object \subseteq File
      /\ loc \in [File -> Place \union {Gone, Unborn}] /\ work \in [Client -> Work] /\ WorkOK
  BY DEF Inv, TypeOK, WorkOK
<1>3. ASSUME NEW f, DeleteRow(f)
      PROVE  /\ parent' \in [Folder -> Place \union {Gone, Unborn}]
             /\ loc' \in [File -> Place \union {Gone, Unborn}]
  BY <1>2, <1>3 DEF DeleteRow, Place
<1>4. ASSUME NEW c \in Client, Dialog(c) PROVE WorkOK' /\ UNCHANGED <<loc, object>>
      /\ parent' \in [Folder -> Place \union {Gone, Unborn}]
  <2>1. CASE CloseDialog(c)
    BY <2>1, <1>2, WorkStep DEF CloseDialog
  <2>2. ASSUME NEW f \in Folder, OpenDialog(c, f) PROVE WorkOK' /\ UNCHANGED <<parent, loc, object>>
    <3> DEFINE options == {g \in Live : ~Under(g, f)}
    <3> DEFINE w == [work[c] EXCEPT !.pc = "dialog", !.folder = f, !.options = options]
    <3>1. work[c] \in Work /\ options \in SUBSET Folder
      BY <1>2 DEF Live
    <3>2. w \in Work /\ w.pc = "dialog" /\ w.folder \in Folder
      <4> HIDE DEF options
      <4> QED BY <3>1 DEF Work, Pcs, Place
    <3>3. work' = [work EXCEPT ![c] = w] /\ UNCHANGED <<parent, loc, object>>
      BY <2>2, <1>2 DEF OpenDialog
    <3> HIDE DEF w
    <3> QED BY <3>2, <3>3, WorkStep
  <2>3. ASSUME NEW p \in Place, PatchFolder(c, p)
        PROVE  WorkOK' /\ UNCHANGED <<loc, object>> /\ parent' \in [Folder -> Place \union {Gone, Unborn}]
    BY <2>3, <1>2, WorkStep DEF PatchFolder, Place
  <2>4. ASSUME NEW action \in Actions, NEW target \in Place, DeleteFolder(c, action, target)
        PROVE  WorkOK' /\ UNCHANGED <<parent, loc, object>>
    <3> DEFINE w == [pc |-> FirstPc(action), folder |-> work[c].folder, action |-> action,
                     target |-> target, options |-> {},
                     stack |-> FirstStack(action, work[c].folder), names |-> {}]
    <3>2. work' = [work EXCEPT ![c] = w] /\ UNCHANGED <<parent, loc, object>>
          /\ work[c].folder \in Folder
      BY <2>4 DEF DeleteFolder, Live
    <3>3. \A step \in {"files", "children"} : Enter(work[c].folder, step) \in Frame
      BY <3>2 DEF Enter, Frame
    <3>4. FirstStack(action, work[c].folder) \in Seq(Frame)
      <4>1. \A frame \in Frame : <<frame>> \in Seq(Frame)
        OBVIOUS
      <4>2. <<>> \in Seq(Frame)
        OBVIOUS
      <4> QED BY <3>3, <4>1, <4>2 DEF FirstStack
    <3>5. /\ FirstPc(action) \in Pcs
          /\ FirstPc(action) \in {"collect", "tree"} => FirstStack(action, work[c].folder) # <<>>
      BY DEF FirstPc, FirstStack, Pcs, Actions
    <3>6. w \in Work
      BY <3>2, <3>4, <3>5 DEF Work, Place
    <3>7. w.pc \in {"collect", "tree"} => w.stack # <<>>
      BY <3>5
    <3>8. w.folder \in Folder
      BY <3>2
    <3> HIDE DEF w
    <3> QED BY <3>2, <3>6, <3>7, <3>8, WorkStep
  <2> QED BY <1>2, <1>4, <2>1, <2>2, <2>3, <2>4 DEF Dialog
<1>5. ASSUME NEW c \in Client, Request(c), work[c].pc # "idle"
      PROVE  WorkOK' /\ parent' \in [Folder -> Place \union {Gone, Unborn}]
                /\ loc' \in [File -> Place \union {Gone, Unborn}] /\ object' \subseteq File
  <2> DEFINE Same == parent' = parent /\ loc' = loc /\ object' = object
  <2>1. CASE MoveChildren(c) \/ MoveContents(c)
    <3>1. WorkOK'
      BY <1>5, <2>1, WorkStep DEF MoveChildren, MoveContents, Pcs
    <3>2. work[c].target \in Place
      BY <1>2 DEF Work
    <3> QED BY <2>1, <1>2, <3>1, <3>2 DEF MoveChildren, MoveContents
  <2>2. CASE CollectChildren(c) \/ TreeChildren(c)
    <3>1. Top(c) \in Frame /\ Tail(work[c].stack) \in Seq(Frame)
      BY <2>2, TopFrame DEF CollectChildren, TreeChildren, ReadChildren, Step, At
    <3>2. [Top(c) EXCEPT !.step = "each", !.todo = Children(Top(c).folder)] \in Frame
      BY <3>1 DEF Frame, Children
    <3> QED BY ZenonT(60), <1>5, <1>2, <2>2, <3>1, <3>2, Pushed, WorkStep
      DEF CollectChildren, TreeChildren, ReadChildren, SetTop
  <2>3. CASE \E pc \in {"collect", "tree"}, step \in {"files", "children"}, f \in Folder :
               Descend(c, pc, f, step) /\ Same
    <3>1. Top(c) \in Frame /\ Tail(work[c].stack) \in Seq(Frame)
      BY <2>3, TopFrame DEF Descend, Step, At
    <3>2. PICK f \in Folder, step \in {"files", "children"} : work' = [work EXCEPT ![c].stack =
           <<Enter(f, step), [Top(c) EXCEPT !.todo = @ \ {f}]>> \o Tail(@)]
      BY <2>3 DEF Descend
    <3>3. [Top(c) EXCEPT !.todo = @ \ {f}] \in Frame /\ Enter(f, step) \in Frame
      BY <3>1 DEF Frame, Enter
    <3>4. <<Enter(f, step), [Top(c) EXCEPT !.todo = @ \ {f}]>> \o Tail(work[c].stack) \in Seq(Frame)
          /\ <<Enter(f, step), [Top(c) EXCEPT !.todo = @ \ {f}]>> \o Tail(work[c].stack) # <<>>
      BY <3>1, <3>3, PushedTwo
    <3> QED BY <1>5, <1>2, <2>3, <3>2, <3>4, WorkStep
  <2>4. CASE CollectFiles(c) \/ TreeDescended(c) \/ TreeFiles(c)
    <3>1. Top(c) \in Frame /\ Tail(work[c].stack) \in Seq(Frame)
      BY <2>4, TopFrame DEF CollectFiles, TreeDescended, TreeFiles, Step, At
    <3>2. PICK frame \in Frame : SetTop(c, frame)
      BY <2>4, <3>1 DEF CollectFiles, TreeDescended, TreeFiles, Frame, FilesIn
    <3>3. WorkOK'
      BY <1>5, <3>1, <3>2, Pushed, WorkStep DEF SetTop
    <3> QED BY <1>2, <2>4, <3>3 DEF CollectFiles, TreeDescended, TreeFiles
  <2>5. CASE CollectReturn(c)
    <3>1. Top(c) \in Frame /\ (Len(work[c].stack) # 1 =>
             work[c].stack[2] \in Frame /\ Tail(Tail(work[c].stack)) \in Seq(Frame))
      BY <2>5, TopFrame DEF CollectReturn, Step, At
    <3>2. CASE Len(work[c].stack) = 1
      <4>1. Top(c).names \in SUBSET File
        BY <3>1 DEF Frame
      <4> QED BY <1>5, <1>2, <2>5, <3>2, <4>1, WorkStep DEF CollectReturn, StartErase, Pcs
    <3>3. CASE Len(work[c].stack) # 1
      <4> DEFINE frame == [work[c].stack[2] EXCEPT !.names = @ \union Top(c).names]
      <4>1. frame \in Frame
        BY <3>1, <3>3 DEF Frame
      <4>2. work' = [work EXCEPT ![c].stack = Returned(c)]
        BY <2>5, <3>3 DEF CollectReturn
      <4>3. Returned(c) \in Seq(Frame) /\ Returned(c) # <<>>
        BY <3>1, <3>3, <4>1, Pushed, Zenon DEF Returned
      <4>4. WorkOK'
        BY <1>5, <4>2, <4>3, WorkStep
      <4> QED BY <1>2, <2>5, <4>4 DEF CollectReturn
    <3> QED BY <3>2, <3>3
  <2>6. CASE CollectFails(c)
    <3>1. Last(work[c].stack).names \in SUBSET File
      BY <2>6, TopFrame DEF CollectFails, At, Frame
    <3> QED BY <1>5, <1>2, <2>6, <3>1, WorkStep DEF CollectFails, StartErase, Pcs
  <2>7. ASSUME NEW x \in File, Erase(c, x) \/ EraseFails(c, x)
        PROVE  WorkOK' /\ UNCHANGED <<parent, loc>> /\ object' \subseteq File
    <3>1. work[c].names \ {x} \in SUBSET File /\ work[c].names \in SUBSET File
      BY <1>2 DEF Work
    <3>2. work' = [work EXCEPT ![c].names = work[c].names \ {x}]
      BY <2>7, <1>2 DEF Erase, EraseFails
    <3> QED BY <1>5, <1>2, <2>7, <3>1, <3>2, WorkStep DEF Erase, EraseFails
  <2>8. CASE EraseDone(c)
    <3>1. Enter(work[c].folder, "children") \in Frame
      BY <1>2, <1>5 DEF Enter, Frame, WorkOK, Walking
    <3>2. <<Enter(work[c].folder, "children")>> \in Seq(Frame)
          /\ <<Enter(work[c].folder, "children")>> # <<>>
      BY <3>1
    <3> QED BY <1>2, <1>5, <2>8, <3>2, WorkStep DEF EraseDone
  <2>9. CASE TreeRow(c)
    <3>1. Len(work[c].stack) # 1 => Tail(work[c].stack) \in Seq(Frame) /\ Tail(work[c].stack) # <<>>
      BY <2>9, TopFrame DEF TreeRow, Step, At
    <3>2. CASE Len(work[c].stack) = 1
      BY <1>5, <1>2, <1>3, <2>9, <3>2, WorkStep DEF TreeRow, Pcs
    <3>3. CASE Len(work[c].stack) # 1
      BY <1>5, <1>2, <1>3, <2>9, <3>1, <3>3, WorkStep DEF TreeRow
    <3> QED BY <3>2, <3>3
  <2>10. CASE TreeFails(c)
    BY <1>5, <1>2, <2>10, WorkStep DEF TreeFails, Pcs
  <2>11. CASE Drop(c) \/ DropFails(c)
    BY <1>5, <1>2, <1>3, <2>11, WorkStep DEF Drop, DropFails
  <2> QED
    BY <1>2, <1>5, <2>1, <2>2, <2>3, <2>4, <2>5, <2>6, <2>7, <2>8, <2>9, <2>10, <2>11
       DEF Request, CollectChildren, CollectDescend, TreeChildren, TreeDescend
<1>9. ASSUME NEW c \in Client, Request(c) PROVE work[c].pc # "idle"
  BY <1>9 DEF Request, MoveChildren, MoveContents, CollectFiles, CollectChildren, CollectReturn,
       CollectFails, EraseDone, Erase, EraseFails, CollectDescend, TreeDescend, TreeChildren,
       TreeDescended, TreeFiles, TreeRow, TreeFails, Drop, DropFails, ReadChildren, Descend, Step, At
<1>6. ASSUME NEW f \in Folder, NEW p \in Place, CreateFolder(f, p)
      PROVE  parent' \in [Folder -> Place \union {Gone, Unborn}] /\ UNCHANGED <<loc, object, work>>
  BY <1>2, <1>6 DEF CreateFolder
<1>7. ASSUME NEW x \in File, NEW p \in Place, Upload(x, p) \/ MoveFile(x, p)
      PROVE  /\ loc' \in [File -> Place \union {Gone, Unborn}] /\ object' \subseteq File
             /\ UNCHANGED <<parent, work>>
  BY <1>2, <1>7 DEF Upload, MoveFile
<1>8. CASE UNCHANGED vars
  BY <1>2, <1>8 DEF vars, WorkOK, Walking
<1> QED BY <1>1, <1>2, <1>4, <1>5, <1>9, <1>6, <1>7, <1>8 DEF Next, WorkOK, Walking

THEOREM TypeCorrect == Spec => []TypeOK
<1>1. Init => Inv
  <2>1. ASSUME Init PROVE Inv
    <3>1. Idle \in Work /\ Idle.pc = "idle"
      BY EmptySeq DEF Idle, Work, Pcs, Place, Actions
    <3> QED BY <2>1, <3>1 DEF Init, Inv, TypeOK, Walking, Listed, Live, Place
  <2> QED BY <2>1
<1>2. Inv /\ [Next]_vars => Inv'
  BY TypeStep
<1>3. Inv => TypeOK
  BY DEF Inv
<1> QED BY <1>1, <1>2, <1>3, PTL DEF Spec

-----------------------------------------------------------------------------
(* Moving whole groups of siblings keeps the tree acyclic when the place   *)
(* they are moved to has a chain to the root that avoids them.             *)
LEMMA MoveKeepsAcyclic ==
    ASSUME Acyclic, NEW p \in Place, NEW Moved \in SUBSET Folder, NEW U \in SUBSET Folder,
           p \in Folder => p \in U /\ ClosedUp(U) /\ U \intersect Moved = {},
           parent' = [g \in Folder |-> IF g \in Moved THEN p ELSE parent[g]]
    PROVE  Acyclic'
<1> SUFFICES ASSUME NEW S \in SUBSET Folder, S # {}, \A s \in S : parent'[s] \in S PROVE FALSE
  BY DEF Acyclic
<1>1. CASE p \in S
  <2>1. p \in U /\ ClosedUp(U) /\ U \intersect Moved = {} /\ S \intersect U # {}
    BY <1>1
  <2>2. PICK s \in S \intersect U : parent[s] \notin S \intersect U
    BY <2>1 DEF Acyclic
  <2>3. parent'[s] = parent[s] /\ parent[s] \in S /\ parent[s] \in Folder
    BY <2>1, <2>2
  <2> QED BY <2>1, <2>2, <2>3 DEF ClosedUp
<1>2. CASE p \notin S
  <2>1. \A s \in S : parent[s] \in S
    BY <1>2
  <2> QED BY <2>1 DEF Acyclic
<1> QED BY <1>1, <1>2

LEMMA RowKeepsTree ==
    ASSUME FoldersAssumption, TypeOK, Acyclic, ParentsLive, NEW f, DeleteRow(f)
    PROVE  Acyclic' /\ ParentsLive'
<1>1. Acyclic'
  <2> SUFFICES ASSUME NEW S \in SUBSET Folder, S # {}, \A s \in S : parent'[s] \in S PROVE FALSE
    BY DEF Acyclic
  <2>1. \A s \in S : parent[s] \in S
    BY FoldersAssumption DEF DeleteRow
  <2> QED BY <2>1 DEF Acyclic
<1>2. ParentsLive'
  <2> SUFFICES ASSUME NEW g \in Folder, parent'[g] \in Folder PROVE parent'[g] \in Live'
    BY DEF ParentsLive
  <2>1. parent'[g] = parent[g] /\ parent[g] # f
    BY FoldersAssumption DEF DeleteRow
  <2>2. parent[g] \in Folder /\ parent[parent[g]] \in Place
    BY <2>1 DEF ParentsLive, Live
  <2>3. parent'[parent[g]] \in Place
    BY <2>1, <2>2 DEF DeleteRow, Place
  <2> QED BY <2>1, <2>2, <2>3 DEF Live
<1> QED BY <1>1, <1>2

(* A new folder is nobody's parent: it changes no other folder's chain.    *)
LEMMA CreateKeepsTree ==
    ASSUME FoldersAssumption, TypeOK, Acyclic, ParentsLive,
           NEW f \in Folder, NEW p \in Place, CreateFolder(f, p)
    PROVE  /\ Acyclic' /\ ParentsLive'
           /\ \A g, d \in Folder : parent[g] # Unborn /\ ~Under(g, d) => parent'[g] # Unborn /\ ~Under(g, d)'
<1>1. /\ parent \in [Folder -> Place \union {Gone, Unborn}] /\ parent[f] = Unborn
      /\ p \in Live \union {Root} /\ parent' = [parent EXCEPT ![f] = p]
  BY DEF CreateFolder, TypeOK
<1>2. f \notin Live /\ p # f /\ \A g \in Folder : parent[g] # f
  BY <1>1, FoldersAssumption DEF Live, Place, ParentsLive
<1>3. Acyclic'
  <2> SUFFICES ASSUME NEW S \in SUBSET Folder, S # {}, \A s \in S : parent'[s] \in S PROVE FALSE
    BY DEF Acyclic
  <2>1. S \ {f} # {}
    BY <1>1, <1>2
  <2>2. \A s \in S \ {f} : parent[s] \in S \ {f}
    BY <1>1, <1>2
  <2> QED BY <2>1, <2>2 DEF Acyclic
<1>4. ParentsLive'
  <2>1. \A g \in Live : parent'[g] \in Place
    BY <1>1, <1>2 DEF Live
  <2>2. Live \subseteq Live' /\ f \in Live'
    BY <1>1, <2>1 DEF Live, Place
  <2> QED BY <1>1, <1>2, <2>2, FoldersAssumption DEF ParentsLive
<1>5. ASSUME NEW g \in Folder, NEW d \in Folder, parent[g] # Unborn, ~Under(g, d)
      PROVE  parent'[g] # Unborn /\ ~Under(g, d)'
  <2>1. PICK U \in SUBSET Folder : g \in U /\ ClosedUp(U) /\ d \notin U
    BY <1>5 DEF Under
  <2>2. g \in U \ {f} /\ d \notin U \ {f}
    BY <1>1, <1>5, <2>1
  <2>3. ClosedUp(U \ {f})'
    BY <1>1, <1>2, <2>1 DEF ClosedUp
  <2>4. ~Under(g, d)'
    BY <2>2, <2>3 DEF Under
  <2>5. parent'[g] = parent[g]
    BY <1>1, <1>5
  <2> QED BY <1>5, <2>4, <2>5
<1> QED BY <1>3, <1>4, <1>5

(* After a step of a request, and after an answer, nothing is offered.     *)
LEMMA NothingOffered ==
    ASSUME OneTab, NEW c \in Client, WorkOK', work'[c].pc \notin {"dialog", "children"}
    PROVE  Chosen'
<1>1. \A d \in Client : work'[d].pc \notin {"dialog", "children"}
  BY DEF OneTab
<1> QED BY <1>1 DEF Chosen, Offered

LEMMA RequestAnswers ==
    ASSUME Inv, NEW c \in Client, Request(c)
    PROVE  work'[c].pc \notin {"dialog", "children"}
<1> USE DEF Inv, TypeOK, Work
<1>1. CASE MoveChildren(c) \/ MoveContents(c)
  BY <1>1 DEF MoveChildren, MoveContents, Goto
<1>2. CASE CollectFiles(c) \/ CollectChildren(c) \/ TreeChildren(c) \/ TreeDescended(c) \/ TreeFiles(c)
  <2>1. \E frame : SetTop(c, frame)
    BY <1>2 DEF CollectFiles, CollectChildren, TreeChildren, TreeDescended, TreeFiles, ReadChildren
  <2>2. work'[c].pc = work[c].pc
    BY <2>1 DEF SetTop
  <2>3. work[c].pc \in {"collect", "tree"}
    BY <1>2 DEF CollectFiles, CollectChildren, TreeChildren, TreeDescended, TreeFiles, ReadChildren,
         Step, At
  <2> QED BY <2>2, <2>3
<1>3. CASE \E f \in Folder : CollectDescend(c, f) \/ TreeDescend(c, f)
  BY <1>3 DEF CollectDescend, TreeDescend, Descend, Step, At
<1>4. CASE CollectReturn(c) \/ CollectFails(c)
  BY <1>4 DEF CollectReturn, CollectFails, StartErase, Step, At
<1>5. CASE EraseDone(c) \/ \E x \in File : Erase(c, x) \/ EraseFails(c, x)
  BY <1>5 DEF EraseDone, Erase, EraseFails, At
<1>6. CASE TreeRow(c) \/ TreeFails(c)
  BY <1>6 DEF TreeRow, TreeFails, Step, At
<1>7. CASE Drop(c) \/ DropFails(c)
  BY <1>7 DEF Drop, DropFails, Finish, Idle
<1> QED BY <1>1, <1>2, <1>3, <1>4, <1>5, <1>6, <1>7 DEF Request

LEMMA TreeStep ==
    ASSUME OneTab, Inv, TreeInv, [Next]_vars
    PROVE  TreeInv'
<1>1. WorkOK' /\ TypeOK /\ Acyclic /\ ParentsLive /\ Chosen
      /\ parent \in [Folder -> Place \union {Gone, Unborn}] /\ work \in [Client -> Work]
  BY TypeStep DEF Inv, WorkOK, TypeOK, TreeInv
<1>2. ASSUME UNCHANGED parent PROVE Acyclic' /\ ParentsLive' /\ Live' = Live
      /\ \A g, d \in Folder : ~Under(g, d) => ~Under(g, d)'
  BY <1>1, <1>2 DEF Acyclic, ParentsLive, Live, Under, ClosedUp
<1>3. ASSUME UNCHANGED <<parent, work>> PROVE TreeInv'
  <2>1. \A c \in Client : Offered(c)' = Offered(c) /\ Offered(c) \subseteq Folder
    BY <1>1, <1>3 DEF Offered, Work
  <2>2. ASSUME NEW c \in Client, NEW g \in Offered(c)'
        PROVE  parent'[g] # Unborn /\ ~Under(g, work[c].folder)'
    <3>1. g \in Folder /\ work[c].folder \in Folder /\ parent[g] # Unborn /\ ~Under(g, work[c].folder)
      BY <1>1, <2>1, <2>2 DEF Chosen, Offered
    <3> QED BY <1>2, <1>3, <3>1
  <2>3. Chosen'
    BY <1>1, <1>3, <2>2 DEF Chosen
  <2> QED BY <1>2, <1>3, <2>3 DEF TreeInv
<1>4. ASSUME NEW c \in Client, NEW f \in Folder, OpenDialog(c, f) PROVE TreeInv'
  <2>1. \A g \in Live : parent[g] # Unborn
    BY FoldersAssumption DEF Live, Place
  <2>2. \A d \in Client : work'[d].pc = "dialog" /\ work'[d].folder = f
                          /\ work'[d].options = {g \in Live : ~Under(g, f)}
    BY <1>1, <1>4 DEF OpenDialog, OneTab, Work
  <2>3. Chosen'
    BY <1>2, <1>4, <2>1, <2>2 DEF Chosen, Offered, OpenDialog, Live
  <2> QED BY <1>2, <1>4, <2>3 DEF TreeInv, OpenDialog
<1>5. ASSUME NEW c \in Client, NEW p \in Place, PatchFolder(c, p) PROVE TreeInv'
  <2>1. Chosen'
    BY <1>1, <1>5, NothingOffered DEF PatchFolder, Finish, Idle
  <2>2. ASSUME work[c].folder \in Live, p \in Live \union {Root},
               parent' = [parent EXCEPT ![work[c].folder] = p]
        PROVE  Acyclic' /\ ParentsLive'
    <3> DEFINE f == work[c].folder
    <3>1. f \in Folder /\ (p \in Folder => ~Under(p, f))
      BY <1>1, <1>5, FoldersAssumption DEF PatchFolder, At, Chosen, Offered
    <3>2. PICK U \in SUBSET Folder : p \in Folder => p \in U /\ ClosedUp(U) /\ f \notin U
      BY <3>1 DEF Under
    <3>3. parent' = [g \in Folder |-> IF g \in {f} THEN p ELSE parent[g]]
      BY <1>1, <2>2
    <3>4. Acyclic'
      <4> HIDE DEF f
      <4>1. {f} \in SUBSET Folder /\ (p \in Folder => U \intersect {f} = {})
        BY <3>1, <3>2
      <4> QED BY <1>1, <3>2, <3>3, <4>1, MoveKeepsAcyclic
    <3>5. Live \subseteq Live'
      BY <1>1, <2>2 DEF Live, Place
    <3>6. ParentsLive'
      BY <1>1, <2>2, <3>5, FoldersAssumption DEF ParentsLive
    <3> QED BY <3>4, <3>6
  <2> QED BY <1>2, <1>5, <2>1, <2>2 DEF PatchFolder, TreeInv
<1>6. ASSUME NEW c \in Client, NEW action \in Actions, NEW target \in Place,
             DeleteFolder(c, action, target)
      PROVE  TreeInv'
  <2>1. /\ \A d \in Client : work'[d].pc = FirstPc(action) /\ work'[d].target = target
                             /\ work'[d].folder = work[c].folder
        /\ UNCHANGED parent /\ work[c].folder \in Folder
    BY <1>1, <1>6 DEF DeleteFolder, OneTab, Live
  <2>2. FirstPc(action) # "dialog" /\ (FirstPc(action) = "children" => action \in {"root", "folder"})
    BY DEF FirstPc, Actions
  <2>3. action \in {"root", "folder"} /\ target \in Folder =>
           parent[target] # Unborn /\ ~Under(target, work[c].folder)
    BY <1>1, <1>6, FoldersAssumption DEF DeleteFolder, At, Chosen, Offered
  <2>4. Chosen'
    BY <1>2, <2>1, <2>2, <2>3 DEF Chosen, Offered
  <2> QED BY <1>2, <2>1, <2>4 DEF TreeInv
<1>7. ASSUME NEW c \in Client, CloseDialog(c) PROVE TreeInv'
  <2>1. Chosen'
    BY <1>1, <1>7, NothingOffered DEF CloseDialog, Finish, Idle
  <2> QED BY <1>2, <1>7, <2>1 DEF CloseDialog, TreeInv
<1>8. ASSUME NEW c \in Client, MoveChildren(c) PROVE TreeInv'
  <2> DEFINE f == work[c].folder
  <2> DEFINE p == work[c].target
  <2>1. Chosen'
    <3>1. Request(c)
      BY <1>8 DEF Request
    <3> QED BY <1>1, <3>1, RequestAnswers, NothingOffered
  <2>2. ASSUME p \in Live \union {Root},
               parent' = [g \in Folder |-> IF parent[g] = f THEN p ELSE parent[g]]
        PROVE  Acyclic' /\ ParentsLive'
    <3>1. f \in Folder /\ p \in Place /\ (p \in Folder => ~Under(p, f))
      BY <1>1, <1>8 DEF MoveChildren, At, Chosen, Offered, Work
    <3>2. PICK U \in SUBSET Folder : p \in Folder => p \in U /\ ClosedUp(U) /\ f \notin U
      BY <3>1 DEF Under
    <3> HIDE DEF f, p
    <3>3. parent' = [g \in Folder |-> IF g \in Children(f) THEN p ELSE parent[g]]
      BY <2>2 DEF Children
    <3>4. p \in Folder => U \intersect Children(f) = {}
      BY <3>1, <3>2 DEF ClosedUp, Children
    <3>5. Acyclic'
      <4>1. Children(f) \in SUBSET Folder
        BY DEF Children
      <4> QED BY <1>1, <3>1, <3>2, <3>3, <3>4, <4>1, MoveKeepsAcyclic
    <3>6. Live \subseteq Live'
      BY <1>1, <2>2, <3>1 DEF Live, Place
    <3>7. ParentsLive'
      BY <1>1, <2>2, <3>6, FoldersAssumption DEF ParentsLive
    <3> QED BY <3>5, <3>7
  <2> QED BY <1>2, <1>8, <2>1, <2>2 DEF MoveChildren, TreeInv
<1>9. ASSUME NEW c \in Client, Request(c), ~MoveChildren(c) PROVE TreeInv'
  <2>1. Chosen'
    BY <1>1, <1>9, RequestAnswers, NothingOffered
  <2>2. UNCHANGED parent \/ \E f : DeleteRow(f)
    BY <1>9 DEF Request, MoveContents, CollectFiles, CollectChildren, CollectReturn, CollectFails,
         EraseDone, Erase, EraseFails, CollectDescend, TreeDescend, TreeChildren, TreeDescended,
         TreeFiles, TreeRow, TreeFails, Drop, DropFails
  <2> QED BY <1>1, <1>2, <2>1, <2>2, RowKeepsTree, FoldersAssumption DEF TreeInv
<1>10. ASSUME NEW f \in Folder, NEW p \in Place, CreateFolder(f, p) PROVE TreeInv'
  <2>1. \A c \in Client : Offered(c)' = Offered(c) /\ Offered(c) \subseteq Folder
    BY <1>1, <1>10 DEF Offered, Work, CreateFolder
  <2>2. Acyclic' /\ ParentsLive' /\ \A g, d \in Folder :
           parent[g] # Unborn /\ ~Under(g, d) => parent'[g] # Unborn /\ ~Under(g, d)'
    BY <1>1, <1>10, CreateKeepsTree, FoldersAssumption
  <2>3. ASSUME NEW c \in Client, NEW g \in Offered(c)'
        PROVE  parent'[g] # Unborn /\ ~Under(g, work[c].folder)'
    <3>1. g \in Folder /\ work[c].folder \in Folder /\ parent[g] # Unborn /\ ~Under(g, work[c].folder)
      BY <1>1, <2>1, <2>3 DEF Chosen, Offered
    <3>2. work' = work
      BY <1>10 DEF CreateFolder
    <3> QED BY <2>2, <3>1, <3>2
  <2>4. Chosen'
    BY <1>1, <1>10, <2>3 DEF Chosen, CreateFolder
  <2> QED BY <2>2, <2>4 DEF TreeInv
<1>11. ASSUME NEW x \in File, NEW p \in Place, Upload(x, p) \/ MoveFile(x, p) PROVE TreeInv'
  BY <1>3, <1>11 DEF Upload, MoveFile
<1>12. CASE UNCHANGED vars
  BY <1>3, <1>12 DEF vars
<1> QED BY <1>4, <1>5, <1>6, <1>7, <1>8, <1>9, <1>10, <1>11, <1>12 DEF Next, Dialog

(* With one tab at a time, any number of folders and files, and calls that *)
(* fail anywhere, the folders stay a tree: no PATCH and no deletion closes *)
(* a cycle.  (Two tabs can close one.)                                     *)
THEOREM OneTabKeepsTree ==
    ASSUME OneTab
    PROVE  Spec => []Acyclic
<1>1. Init => Inv /\ TreeInv
  <2> SUFFICES ASSUME Init PROVE Inv /\ TreeInv
    OBVIOUS
  <2>1. Idle \in Work /\ Idle.pc = "idle"
    BY EmptySeq DEF Idle, Work, Pcs, Place, Actions
  <2>2. Inv
    BY <2>1 DEF Init, Inv, TypeOK, Walking, Listed, Live, Place
  <2>3. Acyclic /\ Chosen
    BY <2>1 DEF Init, Chosen, Offered
  <2>4. ParentsLive
    BY FoldersAssumption DEF Init, ParentsLive, Place
  <2> QED BY <2>2, <2>3, <2>4 DEF TreeInv
<1>2. Inv /\ TreeInv /\ [Next]_vars => Inv' /\ TreeInv'
  BY TypeStep, TreeStep
<1>3. TreeInv => Acyclic
  BY DEF TreeInv
<1> QED BY <1>1, <1>2, <1>3, PTL DEF Spec

-----------------------------------------------------------------------------
(* Deletions stay within their subtree.  What a walk holds was in the      *)
(* subtree when it was found; a step that moves nothing keeps it there.    *)

(* A row that is gone does not come back, and none becomes unborn again.   *)
RowsAge ==
    /\ \A f \in Folder :
        /\ parent[f] = Gone => parent'[f] = Gone
        /\ parent[f] \in Place => parent'[f] \in Place \union {Gone}
    /\ \A x \in File :
        /\ loc[x] = Gone => loc'[x] = Gone
        /\ loc[x] \in Place => loc'[x] \in Place \union {Gone}

LEMMA SubsetSeqs ==
    ASSUME NEW A, NEW B, A \subseteq B, NEW s \in Seq(A)
    PROVE  s \in Seq(B)
OBVIOUS

(* A chain of parents that nothing is moved in leads where it led.         *)
LEMMA StaysReached ==
    ASSUME FoldersAssumption, Inv, HoldersLive, HoldersLive', RowsAge, ~Moves, NEW d \in Folder
    PROVE  Reached(d) \subseteq Reached(d)' /\ Found(d) \subseteq Found(d)'
<1>1. ASSUME NEW g \in Reached(d), parent'[g] # Gone PROVE Under(g, d)'
  <2>1. g \in Folder /\ Under(g, d) /\ parent[g] # Gone
    BY <1>1 DEF Reached, RowsAge
  <2>2. SUFFICES ASSUME NEW U \in SUBSET Folder, g \in U, ClosedUp(U)' PROVE d \in U
    BY DEF Under
  <2>3. CASE parent[g] \notin Folder
    <3>1. {g} \in SUBSET Folder /\ ClosedUp({g})
      BY <2>1, <2>3 DEF ClosedUp
    <3> QED BY <2>1, <2>2, <3>1 DEF Under
  <2>4. CASE parent[g] \in Folder
    <3> DEFINE V == {u \in U : u \in Live /\ u \in Live'}
    <3>1. g \in V
      BY <1>1, <2>1, <2>2, <2>4 DEF Live, Place, RowsAge
    <3>2. ASSUME NEW u \in V, parent[u] \in Folder PROVE parent[u] \in V
      <4>1. parent'[u] = parent[u]
        BY <3>2 DEF Moves, Live
      <4>2. parent[u] \in U
        BY <2>2, <3>2, <4>1 DEF ClosedUp
      <4>3. parent[u] \in Live
        BY <3>2 DEF HoldersLive
      <4>4. parent[u] \in Live'
        BY <3>2, <4>1 DEF HoldersLive
      <4> QED BY <4>2, <4>3, <4>4
    <3>3. V \in SUBSET Folder /\ ClosedUp(V)
      BY <3>2 DEF ClosedUp
    <3> HIDE DEF V
    <3>4. d \in V
      BY <2>1, <3>1, <3>3 DEF Under
    <3> QED BY <3>4 DEF V
  <2> QED BY <2>3, <2>4
<1>2. ASSUME NEW x \in Found(d), loc'[x] # Gone PROVE InSubtree(x, d)'
  <2>1. x \in File /\ loc[x] # Gone /\ loc[x] \in Folder /\ Under(loc[x], d)
    BY <1>2 DEF Found, RowsAge, InSubtree
  <2>2. loc'[x] = loc[x]
    BY <1>2, <2>1 DEF Moves, RowsAge, Listed, Place
  <2>3. loc[x] \in Live'
    BY <2>1, <2>2 DEF HoldersLive
  <2>4. parent'[loc[x]] # Gone /\ loc[x] \in Reached(d)
    BY <2>1, <2>3, FoldersAssumption DEF Live, Place, Reached
  <2>5. PICK g \in Reached(d) : g = loc[x]
    BY <2>4
  <2>6. Under(g, d)'
    BY <2>2, <2>4, <2>5, <1>1
  <2> QED BY <2>1, <2>2, <2>5, <2>6 DEF InSubtree
<1> QED BY <1>1, <1>2 DEF Reached, Found

(* What a step does to the rows: one folder's row goes, or places change   *)
(* to ones that exist.                                                     *)
PlacesExist ==
    /\ \A f \in Folder :
        \/ parent'[f] = parent[f]
        \/ parent'[f] \in Live \union {Root} /\ parent[f] # Gone
    /\ \A x \in File :
        \/ loc'[x] = loc[x]
        \/ loc'[x] \in Live \union {Root} /\ loc[x] # Gone
        \/ loc'[x] = Gone /\ loc[x] \in Folder

LEMMA RowsStep ==
    ASSUME FoldersAssumption, Inv, [Next]_vars
    PROVE  PlacesExist \/ \E f \in Folder : DeleteRow(f)
<1>1. /\ parent \in [Folder -> Place \union {Gone, Unborn}] /\ work \in [Client -> Work]
      /\ loc \in [File -> Place \union {Gone, Unborn}] /\ Walking
  BY DEF Inv, TypeOK
<1>2. ASSUME parent' = parent, loc' = loc PROVE PlacesExist
  BY <1>2 DEF PlacesExist
<1>3. ASSUME NEW c \in Client, Dialog(c) PROVE PlacesExist
  <2>1. ASSUME NEW p \in Place, PatchFolder(c, p) PROVE PlacesExist
    BY <1>1, <2>1, FoldersAssumption DEF PatchFolder, PlacesExist, Live, Place
  <2> QED BY <1>2, <1>3, <2>1 DEF Dialog, CloseDialog, OpenDialog, DeleteFolder
<1>4. ASSUME NEW c \in Client, Request(c) PROVE PlacesExist \/ \E f \in Folder : DeleteRow(f)
  <2>1. CASE MoveChildren(c) \/ MoveContents(c)
    <3>1. work[c].folder \in Folder
      BY <1>1, <2>1 DEF Walking, MoveChildren, MoveContents, At
    <3> QED BY <1>1, <2>1, <3>1, FoldersAssumption DEF MoveChildren, MoveContents, PlacesExist
  <2>2. CASE TreeFiles(c)
    <3>1. Top(c).folder \in Folder
      BY <2>2, TopFrame DEF TreeFiles, Step, At, Frame
    <3> QED BY <1>1, <2>2, <3>1 DEF TreeFiles, PlacesExist
  <2>3. CASE TreeRow(c)
    <3>1. Top(c).folder \in Folder
      BY <2>3, TopFrame DEF TreeRow, Step, At, Frame
    <3> QED BY <2>3, <3>1 DEF TreeRow
  <2>4. CASE Drop(c)
    BY <1>1, <2>4 DEF Drop, Walking, At
  <2> QED BY <1>2, <1>4, <2>1, <2>2, <2>3, <2>4 DEF Request, CollectFiles, CollectChildren,
         CollectReturn, CollectFails, EraseDone, Erase, EraseFails, CollectDescend, TreeDescend,
         TreeChildren, TreeDescended, TreeFails, DropFails
<1>5. ASSUME NEW f \in Folder, NEW p \in Place, CreateFolder(f, p) PROVE PlacesExist
  BY <1>1, <1>5, FoldersAssumption DEF CreateFolder, PlacesExist
<1>6. ASSUME NEW x \in File, NEW p \in Place, Upload(x, p) \/ MoveFile(x, p) PROVE PlacesExist
  BY <1>1, <1>6, FoldersAssumption DEF Upload, MoveFile, PlacesExist, Listed, Place
<1>7. CASE UNCHANGED vars
  BY <1>2, <1>7 DEF vars
<1> QED BY <1>3, <1>4, <1>5, <1>6, <1>7 DEF Next

LEMMA HoldersStep ==
    ASSUME FoldersAssumption, Inv, HoldersLive, [Next]_vars
    PROVE  HoldersLive' /\ RowsAge
<1>1. /\ parent \in [Folder -> Place \union {Gone, Unborn}]
      /\ loc \in [File -> Place \union {Gone, Unborn}]
  BY DEF Inv, TypeOK
<1>2. CASE PlacesExist
  <2>1. RowsAge
    BY <1>2, <1>1, FoldersAssumption DEF PlacesExist, RowsAge, Place, Live
  <2>2. ASSUME NEW f \in Live PROVE f \in Live'
    BY <1>2, <2>2 DEF PlacesExist, Live, Place
  <2>3. Root \notin Folder /\ Gone \notin Folder
    BY FoldersAssumption
  <2>4. ASSUME NEW f \in Folder, parent'[f] \in Folder PROVE parent'[f] \in Live
    BY <1>2, <2>3, <2>4 DEF PlacesExist, HoldersLive
  <2>5. ASSUME NEW x \in File, loc'[x] \in Folder PROVE loc'[x] \in Live
    BY <1>2, <2>3, <2>5 DEF PlacesExist, HoldersLive
  <2> QED BY <2>1, <2>2, <2>4, <2>5 DEF HoldersLive
<1>3. ASSUME NEW f \in Folder, DeleteRow(f) PROVE HoldersLive' /\ RowsAge
  <2>1. RowsAge
    BY <1>1, <1>3, FoldersAssumption DEF DeleteRow, RowsAge, Place
  <2>2. ASSUME NEW g \in Live, g # f PROVE g \in Live'
    BY <1>3, <2>2 DEF DeleteRow, Live, Place
  <2>3. Root \notin Folder /\ Gone \notin Folder
    BY FoldersAssumption
  <2>4. ASSUME NEW g \in Folder, parent'[g] \in Folder PROVE parent'[g] \in Live'
    <3>1. parent'[g] = parent[g] /\ parent[g] # f
      BY <1>3, <2>3, <2>4 DEF DeleteRow
    <3> QED BY <2>2, <2>4, <3>1 DEF HoldersLive
  <2>5. ASSUME NEW x \in File, loc'[x] \in Folder PROVE loc'[x] \in Live'
    <3>1. loc'[x] = loc[x] /\ loc[x] # f
      BY <1>3, <2>3, <2>5 DEF DeleteRow
    <3> QED BY <2>2, <2>5, <3>1 DEF HoldersLive
  <2> QED BY <2>1, <2>4, <2>5 DEF HoldersLive
<1> QED BY <1>2, <1>3, RowsStep

LEMMA PushedAny ==
    ASSUME NEW S, NEW a \in S, NEW b \in S, NEW s \in Seq(S)
    PROVE  <<a>> \in Seq(S) /\ <<a>> \o s \in Seq(S) /\ <<a, b>> \o s \in Seq(S)
<1>1. <<a>> \in Seq(S) /\ <<a, b>> \in Seq(S)
  OBVIOUS
<1> QED BY <1>1, ConcatProperties

(* The forms a step gives the stack of a call under way: the topmost frame *)
(* is replaced, a call is made, a call returns.                            *)
Replaced(c, frame) == <<frame>> \o Tail(work[c].stack)
Called(c, f, step) ==
    <<Enter(f, step), [Top(c) EXCEPT !.todo = @ \ {f}]>> \o Tail(work[c].stack)

(* A request goes from one statement to the next with what it was asked.   *)
LEMMA RequestKeeps ==
    ASSUME Inv, NEW c \in Client, Request(c)
    PROVE  \/ Finish(c) /\ work[c].pc = "drop"
           \/ /\ work'[c].action = work[c].action /\ work'[c].folder = work[c].folder
              /\ work[c].pc \in {"children", "files"} => work'[c].pc \in {"files", "drop"}
              /\ work[c].pc = "collect" => work'[c].pc \in {"collect", "erase"}
              /\ work[c].pc = "erase" => work'[c].pc \in {"erase", "tree"}
              /\ work[c].pc = "tree" => work'[c].pc \in {"tree", "drop"}
<1> USE DEF Inv, TypeOK, Work
<1>1. CASE MoveChildren(c) \/ MoveContents(c)
  BY <1>1 DEF MoveChildren, MoveContents, Goto, At
<1>2. CASE CollectFiles(c) \/ CollectChildren(c) \/ TreeChildren(c) \/ TreeDescended(c) \/ TreeFiles(c)
  <2>1. \E frame : SetTop(c, frame)
    BY <1>2 DEF CollectFiles, CollectChildren, TreeChildren, TreeDescended, TreeFiles, ReadChildren
  <2>2. work'[c].pc = work[c].pc /\ work'[c].action = work[c].action /\ work'[c].folder = work[c].folder
    BY <2>1 DEF SetTop
  <2>3. work[c].pc \in {"collect", "tree"}
    BY <1>2 DEF CollectFiles, CollectChildren, TreeChildren, TreeDescended, TreeFiles, ReadChildren,
         Step, At
  <2> QED BY <2>2, <2>3
<1>3. CASE \E f \in Folder : CollectDescend(c, f) \/ TreeDescend(c, f)
  BY <1>3 DEF CollectDescend, TreeDescend, Descend, Step, At
<1>4. CASE CollectReturn(c) \/ CollectFails(c)
  BY <1>4 DEF CollectReturn, CollectFails, StartErase, Step, At
<1>5. CASE EraseDone(c) \/ \E x \in File : Erase(c, x) \/ EraseFails(c, x)
  BY <1>5 DEF EraseDone, Erase, EraseFails, At
<1>6. CASE TreeRow(c) \/ TreeFails(c)
  BY <1>6 DEF TreeRow, TreeFails, Step, At
<1>7. CASE Drop(c) \/ DropFails(c)
  BY <1>7 DEF Drop, DropFails, At
<1> QED BY <1>1, <1>2, <1>3, <1>4, <1>5, <1>6, <1>7 DEF Request

LEMMA ActionStep ==
    ASSUME Inv, \A c \in Client : ActionFits(work[c]), [Next]_vars
    PROVE  \A c \in Client : ActionFits(work'[c])
<1>1. work \in [Client -> Work] /\ Walking
  BY DEF Inv, TypeOK
<1>2. SUFFICES ASSUME NEW c \in Client, NEW w, work' = [work EXCEPT ![c] = w], Dialog(c) \/ Request(c)
               PROVE  ActionFits(w)
  <2>1. ASSUME NEW c \in Client, Dialog(c) \/ Request(c) PROVE \A d \in Client : ActionFits(work'[d])
    <3>1. \E w : work' = [work EXCEPT ![c] = w]
      BY <1>1, <2>1 DEF Dialog, CloseDialog, OpenDialog, PatchFolder, DeleteFolder, Finish, Request,
           MoveChildren, MoveContents, CollectFiles, CollectChildren, CollectReturn, CollectFails,
           EraseDone, Erase, EraseFails, CollectDescend, TreeDescend, TreeChildren, TreeDescended,
           TreeFiles, TreeRow, TreeFails, Drop, DropFails, ReadChildren, Descend, SetTop, Goto, StartErase
    <3> QED BY <1>1, <1>2, <2>1, <3>1
  <2>2. ASSUME UNCHANGED work PROVE \A d \in Client : ActionFits(work'[d])
    BY <2>2
  <2> QED BY <2>1, <2>2 DEF Next, vars, CreateFolder, Upload, MoveFile
<1>3. w = work'[c] /\ ActionFits(work[c]) /\ work[c] \in Work
  BY <1>1, <1>2
<1>4. CASE Finish(c)
  BY <1>1, <1>3, <1>4 DEF Finish, Idle, ActionFits
<1>5. ASSUME NEW f \in Folder, OpenDialog(c, f) PROVE ActionFits(w)
  BY <1>1, <1>3, <1>5 DEF OpenDialog, ActionFits, At, Work
<1>6. ASSUME NEW action \in Actions, NEW target \in Place, DeleteFolder(c, action, target)
      PROVE  ActionFits(w)
  <2>1. /\ w.pc = FirstPc(action) /\ w.action = action
        /\ w.stack = FirstStack(action, work[c].folder) /\ work[c].folder \in Folder
    BY <1>1, <1>3, <1>6 DEF DeleteFolder, Live
  <2>2. Enter(work[c].folder, "children") \in NoFiles
    BY <2>1 DEF Enter, NoFiles
  <2>3. <<Enter(work[c].folder, "children")>> \in Seq(NoFiles)
    BY <2>2
  <2>4. CASE action = "cascade"
    BY <2>1, <2>3, <2>4 DEF FirstPc, FirstStack, ActionFits
  <2>5. CASE action = "cascade-files"
    BY <2>1, <2>5 DEF FirstPc, FirstStack, ActionFits
  <2>6. CASE action \in {"none", "root", "folder"}
    BY <2>1, <2>6 DEF FirstPc, FirstStack, ActionFits
  <2> QED BY <2>4, <2>5, <2>6 DEF Actions
<1>7. CASE work[c].pc \in {"children", "files"} /\ Request(c)
  <2>1. w.pc \in {"files", "drop"} \/ Finish(c)
    BY <1>3, <1>7, RequestKeeps
  <2> QED BY <1>4, <2>1 DEF ActionFits
<1>8. CASE work[c].pc \in {"collect", "erase"} /\ Request(c)
  <2>1. work[c].action = "cascade-files"
    BY <1>3, <1>8 DEF ActionFits
  <2>2. (w.action = "cascade-files" /\ w.pc \in {"collect", "erase", "tree"}) \/ Finish(c)
    BY <1>3, <1>8, <2>1, RequestKeeps
  <2> QED BY <1>4, <2>2 DEF ActionFits
<1>9. CASE work[c].pc = "tree" /\ Request(c)
  <2>1. CASE Finish(c)
    BY <1>4, <2>1
  <2>2. CASE w.action = work[c].action /\ w.pc \in {"tree", "drop"}
    <3>1. SUFFICES ASSUME w.action # "cascade-files", w.pc = "tree" PROVE w.stack \in Seq(NoFiles)
      BY <2>2 DEF ActionFits
    <3>2. work[c].stack \in Seq(NoFiles) /\ work[c].stack # <<>>
      BY <1>1, <1>3, <1>9, <2>2, <3>1 DEF ActionFits, Walking
    <3>3. Top(c) \in NoFiles /\ Tail(work[c].stack) \in Seq(NoFiles)
      BY <3>2, Stacks DEF Top
    <3>4. ASSUME TreeChildren(c) \/ TreeDescended(c) PROVE w.stack \in Seq(NoFiles)
      <4>1. PICK frame \in NoFiles : SetTop(c, frame)
        BY <2>2, <3>1, <3>3, <3>4 DEF TreeChildren, ReadChildren, TreeDescended, NoFiles, Children
      <4>2. w.stack = Replaced(c, frame)
        BY <1>1, <1>3, <4>1 DEF SetTop, Replaced, Work
      <4> QED BY <3>3, <4>2, PushedAny DEF Replaced
    <3>5. ASSUME NEW f \in Folder, TreeDescend(c, f) PROVE w.stack \in Seq(NoFiles)
      <4>1. Enter(f, "children") \in NoFiles /\ [Top(c) EXCEPT !.todo = @ \ {f}] \in NoFiles
        BY <3>3 DEF Enter, NoFiles
      <4>2. w.stack = Called(c, f, "children")
        BY <1>1, <1>3, <3>5 DEF TreeDescend, Descend, Called, Work
      <4> QED BY <3>3, <4>1, <4>2, PushedAny DEF Called
    <3>6. CASE TreeRow(c)
      BY <1>1, <1>3, <3>1, <3>3, <3>6 DEF TreeRow, Work
    <3>7. CASE TreeFiles(c)
      BY <3>3, <3>7 DEF TreeFiles, Step, NoFiles
    <3>8. CASE TreeFails(c)
      BY <1>1, <1>3, <3>1, <3>8 DEF TreeFails, Work
    <3> QED
      BY <1>9, <3>4, <3>5, <3>6, <3>7, <3>8 DEF Request, MoveChildren, MoveContents, CollectFiles,
         CollectChildren, CollectReturn, CollectFails, EraseDone, Erase, EraseFails, CollectDescend,
         ReadChildren, Descend, Drop, DropFails, Step, At
  <2> QED BY <1>3, <1>9, <2>2, <2>1, RequestKeeps
<1>10. ASSUME Request(c) PROVE work[c].pc \in {"children", "files", "collect", "erase", "tree"} \/ Finish(c)
  BY <1>10 DEF Request, MoveChildren, MoveContents, CollectFiles, CollectChildren, CollectReturn,
       CollectFails, EraseDone, Erase, EraseFails, CollectDescend, TreeDescend, TreeChildren,
       TreeDescended, TreeFiles, TreeRow, TreeFails, Drop, DropFails, ReadChildren, Descend, Step, At
<1> QED BY <1>2, <1>4, <1>5, <1>6, <1>7, <1>8, <1>9, <1>10 DEF Dialog, CloseDialog, PatchFolder

(* What the children and the files of a folder in reach are.               *)
LEMMA InReach ==
    ASSUME FoldersAssumption, Inv, HoldersLive, NEW d \in Folder, NEW g \in Reached(d)
    PROVE  Children(g) \subseteq Reached(d) /\ FilesIn(g) \subseteq Found(d)
<1>1. ASSUME NEW h \in Folder, parent[h] = g PROVE h \in Reached(d)
  <2>1. g \in Folder /\ g \in Live
    BY <1>1 DEF Reached, HoldersLive
  <2>2. Under(g, d)
    BY <2>1, FoldersAssumption DEF Live, Place, Reached
  <2>3. Under(h, d)
    BY <1>1, <2>1, <2>2 DEF Under, ClosedUp
  <2> QED BY <2>3 DEF Reached
<1>2. ASSUME NEW x \in File, loc[x] = g PROVE x \in Found(d)
  <2>1. g \in Folder /\ g \in Live
    BY <1>2 DEF Reached, HoldersLive
  <2>2. Under(g, d)
    BY <2>1, FoldersAssumption DEF Live, Place, Reached
  <2> QED BY <1>2, <2>1, <2>2 DEF Found, InSubtree
<1> QED BY <1>1, <1>2 DEF Children, FilesIn

(* A step of a walk that is within its folder leaves it within.            *)
LEMMA WalkStep ==
    ASSUME FoldersAssumption, Inv, HoldersLive, NEW c \in Client, ActionFits(work[c]),
           WalksWithin(work[c]), Request(c)
    PROVE  WalksWithin(work'[c])
<1>1. work \in [Client -> Work] /\ Walking /\ work[c] \in Work
  BY DEF Inv, TypeOK
<1>2. CASE Finish(c)
  BY <1>1, <1>2 DEF Finish, Idle, WalksWithin
<1> DEFINE d == work[c].folder
<1>3. SUFFICES ASSUME work'[c].action = "cascade-files", work[c].action = "cascade-files",
                      work'[c].folder = d, ~Finish(c)
               PROVE  work'[c].names \subseteq Found(d) /\ work'[c].stack \in Seq(Within(d))
  BY <1>2, RequestKeeps DEF WalksWithin
<1>4. work[c].names \subseteq Found(d) /\ work[c].stack \in Seq(Within(d))
  BY <1>3 DEF WalksWithin
<1>5. d \in Folder
  BY <1>1 DEF Walking, Request, MoveChildren, MoveContents, CollectFiles, CollectChildren, CollectReturn,
       CollectFails, EraseDone, Erase, EraseFails, CollectDescend, TreeDescend, TreeChildren,
       TreeDescended, TreeFiles, TreeRow, TreeFails, Drop, DropFails, ReadChildren, Descend, Step, At
<1>6. d \in Reached(d)
  BY <1>5 DEF Reached, Under
<1>7. ASSUME work[c].stack # <<>>
      PROVE  /\ Top(c) \in Within(d) /\ Tail(work[c].stack) \in Seq(Within(d))
             /\ Last(work[c].stack) \in Within(d)
             /\ Len(work[c].stack) # 1 => work[c].stack[2] \in Within(d)
                                          /\ Tail(Tail(work[c].stack)) \in Seq(Within(d))
  BY <1>4, <1>7, Stacks DEF Top
<1>8. work[c].pc \in {"collect", "tree"} => work[c].stack # <<>>
  BY <1>1 DEF Walking
<1>9. ASSUME NEW frame \in Within(d), SetTop(c, frame), work[c].stack # <<>>
      PROVE  work'[c].names = work[c].names /\ work'[c].stack \in Seq(Within(d))
  <2>1. work'[c].names = work[c].names /\ work'[c].stack = Replaced(c, frame)
    BY <1>1, <1>9 DEF SetTop, Replaced, Work
  <2> QED BY <1>7, <1>9, <2>1, PushedAny DEF Replaced
<1>10. ASSUME NEW names \in SUBSET Found(d), StartErase(c, names)
       PROVE  work'[c].names \subseteq Found(d) /\ work'[c].stack \in Seq(Within(d))
  <2>1. work'[c].names = names /\ work'[c].stack = <<>>
    BY <1>1, <1>10 DEF StartErase, Work
  <2> QED BY <2>1
<1> HIDE DEF d
<1>11. CASE MoveChildren(c) \/ MoveContents(c)
  <2>1. work'[c].names = work[c].names /\ work'[c].stack = work[c].stack
    BY <1>1, <1>11 DEF MoveChildren, MoveContents, Goto, Work
  <2> QED BY <1>4, <2>1
<1>12. CASE CollectFiles(c) \/ CollectChildren(c) \/ TreeChildren(c) \/ TreeDescended(c) \/ TreeFiles(c)
  <2>1. work[c].stack # <<>>
    BY <1>8, <1>12 DEF CollectFiles, CollectChildren, TreeChildren, TreeDescended, TreeFiles,
         ReadChildren, Step, At
  <2>2. Children(Top(c).folder) \subseteq Reached(d) /\ FilesIn(Top(c).folder) \subseteq Found(d)
    BY <1>5, <1>7, <2>1, InReach, FoldersAssumption DEF Within
  <2>3. \E frame \in Within(d) : SetTop(c, frame)
    BY <1>3, <1>7, <1>12, <2>1, <2>2 DEF CollectFiles, CollectChildren, TreeChildren, TreeDescended,
         TreeFiles, ReadChildren, Within
  <2> QED BY <1>4, <1>9, <2>1, <2>3
<1>13. ASSUME NEW f \in Folder, NEW pc \in {"collect", "tree"}, NEW step \in {"files", "children"},
              Descend(c, pc, f, step)
       PROVE  work'[c].names \subseteq Found(d) /\ work'[c].stack \in Seq(Within(d))
  <2>1. work[c].stack # <<>> /\ f \in Top(c).todo
    BY <1>8, <1>13 DEF Descend, Step, At
  <2>2. Enter(f, step) \in Within(d) /\ [Top(c) EXCEPT !.todo = @ \ {f}] \in Within(d)
    BY <1>7, <2>1 DEF Enter, Within
  <2>3. work'[c].names = work[c].names /\ work'[c].stack = Called(c, f, step)
    BY <1>1, <1>13 DEF Descend, Called, Work
  <2> QED BY <1>4, <1>7, <2>1, <2>2, <2>3, PushedAny DEF Called
<1>14. CASE CollectReturn(c)
  <2>1. work[c].stack # <<>>
    BY <1>8, <1>14 DEF CollectReturn, Step, At
  <2>2. CASE Len(work[c].stack) = 1
    <3>1. StartErase(c, Top(c).names) /\ Top(c).names \in SUBSET Found(d)
      BY <1>7, <1>14, <2>1, <2>2 DEF CollectReturn, Within
    <3> QED BY <1>10, <3>1
  <2>3. CASE Len(work[c].stack) # 1
    <3> DEFINE caller == [work[c].stack[2] EXCEPT !.names = @ \union Top(c).names]
    <3>1. caller \in Within(d)
      BY <1>7, <2>1, <2>3 DEF Within
    <3>2. work' = [work EXCEPT ![c].stack = Returned(c)]
      BY <1>14, <2>3 DEF CollectReturn
    <3>3. work'[c].names = work[c].names /\ work'[c].stack = Returned(c)
      BY <1>1, <3>2 DEF Work
    <3>4. Returned(c) = <<caller>> \o Tail(Tail(work[c].stack))
      BY DEF Returned
    <3> HIDE DEF caller
    <3>5. Tail(Tail(work[c].stack)) \in Seq(Within(d))
      BY <1>7, <2>1, <2>3
    <3>6. <<caller>> \o Tail(Tail(work[c].stack)) \in Seq(Within(d))
      BY <3>1, <3>5, PushedAny
    <3> QED BY <1>4, <3>3, <3>4, <3>6
  <2> QED BY <2>2, <2>3
<1>15. CASE CollectFails(c)
  <2>1. StartErase(c, Last(work[c].stack).names) /\ work[c].stack # <<>>
    BY <1>8, <1>15 DEF CollectFails, At
  <2>2. Last(work[c].stack).names \in SUBSET Found(d)
    BY <1>7, <2>1 DEF Within
  <2> QED BY <1>10, <2>1, <2>2
<1>16. ASSUME NEW x \in File, Erase(c, x) \/ EraseFails(c, x)
       PROVE  work'[c].names \subseteq Found(d) /\ work'[c].stack \in Seq(Within(d))
  <2>1. work'[c].names = work[c].names \ {x} /\ work'[c].stack = work[c].stack
    BY <1>1, <1>16 DEF Erase, EraseFails, Work
  <2> QED BY <1>4, <2>1
<1>17. CASE EraseDone(c)
  <2>1. work'[c].names = work[c].names /\ work'[c].stack = <<Enter(d, "children")>>
    BY <1>1, <1>17 DEF EraseDone, Work, d
  <2>2. Enter(d, "children") \in Within(d)
    BY <1>6 DEF Enter, Within
  <2> QED BY <1>4, <2>1, <2>2
<1>18. CASE TreeRow(c) \/ TreeFails(c)
  <2>1. work[c].stack # <<>>
    BY <1>8, <1>18 DEF TreeRow, TreeFails, Step, At
  <2>2. CASE work' = [work EXCEPT ![c].pc = "drop", ![c].stack = <<>>]
    <3>1. work'[c].names = work[c].names /\ work'[c].stack = <<>>
      BY <1>1, <2>2 DEF Work
    <3> QED BY <1>4, <3>1
  <2>3. CASE work' = [work EXCEPT ![c].stack = Tail(work[c].stack)]
    <3>1. work'[c].names = work[c].names /\ work'[c].stack = Tail(work[c].stack)
      BY <1>1, <2>3 DEF Work
    <3> QED BY <1>4, <1>7, <2>1, <3>1
  <2> QED BY <1>18, <2>2, <2>3 DEF TreeRow, TreeFails
<1> QED BY <1>3, <1>11, <1>12, <1>13, <1>14, <1>15, <1>16, <1>17, <1>18
        DEF Request, CollectDescend, TreeDescend, Drop, DropFails

-----------------------------------------------------------------------------
(* The invariant of SettledSpec.                                           *)
SettledStepped == [Next /\ Watch]_<<vars, histories>>

LEMMA SettledStep ==
    ASSUME FoldersAssumption, Inv, SettledInv, SettledStepped
    PROVE  Inv' /\ SettledInv'
<1>1. [Next]_vars /\ work \in [Client -> Work] /\ Walking
      /\ HoldersLive /\ WithinReach /\ \A c \in Client : ActionFits(work[c])
  BY DEF SettledStepped, SettledInv, Inv, TypeOK
<1>2. Inv' /\ HoldersLive' /\ RowsAge
  BY <1>1, TypeStep, HoldersStep
<1>3. \A c \in Client : ActionFits(work'[c])
  BY <1>1, ActionStep
<1>4. (\A c \in Client : ActionFits(work[c]))'
  BY <1>3 DEF ActionFits
<1>5. SUFFICES ASSUME ~moved', NEW c \in Client, work'[c].action = "cascade-files"
               PROVE  WalksWithin(work[c])'
  BY <1>2, <1>4 DEF SettledInv, WithinReach, WalksWithin
<1>6. work'[c].pc \notin {"idle", "dialog"}
  BY <1>3, <1>5 DEF ActionFits
<1>7. CASE UNCHANGED <<vars, histories>>
  <2>1. WalksWithin(work[c])
    BY <1>1, <1>5, <1>7 DEF WithinReach, histories
  <2> QED BY <1>7, <2>1 DEF vars, histories, WalksWithin, Found, Reached, Within, InSubtree, Under, ClosedUp
<1>8. CASE Next /\ Watch
  <2>1. ~moved /\ ~Moves
    BY <1>5, <1>6, <1>8 DEF Watch, Quiet
  <2>2. WalksWithin(work[c]) /\ ActionFits(work[c])
    BY <1>1, <2>1 DEF WithinReach
  <2>3. WalksWithin(work'[c]) /\ work'[c].folder \in Folder
    <3>1. CASE Request(c)
      <4>1. WalksWithin(work'[c])
        BY <1>1, <2>2, <3>1, WalkStep, FoldersAssumption
      <4> QED BY <1>2, <1>6, <4>1 DEF Inv, Walking
    <3>2. CASE Dialog(c)
      <4>1. PICK action \in Actions, target \in Place : DeleteFolder(c, action, target)
        <5>1. ~Finish(c)
          BY <1>1, <1>6 DEF Finish, Idle
        <5>2. \A f \in Folder : ~OpenDialog(c, f)
          BY <1>1, <1>6 DEF OpenDialog, Work
        <5> QED BY <3>2, <5>1, <5>2 DEF Dialog, CloseDialog, PatchFolder
      <4>2. work'[c].names = {} /\ work[c].folder \in Folder /\ work'[c].folder = work[c].folder
            /\ work'[c].stack = FirstStack(action, work[c].folder) /\ work'[c].action = action
        BY <1>1, <4>1 DEF DeleteFolder, Live
      <4>3. work'[c].stack = <<Enter(work[c].folder, "files")>>
        BY <1>5, <4>2 DEF FirstStack
      <4>4. work[c].folder \in Reached(work[c].folder)
        BY <4>2 DEF Reached, Under
      <4>5. Enter(work[c].folder, "files") \in Within(work[c].folder)
        BY <4>4 DEF Enter, Within
      <4>6. <<Enter(work[c].folder, "files")>> \in Seq(Within(work[c].folder))
        BY <4>5
      <4> QED BY <4>2, <4>3, <4>6 DEF WalksWithin
    <3>3. CASE work'[c] = work[c]
      BY <1>2, <1>6, <2>2, <3>3 DEF Inv, Walking
    <3>4. \/ \E b \in Client : Dialog(b) \/ Request(b)
          \/ UNCHANGED work
      BY <1>8 DEF Next, CreateFolder, Upload, MoveFile
    <3>5. ASSUME NEW b \in Client, Dialog(b) \/ Request(b), b # c PROVE work'[c] = work[c]
      BY <1>1, <3>5 DEF Dialog, CloseDialog, OpenDialog, PatchFolder, DeleteFolder, Finish, Request,
         MoveChildren, MoveContents, CollectFiles, CollectChildren, CollectReturn, CollectFails,
         EraseDone, Erase, EraseFails, CollectDescend, TreeDescend, TreeChildren, TreeDescended,
         TreeFiles, TreeRow, TreeFails, Drop, DropFails, ReadChildren, Descend, SetTop, Goto, StartErase
    <3> QED BY <3>1, <3>2, <3>3, <3>4, <3>5
  <2>4. PICK d \in Folder : d = work'[c].folder
    BY <2>3
  <2>5. Reached(d) \subseteq Reached(d)' /\ Found(d) \subseteq Found(d)'
    BY <1>1, <1>2, <2>1, StaysReached, FoldersAssumption
  <2>6. Within(d) \subseteq Within(d)'
    BY <2>5 DEF Within
  <2>7. work'[c].names \subseteq Found(d) /\ work'[c].stack \in Seq(Within(d))
    BY <1>5, <2>3, <2>4 DEF WalksWithin
  <2>8. work'[c].stack \in Seq(Within(d)')
    BY <2>6, <2>7, SubsetSeqs
  <2>9. work'[c].names \subseteq Found(d)' /\ work'[c].stack \in Seq(Within(d)')
    BY <2>5, <2>7, <2>8
  <2>10. ASSUME NEW e, e = d PROVE Found(e)' = Found(d)' /\ Within(e)' = Within(d)'
    BY <2>10
  <2> QED BY <2>4, <2>9, <2>10 DEF WalksWithin
<1> QED BY <1>7, <1>8 DEF SettledStepped

(* What a step destroys, a cascade-files deletion had in its subtree.      *)
LEMMA DestroyStep ==
    ASSUME FoldersAssumption, Inv, SettledInv, ~moved, Next
    PROVE  DestroysOnlyWithin
<1>1. /\ loc \in [File -> Place \union {Gone, Unborn}] /\ work \in [Client -> Work] /\ Walking
      /\ HoldersLive /\ \A c \in Client : WalksWithin(work[c]) /\ ActionFits(work[c])
  BY DEF SettledInv, WithinReach, Inv, TypeOK
<1>2. SUFFICES ASSUME NEW x \in Listed, loc'[x] = Gone \/ x \in object \ object'
               PROVE  \E c \in Client : work[c].action = "cascade-files" /\ InSubtree(x, work[c].folder)
  BY DEF DestroysOnlyWithin
<1>3. x \in File /\ loc[x] # Gone /\ Gone \notin Place
  BY FoldersAssumption DEF Listed, Place
<1>4. ASSUME NEW c \in Client, work[c].action = "cascade-files", x \in Found(work[c].folder)
      PROVE  \E b \in Client : work[b].action = "cascade-files" /\ InSubtree(x, work[b].folder)
  BY <1>3, <1>4 DEF Found
<1>5. CASE x \in object \ object'
  <2>1. PICK c \in Client : Erase(c, x)
    <3>1. \A c \in Client : ~Dialog(c)
      BY <1>5 DEF Dialog, CloseDialog, OpenDialog, PatchFolder, DeleteFolder
    <3>2. /\ \A f \in Folder, p \in Place : ~CreateFolder(f, p)
          /\ \A y \in File, p \in Place : ~Upload(y, p) /\ ~MoveFile(y, p)
      BY <1>5 DEF CreateFolder, Upload, MoveFile
    <3>3. PICK c \in Client : Request(c)
      BY <3>1, <3>2 DEF Next
    <3>4. PICK y \in File : Erase(c, y)
      BY <1>5, <3>3 DEF Request, MoveChildren, MoveContents, CollectFiles, CollectChildren, CollectReturn,
         CollectFails, EraseDone, EraseFails, CollectDescend, TreeDescend, TreeChildren, TreeDescended,
         TreeFiles, TreeRow, TreeFails, Drop, DropFails
    <3>5. y = x
      BY <1>5, <3>4 DEF Erase
    <3> QED BY <3>4, <3>5
  <2>2. work[c].action = "cascade-files" /\ x \in work[c].names
    BY <1>1, <2>1 DEF Erase, At, ActionFits
  <2> QED BY <1>1, <1>4, <2>2 DEF WalksWithin
<1>6. CASE loc'[x] = Gone
  <2>1. loc'[x] # loc[x] /\ ~\E f : DeleteRow(f)
    BY <1>2, <1>3, <1>6, FoldersAssumption DEF DeleteRow
  <2>2. PICK c \in Client : TreeFiles(c)
    <3>1. \A c \in Client : ~MoveContents(c)
      BY <1>2, <1>3, <1>6, FoldersAssumption DEF MoveContents, Live
    <3>2. \A y \in File, p \in Place : ~Upload(y, p) /\ ~MoveFile(y, p)
      BY <1>1, <1>3, <1>6 DEF Upload, MoveFile
    <3>3. /\ \A c \in Client : ~Dialog(c)
          /\ \A f \in Folder, p \in Place : ~CreateFolder(f, p)
      BY <2>1 DEF Dialog, CloseDialog, OpenDialog, PatchFolder, DeleteFolder, CreateFolder
    <3>4. PICK c \in Client : Request(c)
      BY <3>2, <3>3 DEF Next
    <3>5. TreeFiles(c)
      BY <2>1, <3>1, <3>4 DEF Request, MoveChildren, CollectFiles, CollectChildren, CollectReturn,
         CollectFails, EraseDone, Erase, EraseFails, CollectDescend, TreeDescend, TreeChildren,
         TreeDescended, TreeRow, TreeFails, Drop, DropFails
    <3> QED BY <3>5
  <2>3. work[c].pc = "tree" /\ work[c].stack # <<>> /\ Top(c).step = "files" /\ loc[x] = Top(c).folder
    BY <1>1, <1>3, <1>6, <2>1, <2>2 DEF TreeFiles, Step, At, Walking
  <2>4. work[c].action = "cascade-files"
    <3>1. ASSUME work[c].stack \in Seq(NoFiles) PROVE Top(c) \in NoFiles
      BY <2>3, <3>1, Stacks DEF Top
    <3> QED BY <1>1, <2>3, <3>1 DEF ActionFits, NoFiles
  <2>5. work[c].stack \in Seq(Within(work[c].folder)) /\ work[c].folder \in Folder
    BY <1>1, <2>3, <2>4 DEF WalksWithin, Walking
  <2>6. Top(c) \in Within(work[c].folder)
    BY <2>3, <2>5, Stacks DEF Top
  <2>7. x \in FilesIn(Top(c).folder) /\ Top(c).folder \in Reached(work[c].folder)
    BY <1>3, <2>3, <2>6 DEF FilesIn, Within
  <2>8. x \in Found(work[c].folder)
    BY <1>1, <2>5, <2>7, InReach, FoldersAssumption
  <2> QED BY <1>4, <2>4, <2>8
<1> QED BY <1>2, <1>5, <1>6

(* Any number of tabs, folders and files, every deletion and every other   *)
(* request of the API at once, and calls that fail anywhere: unless a      *)
(* folder or a file is moved while it runs, a cascade-files deletion       *)
(* destroys no row and no object outside the subtree it was given.         *)
THEOREM DeletesOnlyWithin == SettledSpec => OnlyWithin
<1>1. Init /\ moved = FALSE /\ disturbed = FALSE => Inv /\ SettledInv
  <2> SUFFICES ASSUME Init PROVE Inv /\ SettledInv
    OBVIOUS
  <2>1. Idle \in Work /\ Idle.pc = "idle" /\ Idle.action = "none"
    BY EmptySeq DEF Idle, Work, Pcs, Place, Actions
  <2>2. Inv
    BY <2>1 DEF Init, Inv, TypeOK, Walking, Listed, Live, Place
  <2>3. HoldersLive
    BY FoldersAssumption DEF Init, HoldersLive
  <2>4. \A c \in Client : ActionFits(work[c]) /\ WalksWithin(work[c])
    BY <2>1 DEF Init, ActionFits, WalksWithin
  <2> QED BY <2>2, <2>3, <2>4 DEF SettledInv, WithinReach
<1>2. Inv /\ SettledInv /\ [Next /\ Watch]_<<vars, histories>> => Inv' /\ SettledInv'
  BY SettledStep, FoldersAssumption DEF SettledStepped
<1>3. Inv /\ SettledInv /\ [Next /\ Watch]_<<vars, histories>> => [~moved => DestroysOnlyWithin]_vars
  BY DestroyStep, FoldersAssumption
<1> QED BY <1>1, <1>2, <1>3, PTL DEF SettledSpec, OnlyWithin

-----------------------------------------------------------------------------
(* Deletions are exact.  While only deletions with all files are under way *)
(* files only go: of every subtree there remains what is still listed.     *)

LEMMA Indices ==
    ASSUME NEW S, NEW s \in Seq(S), s # <<>>, NEW a \in S, NEW b \in S
    PROVE  /\ Len(s) \in Nat \ {0} /\ \A i \in 1..Len(s) : s[i] \in S
           /\ Len(<<a>> \o Tail(s)) = Len(s)
           /\ \A i \in 1..Len(s) : (<<a>> \o Tail(s))[i] = IF i = 1 THEN a ELSE s[i]
           /\ Len(<<a, b>> \o Tail(s)) = Len(s) + 1
           /\ \A i \in 1..(Len(s) + 1) :
                (<<a, b>> \o Tail(s))[i] = IF i = 1 THEN a ELSE IF i = 2 THEN b ELSE s[i - 1]
           /\ Len(Tail(s)) = Len(s) - 1
           /\ \A i \in 1..(Len(s) - 1) : Tail(s)[i] = s[i + 1]
           /\ Len(s) # 1 =>
                /\ Len(<<a>> \o Tail(Tail(s))) = Len(s) - 1
                /\ \A i \in 1..(Len(s) - 1) :
                     (<<a>> \o Tail(Tail(s)))[i] = IF i = 1 THEN a ELSE s[i + 1]
<1>1. Len(s) \in Nat \ {0} /\ \A i \in 1..Len(s) : s[i] \in S
  BY LenProperties, EmptySeq, ElementOfSeq
<1>2. /\ Tail(s) \in Seq(S) /\ Len(Tail(s)) = Len(s) - 1
      /\ \A i \in 1..(Len(s) - 1) : Tail(s)[i] = s[i + 1]
  BY <1>1, HeadTailProperties
<1>3. <<a>> \in Seq(S) /\ Len(<<a>>) = 1 /\ <<a>>[1] = a
  OBVIOUS
<1>4. <<a, b>> \in Seq(S) /\ Len(<<a, b>>) = 2 /\ <<a, b>>[1] = a /\ <<a, b>>[2] = b
  OBVIOUS
<1>5. /\ Len(<<a>> \o Tail(s)) = Len(s)
      /\ \A i \in 1..Len(s) : (<<a>> \o Tail(s))[i] = IF i = 1 THEN a ELSE s[i]
  BY <1>1, <1>2, <1>3, ConcatProperties
<1>6. /\ Len(<<a, b>> \o Tail(s)) = Len(s) + 1
      /\ \A i \in 1..(Len(s) + 1) :
           (<<a, b>> \o Tail(s))[i] = IF i = 1 THEN a ELSE IF i = 2 THEN b ELSE s[i - 1]
  BY <1>1, <1>2, <1>4, ConcatProperties
<1>7. ASSUME Len(s) # 1
      PROVE  /\ Len(<<a>> \o Tail(Tail(s))) = Len(s) - 1
             /\ \A i \in 1..(Len(s) - 1) :
                  (<<a>> \o Tail(Tail(s)))[i] = IF i = 1 THEN a ELSE s[i + 1]
  <2>1. Tail(s) # <<>>
    BY <1>2, <1>7, Stacks
  <2>2. /\ Tail(Tail(s)) \in Seq(S) /\ Len(Tail(Tail(s))) = Len(s) - 2
        /\ \A i \in 1..(Len(s) - 2) : Tail(Tail(s))[i] = s[i + 2]
    <3>1. /\ Tail(Tail(s)) \in Seq(S) /\ Len(Tail(Tail(s))) = Len(Tail(s)) - 1
          /\ \A i \in 1..(Len(Tail(s)) - 1) : Tail(Tail(s))[i] = Tail(s)[i + 1]
      BY <1>2, <2>1, HeadTailProperties
    <3> QED BY <1>1, <1>2, <3>1
  <2> QED BY <1>1, <1>3, <1>7, <2>2, ConcatProperties
<1> QED BY <1>1, <1>2, <1>5, <1>6, <1>7

(* What there is below a folder is in it or below a child of it.           *)
LEMMA SubParts ==
    ASSUME Inv, NEW g \in Folder
    PROVE  /\ FilesIn(g) \subseteq Sub(g)
           /\ Sub(g) \subseteq FilesIn(g) \union SubsOf(Children(g))
           /\ \A h \in Children(g) : h \in Folder /\ Sub(h) \subseteq Sub(g)
<1>1. ASSUME NEW x \in FilesIn(g) PROVE x \in Sub(g)
  BY DEF FilesIn, Sub, InSubtree, Listed, Place, Under
<1>2. ASSUME NEW h \in Folder, parent[h] = g PROVE Sub(h) \subseteq Sub(g)
  BY <1>2 DEF Sub, InSubtree, Under, ClosedUp
<1>3. ASSUME NEW x \in Sub(g), loc[x] # g PROVE \E h \in Children(g) : x \in Sub(h)
  <2>1. PICK k \in Folder : k = loc[x] /\ Under(k, g) /\ k # g /\ x \in Listed
    BY <1>3 DEF Sub, InSubtree
  <2> DEFINE W == {u \in Folder : Under(k, u)}
  <2>2. k \in W \ {g} /\ W \ {g} \in SUBSET Folder
    BY <2>1 DEF Under
  <2>3. ~ClosedUp(W \ {g})
    BY <2>1, <2>2 DEF Under
  <2>4. PICK u \in W \ {g} : parent[u] \in Folder /\ parent[u] \notin W \ {g}
    BY <2>3 DEF ClosedUp
  <2>5. Under(k, parent[u])
    BY <2>4 DEF Under, ClosedUp
  <2>6. parent[u] = g
    BY <2>4, <2>5
  <2>7. u \in Children(g) /\ x \in Sub(u)
    BY <2>1, <2>4, <2>6 DEF Children, Sub, InSubtree
  <2> QED BY <2>7
<1>4. Sub(g) \subseteq FilesIn(g) \union SubsOf(Children(g))
  <2> SUFFICES ASSUME NEW x \in Sub(g), x \notin FilesIn(g) PROVE x \in SubsOf(Children(g))
    OBVIOUS
  <2>1. x \in Listed /\ x \in File /\ loc[x] # g
    BY DEF Sub, FilesIn, Listed
  <2> QED BY <1>3, <2>1 DEF SubsOf
<1> QED BY <1>1, <1>2, <1>4 DEF Children

Thinned ==
    /\ \A g \in Folder : Sub(g)' = Sub(g) \intersect Listed' /\ FilesIn(g)' = FilesIn(g) \intersect Listed'
    /\ Listed' \subseteq Listed /\ object' \subseteq object

LEMMA SameChains ==
    ASSUME NEW F \in SUBSET Folder, ClosedUp(F), \A u \in F : parent'[u] = parent[u],
           NEW k \in F, NEW g \in Folder
    PROVE  Under(k, g)' <=> Under(k, g)
<1>1. ASSUME Under(k, g) PROVE Under(k, g)'
  <2>1. SUFFICES ASSUME NEW U \in SUBSET Folder, k \in U, ClosedUp(U)' PROVE g \in U
    BY DEF Under
  <2>2. ClosedUp(U \intersect F) /\ k \in U \intersect F
    BY <2>1 DEF ClosedUp
  <2> QED BY <1>1, <2>2 DEF Under
<1>2. ASSUME Under(k, g)' PROVE Under(k, g)
  <2>1. SUFFICES ASSUME NEW U \in SUBSET Folder, k \in U, ClosedUp(U) PROVE g \in U
    BY DEF Under
  <2>2. ClosedUp(U \intersect F)' /\ k \in U \intersect F
    BY <2>1 DEF ClosedUp
  <2> QED BY <1>2, <2>2 DEF Under
<1> QED BY <1>1, <1>2

(* A step that only takes files away, and leaves the chains of the others. *)
LEMMA ThinnedBy ==
    ASSUME object' \subseteq object, Listed' \subseteq Listed, \A x \in Listed' : loc'[x] = loc[x],
           \A x \in Listed', g \in Folder : loc[x] \in Folder => (Under(loc[x], g)' <=> Under(loc[x], g))
    PROVE  Thinned
<1> SUFFICES ASSUME NEW g \in Folder
             PROVE  Sub(g)' = Sub(g) \intersect Listed' /\ FilesIn(g)' = FilesIn(g) \intersect Listed'
  BY DEF Thinned
<1>1. FilesIn(g)' = FilesIn(g) \intersect Listed'
  BY DEF FilesIn, Listed, Place
<1>2. ASSUME NEW x \in Listed' PROVE InSubtree(x, g)' <=> InSubtree(x, g)
  <2>1. loc'[x] = loc[x]
    OBVIOUS
  <2>2. CASE loc[x] \in Folder
    <3>1. PICK k \in Folder : k = loc[x]
      BY <2>2
    <3>2. Under(k, g)' <=> Under(k, g)
      BY <3>1
    <3> QED BY <2>1, <3>1, <3>2 DEF InSubtree
  <2>3. CASE loc[x] \notin Folder
    BY <2>1, <2>3 DEF InSubtree
  <2> QED BY <2>2, <2>3
<1> QED BY <1>1, <1>2 DEF Sub

LEMMA StillThins ==
    ASSUME parent' = parent, loc' = loc, object' \subseteq object
    PROVE  Thinned /\ Listed' = Listed
<1>1. Listed' = Listed /\ \A x \in Listed' : loc'[x] = loc[x]
  BY DEF Listed
<1>2. \A k, g \in Folder : Under(k, g)' <=> Under(k, g)
  BY DEF Under, ClosedUp
<1> QED BY <1>1, <1>2, ThinnedBy

LEMMA RowThins ==
    ASSUME FoldersAssumption, Inv, NEW f \in Folder, DeleteRow(f), Sub(f) = {}, object' = object
    PROVE  Thinned /\ Listed' = Listed
<1>1. FilesIn(f) = {}
  BY SubParts
<1>2. Listed' = Listed /\ loc' = loc
  BY <1>1 DEF DeleteRow, Listed, FilesIn, Inv, TypeOK
<1>3. ASSUME NEW x \in Listed, NEW g \in Folder, loc[x] \in Folder
      PROVE  Under(loc[x], g)' <=> Under(loc[x], g)
  <2>1. PICK k \in Folder : k = loc[x]
    BY <1>3
  <2>2. ~Under(k, f)
    BY <2>1 DEF Sub, InSubtree
  <2>3. PICK F \in SUBSET Folder : k \in F /\ ClosedUp(F) /\ f \notin F
    BY <2>2 DEF Under
  <2>4. \A u \in F : parent'[u] = parent[u]
    BY <2>3 DEF DeleteRow, ClosedUp
  <2>5. Under(k, g)' <=> Under(k, g)
    BY <2>3, <2>4, SameChains
  <2> QED BY <1>2, <2>1, <2>5
<1> QED BY <1>2, <1>3, ThinnedBy

LEMMA CreateThins ==
    ASSUME FoldersAssumption, Inv, HoldersLive, NEW f \in Folder, NEW p \in Place, CreateFolder(f, p)
    PROVE  Thinned /\ Listed' = Listed
<1>1. /\ parent \in [Folder -> Place \union {Gone, Unborn}] /\ parent[f] = Unborn
      /\ parent' = [parent EXCEPT ![f] = p] /\ loc' = loc /\ object' = object
  BY DEF CreateFolder, Inv, TypeOK
<1>2. f \notin Live /\ Listed' = Listed
  BY <1>1, FoldersAssumption DEF Live, Place, Listed
<1>3. \A u \in Folder \ {f} : parent'[u] = parent[u] /\ parent[u] # f
  BY <1>1, <1>2 DEF HoldersLive
<1>4. ClosedUp(Folder \ {f})
  BY <1>3 DEF ClosedUp
<1>5. ASSUME NEW x \in Listed, NEW g \in Folder, loc[x] \in Folder
      PROVE  Under(loc[x], g)' <=> Under(loc[x], g)
  <2>1. PICK k \in Folder \ {f} : k = loc[x]
    BY <1>2, <1>5 DEF HoldersLive, Listed
  <2>2. Under(k, g)' <=> Under(k, g)
    BY <1>3, <1>4, SameChains
  <2> QED BY <1>1, <2>1, <2>2
<1> QED BY <1>1, <1>2, <1>5, ThinnedBy

LEMMA FilesThin ==
    ASSUME FoldersAssumption, Inv, NEW c \in Client, TreeFiles(c)
    PROVE  Thinned /\ Listed' = Listed \ FilesIn(Top(c).folder)
<1>1. Top(c).folder \in Folder
  BY TopFrame DEF TreeFiles, Step, At, Frame
<1>2. /\ loc' = [x \in File |-> IF loc[x] = Top(c).folder THEN Gone ELSE loc[x]]
      /\ parent' = parent /\ object' = object
  BY DEF TreeFiles
<1>3. Listed' = Listed \ FilesIn(Top(c).folder) /\ \A x \in Listed' : loc'[x] = loc[x]
  BY <1>1, <1>2, FoldersAssumption DEF Listed, FilesIn, Place
<1>4. \A k, g \in Folder : Under(k, g)' <=> Under(k, g)
  BY <1>2 DEF Under, ClosedUp
<1> QED BY <1>2, <1>3, <1>4, ThinnedBy

(* What a walk has still to do only shrinks under it.                      *)
LEMMA LeftThins ==
    ASSUME Thinned, NEW frame \in Frame
    PROVE  /\ CollectLeft(frame)' = CollectLeft(frame) \intersect Listed'
           /\ TreeLeft(frame)' = TreeLeft(frame) \intersect Listed'
<1>1. frame.folder \in Folder /\ frame.todo \in SUBSET Folder
      /\ frame.step \in {"files", "children", "each", "row"}
  BY DEF Frame
<1>2. SubsOf(frame.todo)' = SubsOf(frame.todo) \intersect Listed'
  BY <1>1 DEF SubsOf, Thinned
<1>3. /\ Sub(frame.folder)' = Sub(frame.folder) \intersect Listed'
      /\ FilesIn(frame.folder)' = FilesIn(frame.folder) \intersect Listed'
  BY <1>1 DEF Thinned
<1>4. CASE frame.step = "files"
  BY <1>3, <1>4 DEF CollectLeft, TreeLeft
<1>5. CASE frame.step = "children"
  BY <1>3, <1>5 DEF CollectLeft, TreeLeft
<1>6. CASE frame.step = "each"
  BY <1>2, <1>3, <1>6 DEF CollectLeft, TreeLeft
<1>7. CASE frame.step = "row"
  BY <1>2, <1>3, <1>7 DEF CollectLeft, TreeLeft
<1> QED BY <1>1, <1>4, <1>5, <1>6, <1>7

LEMMA ThinKeeps ==
    ASSUME Thinned, NEW w \in Work, w.folder \in Folder, Sound(w), Covers(w),
           w.pc \in {"collect", "tree"} => w.stack # <<>>
    PROVE  Sound(w)' /\ Covers(w)'
<1> DEFINE d == w.folder
<1>1. Sub(d)' = Sub(d) \intersect Listed' /\ Listed' \subseteq Listed /\ object' \subseteq object
  BY DEF Thinned
<1>2. Inside(d) \subseteq Inside(d)' /\ Meant(d) \subseteq Meant(d)'
  BY <1>1 DEF Inside, Meant, Thinned
<1>3. Sound(w)'
  <2>1. Inner(d) \subseteq Inner(d)'
    BY <1>2 DEF Inner
  <2>2. w.stack \in Seq(Inner(d)')
    BY <2>1, SubsetSeqs DEF Sound
  <2> QED BY <1>2, <2>2 DEF Sound
<1>4. ASSUME NEW i \in 1..Len(w.stack)
      PROVE  /\ w.stack[i] \in Frame
             /\ Handed(w.stack, i)' = Handed(w.stack, i) \intersect Listed'
             /\ Sub(w.stack[i].folder)' = Sub(w.stack[i].folder) \intersect Listed'
  <2>1. w.stack \in Seq(Frame)
    BY DEF Work
  <2>2. \A j \in 1..Len(w.stack) : w.stack[j] \in Frame
    BY <2>1, ElementOfSeq
  <2>3. \A frame \in Frame : Sub(frame.folder)' = Sub(frame.folder) \intersect Listed'
    BY DEF Thinned, Frame
  <2>4. i = 1 \/ i - 1 \in 1..Len(w.stack)
    BY <2>1, LenProperties
  <2> QED BY <2>2, <2>3, <2>4 DEF Handed
<1>5. Covers(w)'
  <2>1. ASSUME w.pc = "collect", NEW i \in 1..Len(w.stack)
        PROVE  (Sub(w.stack[i].folder) \intersect object
                  \subseteq w.stack[i].names \union CollectLeft(w.stack[i]) \union Handed(w.stack, i))'
    <3>1. Sub(w.stack[i].folder) \intersect object
            \subseteq w.stack[i].names \union CollectLeft(w.stack[i]) \union Handed(w.stack, i)
      BY <2>1 DEF Covers
    <3>2. CollectLeft(w.stack[i])' = CollectLeft(w.stack[i]) \intersect Listed'
      BY <1>4, LeftThins
    <3> QED BY <1>1, <1>4, <3>1, <3>2
  <2>2. ASSUME w.pc = "tree", NEW i \in 1..Len(w.stack)
        PROVE  (Sub(w.stack[i].folder) \subseteq TreeLeft(w.stack[i]) \union Handed(w.stack, i))'
    <3>1. Sub(w.stack[i].folder) \subseteq TreeLeft(w.stack[i]) \union Handed(w.stack, i)
      BY <2>2 DEF Covers
    <3>2. TreeLeft(w.stack[i])' = TreeLeft(w.stack[i]) \intersect Listed'
      BY <1>4, LeftThins
    <3> QED BY <1>1, <1>4, <3>1, <3>2
  <2>3. (w.pc = "erase" => Sub(d)' \intersect object' \subseteq w.names)
        /\ (w.pc = "tree" => Sub(d)' \intersect object' = {}) /\ (w.pc = "drop" => Sub(d)' = {})
    BY <1>1 DEF Covers
  <2> QED BY <2>1, <2>2, <2>3 DEF Covers
<1> QED BY <1>3, <1>5

-----------------------------------------------------------------------------
(* The forms in which the stack of a walk changes, for a walk w of folder  *)
(* w.folder that goes on as v.                                             *)
Walk(w) == /\ w \in Work /\ w.folder \in Folder /\ w.stack # <<>> /\ w.pc \in {"collect", "tree"}
           /\ Sound(w) /\ Covers(w)

Follows(w, v) == v.pc = w.pc /\ v.folder = w.folder /\ v.names = w.names

CoversTop(pc, frame) ==
    /\ pc = "collect" => Sub(frame.folder) \intersect object \subseteq frame.names \union CollectLeft(frame)
    /\ pc = "tree" => Sub(frame.folder) \subseteq TreeLeft(frame)

LEMMA WalkFacts ==
    ASSUME NEW w, Walk(w)
    PROVE  /\ w.stack \in Seq(Inner(w.folder)) /\ Len(w.stack) \in Nat \ {0}
           /\ \A i \in 1..Len(w.stack) : w.stack[i] \in Inner(w.folder)
           /\ Head(w.stack) = w.stack[1] /\ Tail(w.stack) \in Seq(Inner(w.folder))
           /\ w.stack[Len(w.stack)].folder = w.folder
           /\ CoversTop(w.pc, w.stack[1])
           /\ Len(w.stack) # 1 => Tail(w.stack) # <<>> /\ Tail(Tail(w.stack)) \in Seq(Inner(w.folder))
<1>1. w.stack \in Seq(Inner(w.folder)) /\ w.stack # <<>>
  BY DEF Walk, Sound
<1>2. Len(w.stack) \in Nat \ {0} /\ \A i \in 1..Len(w.stack) : w.stack[i] \in Inner(w.folder)
  BY <1>1, LenProperties, EmptySeq, ElementOfSeq
<1>3. Head(w.stack) = w.stack[1]
  BY <1>1, HeadTailProperties
<1>4. w.stack[Len(w.stack)].folder = w.folder
  BY DEF Walk, Sound
<1>5. CoversTop(w.pc, w.stack[1])
  BY <1>2 DEF Walk, Covers, Handed, CoversTop
<1> QED BY <1>1, <1>2, <1>3, <1>4, <1>5, Stacks

(* The topmost frame goes on.                                              *)
LEMMA SwapKeeps ==
    ASSUME NEW w, Walk(w), NEW frame \in Inner(w.folder), frame.folder = Head(w.stack).folder,
           CoversTop(w.pc, frame),
           NEW v, Follows(w, v), v.stack = <<frame>> \o Tail(w.stack)
    PROVE  Sound(v) /\ Covers(v)
<1>0. PICK s, t, S : s = w.stack /\ t = v.stack /\ S = Inner(w.folder)
  OBVIOUS
<1>1. /\ s \in Seq(S) /\ s # <<>> /\ Len(s) \in Nat \ {0} /\ s[1] = Head(s)
      /\ Tail(s) \in Seq(S) /\ s[Len(s)].folder = w.folder
  BY <1>0, WalkFacts DEF Walk
<1>2. t \in Seq(S) /\ Len(t) = Len(s) /\ \A i \in 1..Len(s) : t[i] = IF i = 1 THEN frame ELSE s[i]
  <2>1. frame \in S /\ t = <<frame>> \o Tail(s)
    BY <1>0
  <2> QED BY <1>1, <2>1, Indices, PushedAny
<1>3. \A i \in 1..Len(s) : t[i].folder = s[i].folder
  BY <1>0, <1>1, <1>2
<1>4. \A i \in 1..Len(s) : Handed(t, i) = Handed(s, i)
  BY <1>1, <1>3 DEF Handed
<1>5. Sound(v)
  <2>1. t[Len(t)].folder = w.folder
    BY <1>1, <1>2, <1>3
  <2> QED BY <1>0, <1>2, <2>1 DEF Walk, Sound, Follows
<1>6. Covers(v)
  <2>1. ASSUME w.pc = "collect", NEW i \in 1..Len(t)
        PROVE  Sub(t[i].folder) \intersect object \subseteq t[i].names \union CollectLeft(t[i]) \union Handed(t, i)
    BY <1>0, <1>1, <1>2, <1>4, <2>1 DEF Walk, Covers, CoversTop
  <2>2. ASSUME w.pc = "tree", NEW i \in 1..Len(t)
        PROVE  Sub(t[i].folder) \subseteq TreeLeft(t[i]) \union Handed(t, i)
    BY <1>0, <1>1, <1>2, <1>4, <2>2 DEF Walk, Covers, CoversTop
  <2> QED BY <1>0, <2>1, <2>2 DEF Covers, Follows, Walk
<1> QED BY <1>5, <1>6

(* A call is made for a child.                                             *)
LEMMA DescendKeeps ==
    ASSUME NEW w, Walk(w), Head(w.stack).step = "each", NEW f \in Head(w.stack).todo,
           NEW step, step = IF w.pc = "collect" THEN "files" ELSE "children",
           NEW v, Follows(w, v),
           v.stack = <<Enter(f, step), [Head(w.stack) EXCEPT !.todo = @ \ {f}]>> \o Tail(w.stack)
    PROVE  Sound(v) /\ Covers(v)
<1>0. PICK s, t, S : s = w.stack /\ t = v.stack /\ S = Inner(w.folder)
  OBVIOUS
<1> DEFINE a == Enter(f, step)
<1> DEFINE b == [Head(w.stack) EXCEPT !.todo = @ \ {f}]
<1>1. /\ s \in Seq(S) /\ s # <<>> /\ Len(s) \in Nat \ {0} /\ s[1] = Head(s)
      /\ Tail(s) \in Seq(S) /\ s[Len(s)].folder = w.folder
      /\ s[1] \in S /\ CoversTop(w.pc, s[1])
  BY <1>0, WalkFacts DEF Walk
<1>2. a \in S /\ b \in S
  BY <1>0, <1>1 DEF Enter, Inner
<1>3. /\ a.folder = f /\ b.folder = s[1].folder /\ a.step = step /\ b.step = "each"
      /\ b.names = s[1].names /\ b.todo = s[1].todo \ {f} /\ s[1].step = "each"
  BY <1>0, <1>1, <1>2 DEF Enter, Inner
<1>4. SubsOf(s[1].todo) \subseteq SubsOf(b.todo) \union Sub(f)
  BY <1>3 DEF SubsOf
<1>5. /\ w.pc = "collect" => Sub(b.folder) \intersect object \subseteq b.names \union CollectLeft(b) \union Sub(f)
      /\ w.pc = "tree" => Sub(b.folder) \subseteq TreeLeft(b) \union Sub(f)
  BY <1>1, <1>3, <1>4 DEF CoversTop, CollectLeft, TreeLeft
<1>6. CoversTop(w.pc, a)
  BY <1>3 DEF CoversTop, CollectLeft, TreeLeft
<1> HIDE DEF a, b
<1>7. /\ t \in Seq(S) /\ Len(t) = Len(s) + 1
      /\ \A i \in 1..(Len(s) + 1) : t[i] = IF i = 1 THEN a ELSE IF i = 2 THEN b ELSE s[i - 1]
  <2>1. t = <<a, b>> \o Tail(s)
    BY <1>0, <1>1 DEF a, b
  <2> QED BY <1>1, <1>2, <2>1, Indices, PushedAny
<1>8. \A i \in 3..(Len(s) + 1) : Handed(t, i) = Handed(s, i - 1)
  <2> SUFFICES ASSUME NEW i \in 3..(Len(s) + 1) PROVE t[i - 1].folder = s[i - 2].folder
    BY <1>1 DEF Handed
  <2>1. CASE i = 3
    BY <1>1, <1>3, <1>7, <2>1
  <2>2. CASE i # 3
    <3>1. i - 1 \in 1..(Len(s) + 1) /\ i - 1 # 1 /\ i - 1 # 2 /\ (i - 1) - 1 = i - 2
      BY <1>1, <2>2
    <3>2. t[i - 1] = s[(i - 1) - 1]
      BY <1>7, <3>1
    <3> QED BY <3>1, <3>2
  <2> QED BY <2>1, <2>2
<1>9. Handed(t, 2) = Sub(f) /\ Handed(t, 1) = {}
  BY <1>1, <1>3, <1>7 DEF Handed
<1>10. Sound(v)
  <2>1. t[Len(t)].folder = w.folder
    BY <1>1, <1>3, <1>7
  <2> QED BY <1>0, <1>7, <2>1 DEF Walk, Sound, Follows
<1>11. ASSUME NEW i \in 1..Len(t), i # 1, i # 2
       PROVE  i - 1 \in 1..Len(s) /\ t[i] = s[i - 1] /\ Handed(t, i) = Handed(s, i - 1)
  BY <1>1, <1>7, <1>8, <1>11
<1>12. t[1] = a /\ t[2] = b
  BY <1>1, <1>7
<1>13. Covers(v)
  <2>1. ASSUME w.pc = "collect", NEW i \in 1..Len(t)
        PROVE  Sub(t[i].folder) \intersect object \subseteq t[i].names \union CollectLeft(t[i]) \union Handed(t, i)
    BY <1>0, <1>5, <1>6, <1>9, <1>11, <1>12, <2>1 DEF Walk, Covers, CoversTop
  <2>2. ASSUME w.pc = "tree", NEW i \in 1..Len(t)
        PROVE  Sub(t[i].folder) \subseteq TreeLeft(t[i]) \union Handed(t, i)
    BY <1>0, <1>5, <1>6, <1>9, <1>11, <1>12, <2>2 DEF Walk, Covers, CoversTop
  <2> QED BY <1>0, <2>1, <2>2 DEF Covers, Follows, Walk
<1> QED BY <1>10, <1>13

Merged(s) == [s[2] EXCEPT !.names = @ \union s[1].names]

Returns(w, v) ==
    /\ w.pc = "collect" /\ Head(w.stack).step = "each" /\ Head(w.stack).todo = {} /\ Len(w.stack) # 1
    /\ Follows(w, v) /\ v.stack = <<Merged(w.stack)>> \o Tail(Tail(w.stack))

(* A call that has nothing left returns.                                   *)
LEMMA ReturnKeeps ==
    ASSUME NEW w, NEW v, Walk(w), Returns(w, v)
    PROVE  Sound(v) /\ Covers(v)
<1>0. PICK s, t, S : s = w.stack /\ t = v.stack /\ S = Inner(w.folder)
  OBVIOUS
<1>m. PICK m : m = Merged(s)
  OBVIOUS
<1>r. w.pc = "collect" /\ s[1].step = "each" /\ s[1].todo = {} /\ Follows(w, v)
  BY <1>0, WalkFacts DEF Returns
<1>1. /\ s \in Seq(S) /\ s # <<>> /\ Len(s) \in Nat \ {0} /\ s[1] = Head(s) /\ Len(s) # 1
      /\ Tail(Tail(s)) \in Seq(S) /\ s[Len(s)].folder = w.folder
      /\ s[1] \in S /\ s[2] \in S /\ CoversTop(w.pc, s[1])
  <2>1. Len(s) \in Nat \ {0} /\ Len(s) # 1 /\ \A i \in 1..Len(s) : s[i] \in S
    BY <1>0, WalkFacts DEF Returns
  <2>2. ASSUME NEW n, n \in Nat \ {0}, n # 1 PROVE 1 \in 1..n /\ 2 \in 1..n
    BY <2>2
  <2> QED BY <1>0, <2>1, <2>2, WalkFacts DEF Walk
<1>2. /\ m \in S /\ m.folder = s[2].folder /\ m.names = s[2].names \union s[1].names
      /\ CollectLeft(m) = CollectLeft(s[2])
  BY <1>0, <1>m, <1>1 DEF Inner, CollectLeft, Merged
<1>3. Sub(s[1].folder) \intersect object \subseteq s[1].names
  BY <1>0, <1>1, <1>r DEF CoversTop, CollectLeft, SubsOf
<1>4. t = <<m>> \o Tail(Tail(s))
  BY <1>0, <1>m DEF Returns
<1>5. /\ t \in Seq(S) /\ Len(t) = Len(s) - 1
      /\ \A i \in 1..(Len(s) - 1) : t[i] = IF i = 1 THEN m ELSE s[i + 1]
  BY <1>1, <1>2, <1>4, Indices, PushedAny
<1>6. /\ t[1] = m /\ Handed(t, 1) = {}
      /\ \A i \in 2..Len(t) : i + 1 \in 1..Len(s) /\ t[i] = s[i + 1] /\ t[i - 1].folder = s[i].folder
  <2>1. t[1] = m /\ Handed(t, 1) = {}
    BY <1>1, <1>5 DEF Handed
  <2>2. ASSUME NEW i \in 2..Len(t)
        PROVE  i + 1 \in 1..Len(s) /\ t[i] = s[i + 1] /\ t[i - 1].folder = s[i].folder
    <3>1. i \in 1..(Len(s) - 1) /\ i + 1 \in 1..Len(s) /\ i # 1
      BY <1>1, <1>5
    <3>2. t[i] = s[i + 1]
      BY <1>5, <3>1
    <3>3. CASE i = 2
      <4>1. t[i - 1] = m /\ s[i].folder = m.folder
        BY <1>2, <2>1, <3>3
      <4> QED BY <3>1, <3>2, <4>1
    <3>4. CASE i # 2
      <4>1. i - 1 \in 1..(Len(s) - 1) /\ i - 1 # 1 /\ (i - 1) + 1 = i
        BY <1>1, <1>5, <3>4
      <4>2. t[i - 1] = s[(i - 1) + 1]
        BY <1>5, <4>1
      <4> QED BY <3>1, <3>2, <4>1, <4>2
    <3> QED BY <3>1, <3>2, <3>3, <3>4
  <2> QED BY <2>1, <2>2
<1>7. \A i \in 2..Len(t) : Handed(t, i) = Handed(s, i + 1)
  BY <1>1, <1>5, <1>6 DEF Handed
<1>8. t[Len(t)].folder = w.folder
  BY <1>1, <1>2, <1>5
<1>9. Sound(v)
  BY <1>0, <1>r, <1>5, <1>8 DEF Walk, Sound, Follows
<1>10. Sub(m.folder) \intersect object \subseteq m.names \union CollectLeft(m)
  <2>1. 2 \in 1..Len(s) /\ Handed(s, 2) = Sub(s[1].folder)
    BY <1>1 DEF Handed
  <2>2. Sub(s[2].folder) \intersect object \subseteq s[2].names \union CollectLeft(s[2]) \union Handed(s, 2)
    BY <1>0, <1>r, <2>1 DEF Walk, Covers
  <2> QED BY <1>2, <1>3, <2>1, <2>2
<1>11. ASSUME NEW i \in 1..Len(t)
       PROVE  Sub(t[i].folder) \intersect object \subseteq t[i].names \union CollectLeft(t[i]) \union Handed(t, i)
  <2>1. CASE i = 1
    BY <1>6, <1>10, <2>1
  <2>2. CASE i # 1
    <3>1. i \in 2..Len(t) /\ i + 1 \in 1..Len(s)
      BY <1>1, <1>5, <1>6, <2>2
    <3>2. Sub(s[i + 1].folder) \intersect object
            \subseteq s[i + 1].names \union CollectLeft(s[i + 1]) \union Handed(s, i + 1)
      BY <1>0, <1>r, <3>1 DEF Walk, Covers
    <3> QED BY <1>6, <1>7, <3>1, <3>2
  <2> QED BY <2>1, <2>2
<1>12. Covers(v)
  BY <1>0, <1>r, <1>11 DEF Covers, Follows
<1> QED BY <1>9, <1>12

LEMMA PopKeeps ==
    ASSUME NEW w, Walk(w), w.pc = "tree", Head(w.stack).step = "row", Len(w.stack) # 1,
           NEW v, Follows(w, v), v.stack = Tail(w.stack)
    PROVE  Sound(v) /\ Covers(v)
<1>0. PICK s, t, S : s = w.stack /\ t = v.stack /\ S = Inner(w.folder)
  OBVIOUS
<1>1. /\ s \in Seq(S) /\ s # <<>> /\ Len(s) \in Nat \ {0} /\ s[1] = Head(s) /\ Len(s) # 1
      /\ t \in Seq(S) /\ t = Tail(s) /\ s[Len(s)].folder = w.folder
      /\ s[1] \in S /\ CoversTop(w.pc, s[1])
  <2>1. Len(s) \in Nat \ {0} /\ Len(s) # 1 /\ \A i \in 1..Len(s) : s[i] \in S
    BY <1>0, WalkFacts
  <2>2. s[1] \in S
    BY <2>1
  <2> QED BY <1>0, <2>1, <2>2, WalkFacts DEF Walk
<1>2. Sub(s[1].folder) = {}
  BY <1>0, <1>1 DEF CoversTop, TreeLeft
<1>3. Len(t) = Len(s) - 1 /\ \A i \in 1..(Len(s) - 1) : t[i] = s[i + 1]
  BY <1>1, Indices
<1>4. t[Len(t)].folder = w.folder
  BY <1>1, <1>3
<1>5. Handed(t, 1) = {} /\ Handed(s, 2) = {} /\ \A i \in 2..Len(t) : Handed(t, i) = Handed(s, i + 1)
  BY <1>1, <1>2, <1>3 DEF Handed
<1>6. Sound(v)
  BY <1>0, <1>1, <1>4 DEF Walk, Sound, Follows
<1>7. ASSUME NEW i \in 1..Len(t) PROVE Sub(t[i].folder) \subseteq TreeLeft(t[i]) \union Handed(t, i)
  <2>1. i + 1 \in 1..Len(s) /\ t[i] = s[i + 1]
    BY <1>1, <1>3
  <2>2. Sub(s[i + 1].folder) \subseteq TreeLeft(s[i + 1]) \union Handed(s, i + 1)
    BY <1>0, <2>1 DEF Walk, Covers
  <2>3. Handed(t, i) = Handed(s, i + 1)
    <3>1. CASE i = 1
      <4>1. i + 1 = 2
        BY <3>1
      <4> QED BY <1>5, <3>1, <4>1
    <3>2. CASE i # 1
      BY <1>1, <1>3, <1>5, <3>2
    <3> QED BY <3>1, <3>2
  <2> QED BY <2>1, <2>2, <2>3
<1>8. Covers(v)
  BY <1>0, <1>7 DEF Covers, Follows, Walk
<1> QED BY <1>6, <1>8

(* A call of a deletion with all files that nothing disturbs, but for the  *)
(* two statements that destroy something.                                  *)
LEMMA CallStep ==
    ASSUME FoldersAssumption, Inv, NEW c \in Client, work[c].action = "cascade-files",
           Sound(work[c]), Covers(work[c]), Calls(c)
    PROVE  /\ TreeRow(c) => Sub(Top(c).folder) = {}
           /\ Drop(c) => Sub(work[c].folder) = {}
           /\ \/ TreeFiles(c) \/ Drop(c) \/ \E x \in File : Erase(c, x)
              \/ Sound(work'[c]) /\ Covers(work'[c])
<1>1. work \in [Client -> Work] /\ Walking /\ work[c] \in Work
  BY DEF Inv, TypeOK
<1>2. PICK w, v : w = work[c] /\ v = work'[c]
  OBVIOUS
<1>3. w \in Work /\ Sound(w) /\ Covers(w) /\ w.action = "cascade-files"
  BY <1>1, <1>2
<1>4. ASSUME w.pc \in {"collect", "tree"}
      PROVE  /\ Walk(w) /\ w.folder \in Folder /\ w.stack \in Seq(Inner(w.folder)) /\ w.stack # <<>>
             /\ Top(c) = Head(w.stack) /\ Top(c) = w.stack[1] /\ Top(c) \in Inner(w.folder)
             /\ Top(c).folder \in Folder /\ CoversTop(w.pc, Top(c))
  <2>1. Walk(w)
    BY <1>1, <1>2, <1>3, <1>4 DEF Walking, Walk
  <2>2. 1 \in 1..Len(w.stack)
    <3>1. \A n : n \in Nat \ {0} => 1 \in 1..n
      OBVIOUS
    <3> QED BY <2>1, <3>1, WalkFacts
  <2>3. w.stack[1] \in Inner(w.folder) /\ Head(w.stack) = w.stack[1] /\ CoversTop(w.pc, w.stack[1])
    BY <2>1, <2>2, WalkFacts
  <2>4. Top(c) = Head(w.stack) /\ Top(c) \in Inner(w.folder) /\ w.stack \in Seq(Inner(w.folder))
    BY <1>2, <2>1, <2>3, WalkFacts DEF Top
  <2>5. Top(c).folder \in Folder
    BY <2>4 DEF Inner, Inside
  <2> QED BY <2>1, <2>3, <2>4, <2>5 DEF Walk
<1>5. ASSUME NEW frame \in Inner(w.folder), SetTop(c, frame), frame.folder = Top(c).folder,
             w.pc \in {"collect", "tree"}, CoversTop(w.pc, frame)
      PROVE  Sound(v) /\ Covers(v)
  <2>1. v.stack = Replaced(c, frame) /\ Follows(w, v)
    BY <1>1, <1>2, <1>5 DEF SetTop, Replaced, Follows, Work
  <2>2. v.stack = <<frame>> \o Tail(w.stack)
    BY <1>2, <2>1 DEF Replaced
  <2> QED BY <1>4, <1>5, <2>1, <2>2, SwapKeeps
<1>6. ASSUME NEW f \in Folder, NEW pc \in {"collect", "tree"}, NEW step,
             step = IF pc = "collect" THEN "files" ELSE "children", Descend(c, pc, f, step)
      PROVE  Sound(v) /\ Covers(v)
  <2>1. w.pc = pc /\ Top(c).step = "each" /\ f \in Top(c).todo
    BY <1>2, <1>6 DEF Descend, Step, At
  <2>2. v.stack = Called(c, f, step) /\ Follows(w, v)
    BY <1>1, <1>2, <1>6 DEF Descend, Called, Follows, Work
  <2>3. v.stack = <<Enter(f, step), [Head(w.stack) EXCEPT !.todo = @ \ {f}]>> \o Tail(w.stack)
    BY <1>2, <1>4, <2>1, <2>2 DEF Called, Top
  <2> QED BY <1>4, <1>6, <2>1, <2>2, <2>3, DescendKeeps
<1>7. CASE CollectFiles(c)
  <2>1. w.pc = "collect" /\ Top(c).step = "files"
    BY <1>2, <1>7 DEF CollectFiles, Step, At
  <2> DEFINE frame == [Top(c) EXCEPT !.step = "children", !.names = FilesIn(Top(c).folder)]
  <2>2. FilesIn(Top(c).folder) \subseteq Meant(w.folder)
    <3>1. FilesIn(Top(c).folder) \subseteq Sub(Top(c).folder) /\ Sub(Top(c).folder) \subseteq Sub(w.folder)
      BY <1>4, <2>1, SubParts DEF Inner, Inside
    <3> QED BY <3>1 DEF Meant, FilesIn
  <2>3. /\ frame \in Inner(w.folder) /\ frame.folder = Top(c).folder
        /\ frame.step = "children" /\ frame.names = FilesIn(Top(c).folder)
    BY <1>4, <2>1, <2>2 DEF Inner
  <2>4. SetTop(c, frame)
    BY <1>7 DEF CollectFiles
  <2> HIDE DEF frame
  <2>5. CoversTop(w.pc, frame)
    BY <2>1, <2>3 DEF CoversTop, CollectLeft
  <2> QED BY <1>2, <1>5, <1>7, <2>1, <2>3, <2>4, <2>5 DEF CollectFiles, TreeRow, Drop, Step, At
<1>8. CASE CollectChildren(c) \/ TreeChildren(c)
  <2>1. w.pc \in {"collect", "tree"} /\ Top(c).step = "children"
    BY <1>2, <1>8 DEF CollectChildren, TreeChildren, ReadChildren, Step, At
  <2> DEFINE frame == [Top(c) EXCEPT !.step = "each", !.todo = Children(Top(c).folder)]
  <2>2. /\ Children(Top(c).folder) \subseteq Inside(w.folder)
        /\ Sub(Top(c).folder) \subseteq FilesIn(Top(c).folder) \union SubsOf(Children(Top(c).folder))
    <3>1. Top(c).folder \in Folder /\ Sub(Top(c).folder) \subseteq Sub(w.folder)
      BY <1>4, <2>1 DEF Inner, Inside
    <3> QED BY <3>1, SubParts DEF Inside
  <2>3. /\ frame \in Inner(w.folder) /\ frame.folder = Top(c).folder /\ frame.step = "each"
        /\ frame.names = Top(c).names /\ frame.todo = Children(Top(c).folder)
    BY <1>4, <2>1, <2>2 DEF Inner
  <2>4. SetTop(c, frame)
    BY <1>8 DEF CollectChildren, TreeChildren, ReadChildren
  <2> HIDE DEF frame
  <2>5. CoversTop(w.pc, frame)
    BY <1>4, <2>1, <2>2, <2>3 DEF CoversTop, CollectLeft, TreeLeft
  <2> QED BY <1>2, <1>5, <1>8, <2>1, <2>3, <2>4, <2>5
          DEF CollectChildren, TreeChildren, ReadChildren, TreeRow, Drop, Step, At
<1>9. CASE TreeDescended(c)
  <2>1. w.pc = "tree" /\ Top(c).step = "each" /\ Top(c).todo = {}
    BY <1>2, <1>9 DEF TreeDescended, Step, At
  <2> DEFINE frame == [Top(c) EXCEPT !.step = "files"]
  <2>2. frame \in Inner(w.folder) /\ frame.folder = Top(c).folder /\ frame.step = "files"
    BY <1>4, <2>1 DEF Inner
  <2>3. SetTop(c, frame)
    BY <1>2, <1>3, <1>9 DEF TreeDescended
  <2> HIDE DEF frame
  <2>4. CoversTop(w.pc, frame)
    BY <1>4, <2>1, <2>2 DEF CoversTop, TreeLeft, SubsOf
  <2> QED BY <1>2, <1>5, <1>9, <2>1, <2>2, <2>3, <2>4 DEF TreeDescended, TreeRow, Drop, Step, At
<1>10. CASE \E f \in Folder : CollectDescend(c, f) \/ TreeDescend(c, f)
  <2>1. PICK f \in Folder : CollectDescend(c, f) \/ TreeDescend(c, f)
    BY <1>10
  <2>2. Sound(v) /\ Covers(v) /\ Top(c).step = "each"
    <3>1. CASE CollectDescend(c, f)
      <4>1. Descend(c, "collect", f, "files")
        BY <3>1 DEF CollectDescend
      <4> QED BY <1>6, <4>1 DEF Descend, Step
    <3>2. CASE TreeDescend(c, f)
      <4>1. Descend(c, "tree", f, "children")
        BY <3>2 DEF TreeDescend
      <4> QED BY <1>6, <4>1 DEF Descend, Step
    <3> QED BY <2>1, <3>1, <3>2
  <2>3. work[c].pc # "drop"
    BY <2>1 DEF CollectDescend, TreeDescend, Descend, Step, At
  <2> QED BY <1>2, <2>2, <2>3 DEF TreeRow, Drop, Step, At
<1>11. CASE CollectReturn(c)
  <2>1. w.pc = "collect" /\ Top(c).step = "each" /\ Top(c).todo = {}
    BY <1>2, <1>11 DEF CollectReturn, Step, At
  <2> SUFFICES Sound(v) /\ Covers(v)
    BY <1>2, <2>1 DEF TreeRow, Drop, Step, At
  <2>2. CASE Len(work[c].stack) = 1
    <3>1. /\ v.pc = "erase" /\ v.names = Top(c).names /\ v.stack = <<>> /\ v.folder = w.folder
      BY <1>1, <1>2, <1>11, <2>2 DEF CollectReturn, StartErase, Work
    <3>2. Top(c).folder = w.folder /\ Top(c).names \subseteq Meant(w.folder)
      <4>1. w.stack[1].folder = w.folder
        BY <1>2, <1>4, <2>1, <2>2, WalkFacts
      <4> QED BY <1>4, <2>1, <4>1 DEF Inner
    <3>3. Sub(w.folder) \intersect object \subseteq Top(c).names
      BY <1>4, <2>1, <3>2 DEF CoversTop, CollectLeft, SubsOf
    <3>4. v.stack \in Seq(Inner(w.folder))
      BY <3>1, EmptySeq
    <3>5. Sound(v)
      BY <3>1, <3>2, <3>4 DEF Sound
    <3>6. Covers(v)
      BY <3>1, <3>3 DEF Covers
    <3> QED BY <3>5, <3>6
  <2>3. CASE Len(work[c].stack) # 1
    <3>1. v.stack = Returned(c) /\ Follows(w, v)
      BY <1>1, <1>2, <1>11, <2>3 DEF CollectReturn, Follows, Work
    <3>2. Returns(w, v)
      <4>1. Returned(c) = <<Merged(w.stack)>> \o Tail(Tail(w.stack))
        BY <1>2, <1>4, <2>1 DEF Returned, Merged
      <4>2. Head(w.stack).step = "each" /\ Head(w.stack).todo = {} /\ Len(w.stack) # 1
        BY <1>2, <1>4, <2>1, <2>3
      <4> QED BY <2>1, <3>1, <4>1, <4>2 DEF Returns
    <3> QED BY <1>4, <2>1, <3>2, ReturnKeeps
  <2> QED BY <2>2, <2>3
<1>12. CASE EraseDone(c)
  <2>1. /\ w.pc = "erase" /\ w.names = {} /\ w.folder \in Folder
        /\ v.pc = "tree" /\ v.names = {} /\ v.folder = w.folder
        /\ v.stack = <<Enter(w.folder, "children")>>
    BY <1>1, <1>2, <1>12 DEF EraseDone, At, Walking, Work
  <2>2. PICK a : a = Enter(w.folder, "children")
    OBVIOUS
  <2>3. a \in Inner(w.folder) /\ a.folder = w.folder /\ a.step = "children"
    BY <2>1, <2>2 DEF Enter, Inner, Inside
  <2>4. v.stack = <<a>> /\ v.stack \in Seq(Inner(w.folder)) /\ Len(v.stack) = 1 /\ v.stack[1] = a
    BY <2>1, <2>2, <2>3
  <2>5. Sound(v)
    BY <2>1, <2>3, <2>4 DEF Sound
  <2>6. Sub(w.folder) \intersect object = {}
    BY <1>3, <2>1 DEF Covers
  <2>7. Covers(v)
    BY <2>1, <2>3, <2>4, <2>6 DEF Covers, TreeLeft
  <2> QED BY <1>2, <2>1, <2>5, <2>7 DEF TreeRow, Drop, Step, At
<1>13. CASE TreeRow(c)
  <2>1. w.pc = "tree" /\ Top(c).step = "row" /\ Top(c) = Head(w.stack)
    BY <1>2, <1>13 DEF TreeRow, Step, At, Top
  <2>2. Sub(Top(c).folder) = {}
    BY <1>4, <2>1 DEF CoversTop, TreeLeft
  <2>3. CASE Len(work[c].stack) = 1
    <3>1. v.pc = "drop" /\ v.names = w.names /\ v.stack = <<>> /\ v.folder = w.folder
      BY <1>1, <1>2, <1>13, <2>3 DEF TreeRow, Work
    <3>2. Top(c).folder = w.folder
      BY <1>2, <1>4, <2>1, <2>3, WalkFacts
    <3>3. v.stack \in Seq(Inner(w.folder))
      BY <3>1, EmptySeq
    <3>4. Sound(v) /\ Covers(v)
      BY <1>3, <2>2, <3>1, <3>2, <3>3 DEF Sound, Covers
    <3> QED BY <1>2, <2>1, <2>2, <3>4 DEF Drop, At
  <2>4. CASE Len(work[c].stack) # 1
    <3>1. v.stack = Tail(w.stack) /\ Follows(w, v) /\ Len(w.stack) # 1
      BY <1>1, <1>2, <1>13, <2>4 DEF TreeRow, Follows, Work
    <3>2. Sound(v) /\ Covers(v)
      BY <1>4, <2>1, <3>1, PopKeeps
    <3> QED BY <1>2, <2>1, <2>2, <3>2 DEF Drop, At
  <2> QED BY <2>3, <2>4
<1>14. CASE TreeFiles(c) \/ \E x \in File : Erase(c, x)
  BY <1>14 DEF TreeFiles, TreeRow, Drop, Erase, Step, At
<1>15. CASE Drop(c)
  BY <1>2, <1>3, <1>15 DEF TreeRow, Drop, Step, At, Covers
<1> QED BY <1>7, <1>8, <1>9, <1>10, <1>11, <1>12, <1>13, <1>14, <1>15 DEF Calls

(* The statement that deletes a folder's files: they are below the folder  *)
(* that was to go with all its files, whose objects have gone before.      *)
LEMMA FilesKeep ==
    ASSUME FoldersAssumption, Inv, NEW c \in Client, work[c].action = "cascade-files",
           Sound(work[c]), Covers(work[c]), TreeFiles(c)
    PROVE  /\ Sound(work[c])' /\ Covers(work[c])'
           /\ object \subseteq Listed => object' \subseteq Listed'
<1>1. work \in [Client -> Work] /\ Walking /\ work[c] \in Work
  BY DEF Inv, TypeOK
<1>2. PICK w, v, top : w = work[c] /\ v = work'[c] /\ top = Top(c)
  OBVIOUS
<1>3. /\ w \in Work /\ Sound(w) /\ Covers(w) /\ w.pc = "tree" /\ w.folder \in Folder /\ w.stack # <<>>
      /\ Walk(w) /\ top.step = "files" /\ top = Head(w.stack)
  BY <1>1, <1>2 DEF TreeFiles, Step, At, Walking, Walk, Top
<1>4. PICK s, t, S : s = w.stack /\ t = v.stack /\ S = Inner(w.folder)'
  OBVIOUS
<1>5. Thinned /\ Listed' = Listed \ FilesIn(top.folder) /\ object' = object
  BY <1>2, FilesThin DEF TreeFiles
<1>6. Sound(w)' /\ Covers(w)'
  BY <1>3, <1>5, ThinKeeps
<1>7. top = s[1] /\ Len(s) \in Nat \ {0} /\ s[1] \in Inner(w.folder) /\ CoversTop(w.pc, s[1])
  <2>1. Len(s) \in Nat \ {0} /\ \A i \in 1..Len(s) : s[i] \in Inner(w.folder)
    BY <1>3, <1>4, WalkFacts
  <2>2. \A n : n \in Nat \ {0} => 1 \in 1..n
    OBVIOUS
  <2> QED BY <1>3, <1>4, <2>1, <2>2, WalkFacts
<1>8. top.folder \in Folder /\ Sub(top.folder) \subseteq FilesIn(top.folder)
      /\ Sub(top.folder) \subseteq Sub(w.folder)
  BY <1>3, <1>7 DEF CoversTop, TreeLeft, Inner, Inside
<1>9. Sub(top.folder)' = {}
  BY <1>5, <1>8 DEF Thinned
<1>10. ASSUME object \subseteq Listed PROVE object' \subseteq Listed'
  <2>1. FilesIn(top.folder) \subseteq Sub(w.folder) /\ Sub(w.folder) \intersect object = {}
    BY <1>3, <1>8, SubParts DEF Covers
  <2> QED BY <1>5, <1>10, <2>1
<1>11. s \in Seq(S) /\ s # <<>> /\ s[Len(s)].folder = w.folder /\ \A i \in 1..Len(s) : s[i] \in S
  <2>1. s \in Seq(S) /\ s[Len(s)].folder = w.folder
    BY <1>3, <1>4, <1>6 DEF Sound
  <2> QED BY <1>3, <1>4, <2>1, ElementOfSeq
<1>12. PICK frame : frame = [top EXCEPT !.step = "row"]
  OBVIOUS
<1>13. frame \in S /\ frame.folder = top.folder /\ frame.step = "row"
  <2>1. top \in S
    BY <1>7, <1>11
  <2> QED BY <1>4, <1>12, <2>1 DEF Inner
<1>14. t = <<frame>> \o Tail(s) /\ Follows(w, v)
  <2>1. SetTop(c, frame)
    BY <1>2, <1>12 DEF TreeFiles
  <2> QED BY <1>1, <1>2, <1>4, <2>1 DEF SetTop, Follows, Work
<1>15. t \in Seq(S) /\ Len(t) = Len(s) /\ \A i \in 1..Len(s) : t[i] = IF i = 1 THEN frame ELSE s[i]
  <2>1. Tail(s) \in Seq(S)
    BY <1>11, Stacks
  <2> QED BY <1>11, <1>13, <1>14, <2>1, Indices, PushedAny
<1>16. \A i \in 1..Len(s) : t[i].folder = s[i].folder
  BY <1>7, <1>13, <1>15
<1>17. \A i \in 1..Len(s) : Handed(t, i)' = Handed(s, i)'
  BY <1>7, <1>16 DEF Handed
<1>18. Sound(v)'
  <2>1. t[Len(t)].folder = w.folder
    BY <1>7, <1>11, <1>15, <1>16
  <2> QED BY <1>4, <1>6, <1>14, <1>15, <2>1 DEF Sound, Follows
<1>19. ASSUME NEW i \in 1..Len(t) PROVE (Sub(t[i].folder) \subseteq TreeLeft(t[i]) \union Handed(t, i))'
  <2>1. CASE i = 1
    BY <1>9, <1>13, <1>15, <2>1
  <2>2. CASE i # 1
    <3>1. (Sub(s[i].folder) \subseteq TreeLeft(s[i]) \union Handed(s, i))'
      BY <1>3, <1>4, <1>6, <1>15 DEF Covers
    <3> QED BY <1>15, <1>17, <2>2, <3>1
  <2> QED BY <2>1, <2>2
<1>20. Covers(v)'
  BY <1>3, <1>4, <1>6, <1>14, <1>19 DEF Covers, Follows
<1> QED BY <1>2, <1>10, <1>18, <1>20

(* The removal of an object.                                               *)
LEMMA EraseKeeps ==
    ASSUME FoldersAssumption, Inv, NEW c \in Client, work[c].action = "cascade-files",
           Sound(work[c]), Covers(work[c]), NEW x \in File, Erase(c, x)
    PROVE  Thinned /\ Listed' = Listed /\ Sound(work[c])' /\ Covers(work[c])'
<1>1. work \in [Client -> Work] /\ Walking /\ work[c] \in Work
  BY DEF Inv, TypeOK
<1>2. PICK w, v : w = work[c] /\ v = work'[c]
  OBVIOUS
<1>3. /\ w \in Work /\ Sound(w) /\ Covers(w) /\ w.pc = "erase" /\ w.folder \in Folder
      /\ v.pc = w.pc /\ v.folder = w.folder /\ v.stack = w.stack /\ v.names = w.names \ {x}
  BY <1>1, <1>2 DEF Erase, At, Walking, Work
<1>4. Thinned /\ Listed' = Listed /\ object' = object \ {x}
  BY StillThins DEF Erase
<1>5. Sound(w)' /\ Covers(w)'
  BY <1>3, <1>4, ThinKeeps
<1>6. Sound(v)'
  BY <1>3, <1>5 DEF Sound
<1>7. Sub(w.folder)' = Sub(w.folder) \intersect Listed'
  BY <1>3, <1>4 DEF Thinned
<1>8. Covers(v)'
  BY <1>3, <1>4, <1>7 DEF Covers
<1> QED BY <1>2, <1>4, <1>6, <1>8

(* A step that only takes files away, of the clients in C.                 *)
LEMMA ThinExact ==
    ASSUME Inv, Exact, Thinned, NEW C \in SUBSET Client,
           \A e \in Client \ C : work'[e] = work[e], object' \subseteq Listed',
           \A c \in C : /\ Careful(work[c])'
                        /\ work[c].pc \in {"erase", "tree"} =>
                             /\ work'[c].folder = work[c].folder
                             /\ work'[c].pc \in {"erase", "tree"} \/ Sub(work[c].folder) \intersect Listed' = {},
           \A x \in object \ object' : x \in Listed' => Doomed(x)'
    PROVE  Exact'
<1>1. work \in [Client -> Work] /\ Walking
  BY DEF Inv, TypeOK
<1>2. ASSUME NEW e \in Client PROVE Careful(work[e])'
  <2>1. CASE e \notin C
    <3>1. PICK w : w = work[e]
      OBVIOUS
    <3>2. w \in Work /\ Careful(w) /\ (w.pc # "idle" => w.folder \in Folder)
          /\ (w.pc \in {"collect", "tree"} => w.stack # <<>>)
      BY <1>1, <3>1 DEF Walking, Exact
    <3>3. CASE w.pc \in {"idle", "dialog"}
      BY <2>1, <3>1, <3>3 DEF Careful
    <3>4. CASE w.pc \notin {"idle", "dialog"}
      <4>1. Sound(w)' /\ Covers(w)' /\ w.action = "cascade-files"
        BY <3>2, <3>4, ThinKeeps DEF Careful
      <4>2. Careful(w)'
        BY <4>1 DEF Careful
      <4> QED BY <2>1, <3>1, <4>2
    <3> QED BY <3>3, <3>4
  <2> QED BY <2>1
<1>3. ASSUME NEW x \in Listed' \ object' PROVE Doomed(x)'
  <2>1. CASE x \in object
    BY <1>3, <2>1
  <2>2. CASE x \notin object
    <3>1. PICK e \in Client : work[e].pc \in {"erase", "tree"} /\ x \in Sub(work[e].folder)
      BY <1>3, <2>2 DEF Exact, Thinned, Doomed
    <3>2. PICK d \in Folder : d = work[e].folder
      BY <1>1, <3>1 DEF Walking
    <3>3. x \in Sub(d)'
      BY <1>3, <3>1, <3>2 DEF Thinned
    <3>4. work'[e].folder = d /\ work'[e].pc \in {"erase", "tree"}
      <4>1. CASE e \in C
        BY <1>3, <3>1, <3>2, <4>1
      <4>2. CASE e \notin C
        BY <3>1, <3>2, <4>2
      <4> QED BY <4>1, <4>2
    <3> QED BY <3>3, <3>4 DEF Doomed
  <2> QED BY <2>1, <2>2
<1> QED BY <1>2, <1>3 DEF Exact

LEMMA OneExact ==
    ASSUME Inv, Exact, Thinned, NEW c \in Client,
           \A e \in Client \ {c} : work'[e] = work[e], object' \subseteq Listed',
           Careful(work[c])',
           work[c].pc \in {"erase", "tree"} =>
             /\ work'[c].folder = work[c].folder
             /\ work'[c].pc \in {"erase", "tree"} \/ Sub(work[c].folder) \intersect Listed' = {},
           \A x \in object \ object' : x \in Listed' => Doomed(x)'
    PROVE  Exact'
<1>1. {c} \in SUBSET Client
  OBVIOUS
<1>2. ASSUME NEW e \in {c}
      PROVE  /\ Careful(work[e])'
             /\ work[e].pc \in {"erase", "tree"} =>
                  /\ work'[e].folder = work[e].folder
                  /\ work'[e].pc \in {"erase", "tree"} \/ Sub(work[e].folder) \intersect Listed' = {}
  <2>1. e = c
    OBVIOUS
  <2> QED BY <2>1
<1> QED BY <1>1, <1>2, ThinExact

LEMMA CallExact ==
    ASSUME FoldersAssumption, Inv, Inv', Exact,
           NEW c \in Client, work[c].action = "cascade-files", Calls(c)
    PROVE  Exact'
<1>1. work \in [Client -> Work] /\ Walking /\ work' \in [Client -> Work] /\ Walking'
  BY DEF Inv, TypeOK
<1>2. work[c].pc \notin {"idle", "dialog"} /\ work[c].folder \in Folder
  <2>1. work[c].pc \in {"collect", "erase", "tree", "drop"}
    BY DEF Calls, CollectFiles, CollectChildren, CollectReturn, EraseDone, Erase, CollectDescend,
       TreeDescend, TreeChildren, TreeDescended, TreeFiles, TreeRow, Drop, ReadChildren, Descend, Step, At
  <2> QED BY <1>1, <2>1 DEF Walking
<1>3. Sound(work[c]) /\ Covers(work[c]) /\ object \subseteq Listed
  BY <1>2 DEF Exact, Careful
<1>4. Request(c)
  BY DEF Calls, Request
<1>5. \A e \in Client \ {c} : work'[e] = work[e]
  BY <1>1 DEF Calls, CollectFiles, CollectChildren, CollectReturn, EraseDone, Erase, CollectDescend,
     TreeDescend, TreeChildren, TreeDescended, TreeFiles, TreeRow, Drop, ReadChildren, Descend,
     SetTop, StartErase, Finish
<1>6. PICK w, v : w = work[c] /\ v = work'[c]
  OBVIOUS
<1>7. CASE TreeFiles(c)
  <2>1. Thinned /\ object' = object
    BY <1>7, FilesThin DEF TreeFiles
  <2>2. Sound(work[c])' /\ Covers(work[c])' /\ object' \subseteq Listed'
    BY <1>3, <1>7, FilesKeep
  <2>3. v.pc = w.pc /\ v.folder = w.folder /\ v.action = w.action
    BY <1>1, <1>6, <1>7 DEF TreeFiles, SetTop, Work
  <2>4. Careful(work[c])'
    BY <1>6, <2>2, <2>3 DEF Careful
  <2>5. work'[c].pc = work[c].pc /\ work'[c].folder = work[c].folder
    BY <1>6, <2>3
  <2>6. work[c].pc = "tree" /\ object \ object' = {}
    BY <1>7, <2>1 DEF TreeFiles, Step, At
  <2> QED BY <1>5, <2>1, <2>2, <2>4, <2>5, <2>6, OneExact
<1>8. ASSUME NEW x \in File, Erase(c, x) PROVE Exact'
  <2>1. Thinned /\ Listed' = Listed /\ object' = object \ {x} /\ Sound(work[c])' /\ Covers(work[c])'
    BY <1>3, <1>8, EraseKeeps DEF Erase
  <2>2. w.pc = "erase" /\ v.pc = w.pc /\ v.folder = w.folder /\ v.action = w.action /\ x \in w.names
    BY <1>1, <1>6, <1>8 DEF Erase, At, Work
  <2>3. Careful(work[c])'
    BY <1>6, <2>1, <2>2 DEF Careful
  <2>4. x \in Listed => Doomed(x)'
    <3>1. x \in Listed => x \in Sub(w.folder)
      BY <1>3, <1>6, <2>2 DEF Sound, Meant
    <3>2. x \in Listed => x \in Sub(w.folder)'
      BY <1>2, <1>6, <2>1, <3>1 DEF Thinned
    <3> QED BY <1>6, <2>2, <3>2 DEF Doomed
  <2>5. object' \subseteq Listed' /\ \A y \in object \ object' : y \in Listed' => Doomed(y)'
    BY <1>3, <2>1, <2>4
  <2>6. work'[c].pc = work[c].pc /\ work'[c].folder = work[c].folder /\ work[c].pc = "erase"
    BY <1>6, <2>2
  <2> QED BY <1>5, <2>1, <2>3, <2>5, <2>6, OneExact
<1>9. CASE ~TreeFiles(c) /\ \A x \in File : ~Erase(c, x)
  <2>1. /\ TreeRow(c) => Sub(Top(c).folder) = {}
        /\ Drop(c) => Sub(work[c].folder) = {}
        /\ Drop(c) \/ (Sound(work'[c]) /\ Covers(work'[c]))
    BY <1>3, <1>9, CallStep
  <2>2. object' = object
    BY <1>9 DEF Calls, CollectFiles, CollectChildren, CollectReturn, EraseDone, CollectDescend,
       TreeDescend, TreeChildren, TreeDescended, TreeRow, Drop
  <2>3. Thinned /\ Listed' = Listed
    <3>1. CASE TreeRow(c)
      <4>1. Top(c).folder \in Folder
        BY <3>1, TopFrame DEF TreeRow, Step, At, Frame
      <4> QED BY <2>1, <2>2, <3>1, <4>1, RowThins DEF TreeRow
    <3>2. CASE Drop(c)
      BY <1>2, <2>1, <2>2, <3>2, RowThins DEF Drop
    <3>3. CASE ~TreeRow(c) /\ ~Drop(c)
      <4>1. parent' = parent /\ loc' = loc
        BY <1>9, <3>3 DEF Calls, CollectFiles, CollectChildren, CollectReturn, EraseDone, CollectDescend,
           TreeDescend, TreeChildren, TreeDescended
      <4> QED BY <2>2, <4>1, StillThins
    <3> QED BY <3>1, <3>2, <3>3
  <2>4. Careful(work[c])'
    <3>1. CASE Finish(c)
      BY <1>1, <3>1 DEF Finish, Idle, Careful
    <3>2. CASE ~Finish(c)
      <4>1. v \in Work /\ v.folder \in Folder /\ v.action = w.action /\ Sound(v) /\ Covers(v)
            /\ (v.pc \in {"collect", "tree"} => v.stack # <<>>)
        BY <1>1, <1>2, <1>4, <1>6, <2>1, <3>2, RequestKeeps DEF Drop, Walking
      <4>2. Sound(v)' /\ Covers(v)'
        BY <2>3, <4>1, ThinKeeps
      <4>3. Careful(v)'
        BY <1>6, <4>1, <4>2 DEF Careful
      <4> QED BY <1>6, <4>3
    <3> QED BY <3>1, <3>2
  <2>5. ASSUME w.pc \in {"erase", "tree"}
        PROVE  v.folder = w.folder /\ (v.pc \in {"erase", "tree"} \/ Sub(w.folder) \intersect Listed' = {})
    <3>1. v.folder = w.folder /\ v.pc \in {"erase", "tree", "drop"} /\ v.pc \notin {"idle", "dialog"}
      BY <1>4, <1>6, <2>5, RequestKeeps
    <3>2. ASSUME v.pc = "drop" PROVE Sub(w.folder) = {}
      BY <1>6, <2>1, <2>5, <3>1, <3>2 DEF Drop, At, Covers
    <3> QED BY <3>1, <3>2
  <2>6. work[c].pc \in {"erase", "tree"} =>
          /\ work'[c].folder = work[c].folder
          /\ work'[c].pc \in {"erase", "tree"} \/ Sub(work[c].folder) \intersect Listed' = {}
    BY <1>6, <2>5
  <2>7. object' \subseteq Listed' /\ object \ object' = {}
    BY <1>3, <2>2, <2>3
  <2> QED BY <1>5, <2>3, <2>4, <2>6, <2>7, OneExact
<1> QED BY <1>7, <1>8, <1>9

LEMMA CalmExact ==
    ASSUME FoldersAssumption, Inv, Inv', HoldersLive, Exact, Calm
    PROVE  Exact'
<1>1. work \in [Client -> Work] /\ Walking /\ object \subseteq Listed
  BY DEF Inv, TypeOK, Exact
<1>2. ASSUME NEW c \in Client, NEW v, work' = [work EXCEPT ![c] = v], UNCHANGED <<parent, loc, object>>,
             work[c].pc \in {"idle", "dialog"}, Careful(v)
      PROVE  Exact'
  <2>1. Thinned /\ Listed' = Listed /\ work'[c] = v /\ \A e \in Client \ {c} : work'[e] = work[e]
    BY <1>1, <1>2, StillThins
  <2>2. Careful(work[c])'
    <3>1. work' \in [Client -> Work] /\ Walking'
      BY DEF Inv, TypeOK
    <3>2. v \in Work /\ (v.pc # "idle" => v.folder \in Folder)
          /\ (v.pc \in {"collect", "tree"} => v.stack # <<>>)
      BY <2>1, <3>1 DEF Walking
    <3>3. CASE v.pc \in {"idle", "dialog"}
      BY <2>1, <3>3 DEF Careful
    <3>4. CASE v.pc \notin {"idle", "dialog"}
      <4>1. Sound(v)' /\ Covers(v)' /\ v.action = "cascade-files"
        BY <1>2, <2>1, <3>2, <3>4, ThinKeeps DEF Careful
      <4>2. Careful(v)'
        BY <4>1 DEF Careful
      <4> QED BY <2>1, <4>2
    <3> QED BY <3>3, <3>4
  <2>3. object' \subseteq Listed'
    BY <1>1, <1>2, <2>1
  <2>4. work[c].pc \notin {"erase", "tree"} /\ object \ object' = {}
    BY <1>2
  <2> QED BY <2>1, <2>2, <2>3, <2>4, OneExact
<1>3. ASSUME NEW c \in Client, CloseDialog(c) PROVE Exact'
  <2>1. Careful(Idle)
    BY DEF Careful, Idle
  <2> QED BY <1>2, <1>3, <2>1 DEF CloseDialog, Finish, At
<1>4. ASSUME NEW c \in Client, NEW f \in Folder, OpenDialog(c, f) PROVE Exact'
  <2>1. PICK v : v = [work[c] EXCEPT !.pc = "dialog", !.folder = f, !.options = {g \in Live : ~Under(g, f)}]
    OBVIOUS
  <2>2. work' = [work EXCEPT ![c] = v]
    BY <1>1, <1>4, <2>1 DEF OpenDialog
  <2>3. Careful(v)
    BY <1>1, <2>1 DEF Careful, Work
  <2> QED BY <1>2, <1>4, <2>2, <2>3 DEF OpenDialog, At
<1>5. ASSUME NEW c \in Client, NEW target \in Place, DeleteFolder(c, "cascade-files", target) PROVE Exact'
  <2>1. work[c].folder \in Folder /\ work[c].pc = "dialog"
    BY <1>5 DEF DeleteFolder, Live, At
  <2>2. PICK d, a, s : d = work[c].folder /\ a = Enter(d, "files") /\ s = <<a>>
    OBVIOUS
  <2>3. PICK v : v = [pc |-> "collect", folder |-> d, action |-> "cascade-files", target |-> target,
                      options |-> {}, stack |-> s, names |-> {}]
    OBVIOUS
  <2>4. work' = [work EXCEPT ![c] = v]
    BY <1>5, <2>2, <2>3 DEF DeleteFolder, FirstPc, FirstStack
  <2>5. a \in Inner(d) /\ a.folder = d /\ a.step = "files" /\ a.names = {}
    BY <2>1, <2>2 DEF Enter, Inner, Inside
  <2>6. s \in Seq(Inner(d)) /\ Len(s) = 1 /\ s[1] = a
    BY <2>2, <2>5
  <2>7. Sound(v)
    BY <2>3, <2>5, <2>6 DEF Sound
  <2>8. Covers(v)
    <3>1. v.pc = "collect" /\ v.stack = s
      BY <2>3
    <3>2. CollectLeft(a) = Sub(d)
      BY <2>5 DEF CollectLeft
    <3>3. \A i \in 1..Len(v.stack) : v.stack[i] = a
      <4>1. \A i \in 1..1 : i = 1
        OBVIOUS
      <4> QED BY <2>6, <3>1, <4>1
    <3> QED BY <2>5, <3>1, <3>2, <3>3 DEF Covers
  <2>9. Careful(v)
    BY <2>3, <2>7, <2>8 DEF Careful
  <2> QED BY <1>2, <1>5, <2>1, <2>4, <2>9 DEF DeleteFolder
<1>6. ASSUME NEW f \in Folder, NEW p \in Place, CreateFolder(f, p) PROVE Exact'
  <2>1. Thinned /\ Listed' = Listed /\ work' = work /\ object' = object
    BY <1>6, CreateThins DEF CreateFolder
  <2>2. \A e \in Client \ {} : work'[e] = work[e]
    BY <2>1
  <2> QED BY <1>1, <2>1, <2>2, ThinExact
<1> QED BY <1>3, <1>4, <1>5, <1>6, CallExact DEF Calm

LEMMA ExactStep ==
    ASSUME FoldersAssumption, Inv, Inv', HoldersLive, ExactInv, SettledStepped
    PROVE  ExactInv'
<1>1. CASE UNCHANGED <<vars, histories>>
  <2> SUFFICES ASSUME ~disturbed PROVE Exact'
    BY <1>1 DEF ExactInv, histories
  <2>1. Exact /\ UNCHANGED <<parent, loc, object, work>>
    BY <1>1 DEF ExactInv, vars
  <2>2. Thinned /\ Listed' = Listed /\ work' = work /\ object' = object
    BY <2>1, StillThins
  <2>3. object' \subseteq Listed' /\ \A e \in Client \ {} : work'[e] = work[e]
    BY <2>1, <2>2 DEF Exact
  <2> QED BY <2>1, <2>2, <2>3, ThinExact
<1>2. CASE Watch
  <2> SUFFICES ASSUME ~disturbed' PROVE Exact'
    BY DEF ExactInv
  <2>1. CASE Even'
    BY <2>1 DEF Even, Quiet, Exact, Careful
  <2>2. CASE ~Even'
    <3>1. ~disturbed /\ Calm
      BY <1>2, <2>2 DEF Watch
    <3> QED BY <3>1, CalmExact DEF ExactInv
  <2> QED BY <2>1, <2>2
<1> QED BY <1>1, <1>2 DEF SettledStepped

(* Deletions of folders with all that is in them that nothing but one      *)
(* another and new folders comes between lose no object that is listed and *)
(* leave none that is not, whatever subtrees they share.                   *)
THEOREM DeletionsAreExact == SettledSpec => []CascadeExactAlone
<1>1. Init /\ moved = FALSE /\ disturbed = FALSE => Inv /\ SettledInv /\ ExactInv
  <2> SUFFICES ASSUME Init PROVE Inv /\ SettledInv /\ ExactInv
    OBVIOUS
  <2>1. Idle \in Work /\ Idle.pc = "idle" /\ Idle.action = "none"
    BY EmptySeq DEF Idle, Work, Pcs, Place, Actions
  <2>2. Inv
    BY <2>1 DEF Init, Inv, TypeOK, Walking, Listed, Live, Place
  <2>3. HoldersLive
    BY FoldersAssumption DEF Init, HoldersLive
  <2>4. \A c \in Client : ActionFits(work[c]) /\ WalksWithin(work[c]) /\ Careful(work[c])
    BY <2>1 DEF Init, ActionFits, WalksWithin, Careful
  <2>5. object = Listed
    BY DEF Init
  <2> QED BY <2>2, <2>3, <2>4, <2>5 DEF SettledInv, WithinReach, ExactInv, Exact
<1>2. Inv /\ SettledInv /\ ExactInv /\ [Next /\ Watch]_<<vars, histories>>
        => Inv' /\ SettledInv' /\ ExactInv'
  BY SettledStep, ExactStep, FoldersAssumption DEF SettledStepped, SettledInv
<1>3. ExactInv => CascadeExactAlone
  <2> SUFFICES ASSUME Exact, Quiet PROVE object = Listed
    BY DEF ExactInv, CascadeExactAlone, NoOrphan, RowHasObject
  <2> QED BY DEF Exact, Quiet, Doomed
<1> QED BY <1>1, <1>2, <1>3, PTL DEF SettledSpec

-----------------------------------------------------------------------------
(* The TypeScript server.  What a transaction has changed: a function from *)
(* some rows to their new places.                                          *)
ReRow == Re!Row
Spot == Re!Place
Changes == UNION {[D -> Spot \union {Gone}] : D \in SUBSET ReRow}

ReFrame == [folder : Folder, step : {"children", "each", "names", "files", "row"}, todo : SUBSET Folder]

(* A call of the recursion waits for the one it has made.                  *)
ReStacks == {s \in Seq(ReFrame) : s # <<>> /\ \A i \in 2..Len(s) : s[i].step = "each"}

Walks == [pc : {"walk"}, folder : Folder, target : Spot, at : Spot]
Sets == [pc : {"set"}, folder : Folder, target : Spot]
Creates == [pc : {"create"}, folder : Folder, target : Spot, files : SUBSET UserFile]
Joins == [pc : {"connect", "disconnect"}, folder : Folder, file : UserFile]
Dialogs == [pc : {"dialog"}, folder : Folder, options : SUBSET Folder, content : BOOLEAN]
Drops == [pc : {"drop"}, folder : Folder]
Empties == [pc : {"children", "files", "commit"}, folder : Folder, target : Spot]
Descents == [pc : {"tree", "commit"}, folder : Folder, files : BOOLEAN, names : SUBSET UserFile,
           stack : ReStacks]
Erases == [pc : {"erase"}, names : SUBSET UserFile]
Chains == [pc : {"chain", "public"}, at : Spot]
Exports == [pc : {"export"}, folder : Folder, todo : SUBSET Folder, found : SUBSET UserFile]
Zips == [pc : {"zip"}, todo : SUBSET UserFile, zip : SUBSET UserFile, unread : SUBSET UserFile]

Jobs == {Re!Idle} \union Walks \union Sets \union Creates \union Joins \union Dialogs \union Drops
    \union Empties \union Descents \union Erases \union Chains \union Exports \union Zips

LEMMA ShapeOf ==
    ASSUME NEW w \in Jobs
    PROVE  /\ w.pc = "idle" => w = Re!Idle
           /\ w.pc = "walk" => w \in Walks
           /\ w.pc = "set" => w \in Sets
           /\ w.pc = "create" => w \in Creates
           /\ w.pc \in {"connect", "disconnect"} => w \in Joins
           /\ w.pc = "dialog" => w \in Dialogs
           /\ w.pc = "drop" => w \in Drops
           /\ w.pc \in {"children", "files"} => w \in Empties
           /\ w.pc = "tree" => w \in Descents
           /\ w.pc = "commit" => w \in Descents \union Empties
           /\ w.pc = "erase" => w \in Erases
           /\ w.pc \in {"chain", "public"} => w \in Chains
           /\ w.pc = "export" => w \in Exports
           /\ w.pc = "zip" => w \in Zips
<1>1. Re!Idle.pc = "idle"
  BY DEF Re!Idle
<1> QED
  BY <1>1 DEF Jobs, Walks, Sets, Creates, Joins, Dialogs, Drops, Empties, Descents, Erases, Chains, Exports, Zips

LEMMA NamesIn ==
    /\ \A w \in Descents : "names" \in DOMAIN w
    /\ \A w \in Empties : "names" \notin DOMAIN w
BY DEF Descents, Empties

LEMMA NoChangeEmpty == Re!NoChange \in Changes /\ DOMAIN Re!NoChange = {}
<1>1. DOMAIN <<>> = {} /\ <<>> \in [{} -> Spot \union {Gone}]
  OBVIOUS
<1> QED BY <1>1 DEF Re!NoChange, Changes

(* Places and rows are told apart.                                         *)
LEMMA RePlaces ==
    /\ Root \notin Folder /\ Gone \notin Folder /\ Unborn \notin Folder
    /\ Root # Gone /\ Root # Unborn /\ Gone # Unborn
    /\ Folder \intersect UserFile = {} /\ ReRow = Folder \union UserFile
    /\ Spot = Folder \union {Root} /\ {Root, Gone, Unborn} \intersect ReRow = {}
BY PartsAssumption, FoldersAssumption DEF Re!ReferenceFoldersAssumption, ReRow, Spot, Re!Row, Re!Place

LEMMA ChangesAre ==
    ASSUME NEW ch \in Changes
    PROVE  /\ DOMAIN ch \subseteq ReRow
           /\ \A r \in DOMAIN ch : ch[r] \in Spot \union {Gone}
BY DEF Changes

LEMMA ChangesMade ==
    ASSUME NEW D \in SUBSET ReRow, NEW ch \in [D -> Spot \union {Gone}]
    PROVE  ch \in Changes
BY DEF Changes

LEMMA OverMakes ==
    ASSUME NEW ch \in Changes, NEW old \in Changes
    PROVE  /\ Re!Over(ch, old) \in Changes
           /\ DOMAIN Re!Over(ch, old) = DOMAIN ch \union DOMAIN old
           /\ \A r \in DOMAIN ch : Re!Over(ch, old)[r] = ch[r]
           /\ \A r \in DOMAIN old \ DOMAIN ch : Re!Over(ch, old)[r] = old[r]
<1>1. /\ DOMAIN Re!Over(ch, old) = DOMAIN ch \union DOMAIN old
      /\ \A r \in DOMAIN ch : Re!Over(ch, old)[r] = ch[r]
      /\ \A r \in DOMAIN old \ DOMAIN ch : Re!Over(ch, old)[r] = old[r]
  BY DEF Re!Over
<1>2. Re!Over(ch, old) \in [DOMAIN ch \union DOMAIN old -> Spot \union {Gone}]
  BY ChangesAre DEF Re!Over
<1>3. DOMAIN ch \union DOMAIN old \in SUBSET ReRow
  BY ChangesAre
<1> QED BY <1>1, <1>2, <1>3, ChangesMade

LEMMA OverPlaces ==
    ASSUME NEW ch \in Changes, place \in [ReRow -> Spot \union {Gone, Unborn}]
    PROVE  /\ Re!Over(ch, place) \in [ReRow -> Spot \union {Gone, Unborn}]
           /\ \A r \in DOMAIN ch : Re!Over(ch, place)[r] = ch[r]
           /\ \A r \in ReRow \ DOMAIN ch : Re!Over(ch, place)[r] = place[r]
<1>1. DOMAIN ch \subseteq ReRow /\ \A r \in DOMAIN ch : ch[r] \in Spot \union {Gone}
  BY ChangesAre
<1>2. DOMAIN place = ReRow
  OBVIOUS
<1>3. DOMAIN ch \union DOMAIN place = ReRow
  BY <1>1, <1>2
<1> QED BY <1>1, <1>2, <1>3 DEF Re!Over

LEMMA MovedMakes ==
    ASSUME NEW rows \in SUBSET ReRow, NEW p \in Spot \union {Gone}
    PROVE  /\ Re!Moved(rows, p) \in Changes /\ DOMAIN Re!Moved(rows, p) = rows
           /\ \A r \in rows : Re!Moved(rows, p)[r] = p
<1>1. Re!Moved(rows, p) \in [rows -> Spot \union {Gone}]
  BY DEF Re!Moved
<1> QED BY <1>1, ChangesMade DEF Re!Moved

LEMMA RowDeletedMakes ==
    ASSUME NEW c \in Tab, NEW f \in Folder
    PROVE  /\ Re!RowDeleted(c, f) \in Changes
           /\ DOMAIN Re!RowDeleted(c, f) = {f} \union Re!FoldersIn(c, f) \union Re!FilesIn(c, f)
           /\ Re!RowDeleted(c, f)[f] = Gone
           /\ \A r \in (Re!FoldersIn(c, f) \union Re!FilesIn(c, f)) \ {f} : Re!RowDeleted(c, f)[r] = Root
<1> DEFINE D == {f} \union Re!FoldersIn(c, f) \union Re!FilesIn(c, f)
<1>1. D \in SUBSET ReRow
  BY RePlaces DEF Re!FoldersIn, Re!FilesIn
<1>2. Re!RowDeleted(c, f) = [r \in D |-> IF r = f THEN Gone ELSE Root]
  BY DEF Re!RowDeleted
<1> HIDE DEF D
<1>3. Re!RowDeleted(c, f) \in [D -> Spot \union {Gone}]
  BY <1>2, RePlaces
<1>4. Re!RowDeleted(c, f) \in Changes
  BY <1>1, <1>3, ChangesMade
<1>5. DOMAIN Re!RowDeleted(c, f) = D /\ \A r \in D : Re!RowDeleted(c, f)[r] = IF r = f THEN Gone ELSE Root
  BY <1>2
<1> QED BY <1>4, <1>5, RePlaces DEF D

LEMMA ViewIs ==
    ASSUME NEW c \in Tab, NEW r \in ReRow
    PROVE  Re!View(c)[r] = IF r \in DOMAIN dirty[c] THEN dirty[c][r] ELSE place[r]
BY DEF Re!View, ReRow

-----------------------------------------------------------------------------
(* Why a file keeps its object.                                            *)

May(c) == reScene.may[c]

(* A request is one that its tab may make.                                 *)
Fit(c, w) ==
    /\ w.pc # "idle" => May(c) # {}
    /\ w.pc = "create" => "create" \in May(c)
    /\ w.pc = "connect" => "add" \in May(c)
    /\ w.pc = "disconnect" => "remove" \in May(c)
    /\ w.pc \in {"children", "files"} => May(c) \intersect {"root", "folder"} # {}
    /\ w.pc = "commit" /\ w \notin Descents => May(c) \intersect {"root", "folder"} # {}

(* Only a transaction under way has changed rows, and they are locked.     *)
Held(c, w) == DOMAIN dirty[c] # {} => w.pc \in {"files", "tree", "commit"}

Locked == \A c \in Tab : \A r \in DOMAIN dirty[c] :
    /\ place[r] \in Spot
    /\ \A d \in Tab \ {c} : r \notin DOMAIN dirty[d]

(* A tab that neither fills nor empties folders.                           *)
Leaves(c) == May(c) \intersect {"add", "remove", "create", "upload", "root", "folder"} = {}

(* Its transaction deletes a file, or sends it to the root with the row of *)
(* its folder.                                                             *)
Deleted(c, r) == r \in DOMAIN dirty[c] /\ dirty[c][r] = Gone
Left(c) == Leaves(c) => \A x \in UserFile : x \in DOMAIN dirty[c] =>
    \/ dirty[c][x] = Gone
    \/ dirty[c][x] = Root /\ Deleted(c, place[x])

(* The names a deletion has read are those of the rows that it deletes, or *)
(* else it finds the folder gone and rolls back.                           *)
Pending(c, w, x) ==
    \/ place[x] = Gone
    \/ Deleted(c, x)
    \/ w.pc = "tree" /\ Head(w.stack).step = "files" /\ Re!View(c)[x] = Head(w.stack).folder
    \/ w.pc = "tree" /\ Head(w.stack).step \in {"files", "row"} /\ place[Head(w.stack).folder] = Gone

Certain(c, w) == w \in Descents => \A x \in w.names : Pending(c, w, x)

Named(c, w) ==
    /\ \A x \in UserFile : Deleted(c, x) => w \in Descents /\ x \in w.names
    /\ w.pc = "tree" /\ Head(w.stack).step = "files" => Re!FilesIn(c, Head(w.stack).folder) \subseteq w.names

Erased(w) == w.pc = "erase" => \A x \in w.names : place[x] = Gone

ReType ==
    /\ reScene \in ReferenceScene
    /\ place \in [ReRow -> Spot \union {Gone, Unborn}]
    /\ content \subseteq UserFile
    /\ dirty \in [Tab -> Changes]
    /\ request \in [Tab -> Jobs]

Sure(c, w) == Certain(c, w) /\ Named(c, w) /\ Erased(w)

(* What the record of one tab fulfils.                                     *)
Keeps(c, w) == Fit(c, w) /\ Held(c, w) /\ Left(c) /\ (Re!FilesStay => Sure(c, w))

Objects == Re!FilesStay =>
    /\ Re!Listed \subseteq content
    /\ ~reScene.faults => \A x \in content \ Re!Listed :
         \E c \in Tab : request[c].pc = "erase" /\ x \in request[c].names

ReInv == ReType /\ Locked /\ (\A c \in Tab : Keeps(c, request[c])) /\ Objects

(* What another tab may do to the rows while a deletion is under way.      *)
Tidy ==
    /\ \A r \in ReRow : place[r] = Gone => place'[r] = Gone
    /\ \A x \in UserFile :
        \/ place'[x] = place[x] \/ place'[x] = Gone
        \/ place[x] \in Folder /\ place'[x] = Root /\ place'[place[x]] = Gone

LEMMA OthersKeep ==
    ASSUME ReType, ReType', UNCHANGED reScene, NEW d \in Tab, Locked, Keeps(d, request[d]),
           request'[d] = request[d], dirty'[d] = dirty[d],
           \A r \in DOMAIN dirty[d] : place'[r] = place[r],
           Re!FilesStay /\ request[d].pc # "idle" => Tidy
    PROVE  Keeps(d, request[d])'
<1> DEFINE w == request[d]
<1>0. /\ w \in Jobs /\ dirty[d] \in Changes /\ DOMAIN dirty[d] \subseteq ReRow
      /\ May(d)' = May(d) /\ Re!FilesStay' = Re!FilesStay
  BY ChangesAre DEF ReType, May, Re!FilesStay
<1> HIDE DEF w
<1>1. Fit(d, w)' /\ Held(d, w)'
  BY <1>0 DEF Keeps, Fit, Held, w
<1>2. \A r : Deleted(d, r)' <=> Deleted(d, r)
  BY DEF Deleted
<1>3. Left(d)'
  BY <1>0, <1>2 DEF Keeps, Left, Leaves
<1>4. ASSUME Re!FilesStay PROVE Sure(d, w)'
  <2>1. Sure(d, w) /\ Held(d, w)
    BY <1>0, <1>4 DEF Keeps, w
  <2>2. CASE w.pc = "idle"
    <3>1. w \notin Descents
      BY <2>2 DEF Descents
    <3>2. DOMAIN dirty[d] = {}
      BY <2>1, <2>2 DEF Held
    <3>3. w' = w
      BY DEF w
    <3> QED BY <2>2, <3>1, <3>2, <3>3, <1>2 DEF Sure, Certain, Named, Erased, Deleted
  <2>3. CASE w.pc # "idle"
    <3>0. Tidy /\ w' = w
      BY <2>3, <1>4 DEF w
    <3>1. Erased(w)'
      <4>1. CASE w.pc = "erase"
        <5>1. w.names \subseteq ReRow
          BY <4>1, <1>0, ShapeOf, RePlaces DEF Erases
        <5> QED BY <2>1, <3>0, <5>1 DEF Sure, Erased, Tidy
      <4> QED BY <4>1, <3>0 DEF Erased
    <3>2. ASSUME w \in Descents, NEW x \in w.names PROVE Pending(d, w, x)'
      <4>0. x \in UserFile /\ x \in ReRow /\ w.stack \in Seq(ReFrame) /\ w.stack # <<>>
        BY <3>2, RePlaces DEF Descents, ReStacks
      <4>1. Head(w.stack) \in ReFrame
        BY <4>0, HeadTailProperties
      <4>2. Head(w.stack).folder \in Folder /\ Head(w.stack).folder \in ReRow
        BY <4>1, RePlaces DEF ReFrame
      <4>3. Re!View(d)[x] = IF x \in DOMAIN dirty[d] THEN dirty[d][x] ELSE place[x]
        BY <4>0, ViewIs
      <4>4. Re!View(d)'[x] = IF x \in DOMAIN dirty[d] THEN dirty[d][x] ELSE place'[x]
        BY <4>0 DEF Re!View, ReRow
      <4>5. Pending(d, w, x)
        BY <2>1, <3>2 DEF Sure, Certain
      <4>6. CASE place[x] = Gone \/ Deleted(d, x)
        BY <4>6, <4>0, <3>0, <1>2 DEF Pending, Tidy
      <4>7. CASE w.pc = "tree" /\ Head(w.stack).step = "files" /\ Re!View(d)[x] = Head(w.stack).folder
        <5>1. Re!View(d)'[x] = Head(w.stack).folder \/ place'[x] = Gone \/ place'[Head(w.stack).folder] = Gone
          BY <4>0, <4>2, <4>3, <4>4, <4>7, <3>0, RePlaces DEF Tidy
        <5> QED BY <5>1, <4>7, <3>0 DEF Pending
      <4>8. CASE w.pc = "tree" /\ Head(w.stack).step \in {"files", "row"} /\ place[Head(w.stack).folder] = Gone
        <5>1. place'[Head(w.stack).folder] = Gone
          BY <4>2, <4>8, <3>0 DEF Tidy
        <5> QED BY <5>1, <4>8, <3>0 DEF Pending
      <4> QED BY <4>5, <4>6, <4>7, <4>8 DEF Pending
    <3>3. Named(d, w)'
      <4>1. ASSUME w.pc = "tree" PROVE Re!FilesIn(d, Head(w.stack).folder)' \subseteq Re!FilesIn(d, Head(w.stack).folder)
        <5>0. w \in Descents
          BY <4>1, <1>0, ShapeOf
        <5>1. Head(w.stack) \in ReFrame
          <6>1. w.stack \in Seq(ReFrame) /\ w.stack # <<>>
            BY <5>0 DEF Descents, ReStacks
          <6> QED BY <6>1, HeadTailProperties
        <5> DEFINE f == Head(w.stack).folder
        <5>2. f \in Folder /\ f' = f
          BY <5>1, <3>0 DEF ReFrame
        <5> HIDE DEF f
        <5>3. ASSUME NEW x \in UserFile, Re!View(d)'[x] = f PROVE Re!View(d)[x] = f
          <6>1. x \in ReRow
            BY RePlaces
          <6>2. Re!View(d)'[x] = IF x \in DOMAIN dirty[d] THEN dirty[d][x] ELSE place'[x]
            BY <6>1 DEF Re!View, ReRow
          <6> QED BY <6>1, <6>2, <5>2, <5>3, <3>0, ViewIs, RePlaces DEF Tidy
        <5> QED BY <5>2, <5>3 DEF Re!FilesIn, f
      <4> QED BY <4>1, <2>1, <3>0, <1>2 DEF Sure, Named
    <3> QED BY <3>0, <3>1, <3>2, <3>3 DEF Sure, Certain
  <2> QED BY <2>2, <2>3
<1> QED BY <1>0, <1>1, <1>3, <1>4 DEF Keeps, w

(* The forms of a step.  It writes the record of one tab; the rows it      *)
(* changes are not those that another transaction has changed.             *)
LEMMA StepKeeps ==
    ASSUME ReInv, ReType', UNCHANGED reScene, NEW c \in Tab, NEW w \in Jobs,
           request' = [request EXCEPT ![c] = w],
           \A d \in Tab \ {c} : dirty'[d] = dirty[d] /\ \A r \in DOMAIN dirty[d] : place'[r] = place[r],
           Re!FilesStay /\ Leaves(c) => Tidy,
           Keeps(c, w)', Locked', Objects'
    PROVE  ReInv'
<1>1. request'[c] = w /\ \A d \in Tab \ {c} : request'[d] = request[d]
  BY DEF ReInv, ReType
<1>2. ASSUME NEW d \in Tab, d # c PROVE Keeps(d, request[d])'
  <2>1. ASSUME Re!FilesStay, request[d].pc # "idle" PROVE Leaves(c)
    <3>1. May(d) # {}
      BY <2>1, <1>2 DEF ReInv, Keeps, Fit
    <3> QED BY <3>1, <2>1, <1>2 DEF Re!FilesStay, Leaves, May
  <2>2. ReType /\ Locked /\ Keeps(d, request[d])
    BY <1>2 DEF ReInv
  <2> QED BY <1>1, <1>2, <2>1, <2>2, OthersKeep
<1>3. Keeps(c, request[c])'
  BY <1>1
<1> QED BY <1>2, <1>3 DEF ReInv

(* Nothing but the record.                                                 *)
LEMMA RecordStep ==
    ASSUME ReInv, UNCHANGED <<reScene, place, content, dirty>>, NEW c \in Tab, NEW w \in Jobs,
           request' = [request EXCEPT ![c] = w], request[c].pc # "erase",
           Fit(c, w), Held(c, w), Re!FilesStay => Sure(c, w)
    PROVE  ReInv'
<1>1. ReType'
  BY DEF ReInv, ReType
<1>2. request'[c] = w /\ \A d \in Tab \ {c} : request'[d] = request[d]
  BY DEF ReInv, ReType
<1>3. Keeps(c, w)'
  <2>1. Left(c)' /\ Fit(c, w)' /\ Held(c, w)'
    BY DEF ReInv, Keeps, Left, Leaves, May, Deleted, Fit, Held
  <2>2. Re!View(c)' = Re!View(c)
    BY DEF Re!View
  <2>3. (Re!FilesStay => Sure(c, w))'
    BY <2>2 DEF Re!FilesStay, Sure, Certain, Pending, Named, Erased, Deleted, Re!FilesIn
  <2> QED BY <2>1, <2>3 DEF Keeps
<1>4. Locked' /\ Tidy
  BY DEF ReInv, Locked, Tidy
<1>5. Objects'
  <2>1. Re!Listed' = Re!Listed /\ Re!FilesStay' = Re!FilesStay
    BY DEF Re!Listed, Re!FilesStay
  <2> QED BY <1>2, <2>1 DEF ReInv, Objects
<1> QED BY <1>1, <1>3, <1>4, <1>5, StepKeeps

(* What a request is doing outside a transaction.                          *)
Outside == {"idle", "walk", "set", "create", "connect", "disconnect", "dialog", "drop", "children", "chain",
            "public", "export", "zip"}

(* A request that has changed nothing yet goes on, or ends.                *)
LEMMA PlainStep ==
    ASSUME ReInv, UNCHANGED <<reScene, place, content, dirty>>, NEW c \in Tab, NEW w \in Jobs,
           request' = [request EXCEPT ![c] = w],
           request[c].pc \in Outside, w.pc \in Outside, Fit(c, w)
    PROVE  ReInv'
<1>1. DOMAIN dirty[c] = {}
  BY DEF ReInv, Keeps, Held, Outside
<1>2. w \notin Descents
  BY DEF Descents, Outside
<1> QED
  BY <1>1, <1>2, RecordStep DEF Held, Sure, Certain, Named, Erased, Deleted, Outside

LEMMA PlacesAre ==
    ASSUME ReType
    PROVE  /\ \A f \in Folder : f \in Re!Live <=> place[f] \in Spot
           /\ Re!Live \subseteq Folder /\ Folder \subseteq Spot /\ Root \in Spot
           /\ \A x \in UserFile : x \in Re!Listed <=> place[x] \in Spot
           /\ Re!Listed \subseteq UserFile
BY RePlaces DEF Re!Live, Re!Listed, Spot

LEMMA IdleJob == Re!Idle \in Jobs /\ Re!Idle.pc = "idle" /\ \A c : Fit(c, Re!Idle)
BY DEF Re!Idle, Jobs, Fit

(* A request ends that has changed nothing.                                *)
LEMMA PlainEnd ==
    ASSUME ReInv, UNCHANGED <<reScene, place, content, dirty>>, NEW c \in Tab, Re!Finish(c),
           request[c].pc \in Outside
    PROVE  ReInv'
BY IdleJob, PlainStep DEF Re!Finish, Re!Goto, Outside

LEMMA ReadsBegin ==
    ASSUME ReInv, UNCHANGED reScene, NEW c \in Tab, request[c] = Re!Idle,
           NEW kind \in May(c), Re!Begins(c, kind), kind # "upload"
    PROVE  ReInv'
<1> DEFINE Starts(w) == /\ UNCHANGED <<place, content, dirty>> /\ request' = [request EXCEPT ![c] = w]
                        /\ w \in Jobs /\ w.pc \in Outside /\ Fit(c, w)
<1>0. ASSUME NEW w, Starts(w) PROVE ReInv'
  BY <1>0, IdleJob, PlainStep DEF Outside
<1> HIDE DEF Starts
<1>a. May(c) # {} /\ ReType
  BY DEF ReInv
<1>1. CASE kind = "move"
  <2>1. PICK f \in Folder, p \in Spot : Re!Patch(c, f, p)
    BY <1>1 DEF Re!Begins, Spot
  <2>2. CASE p = Root
    <3> DEFINE w == [pc |-> "set", folder |-> f, target |-> p]
    <3>1. Starts(w)
      BY <1>a, <2>1, <2>2 DEF Re!Patch, Re!Goto, Starts, Jobs, Sets, Outside, Fit
    <3> QED BY <1>0, <3>1
  <2>3. CASE p # Root
    <3> DEFINE w == [pc |-> "walk", folder |-> f, target |-> p, at |-> place[p]]
    <3>1. place[p] \in Spot
      BY <1>a, <2>1, <2>3, PlacesAre DEF Re!Patch
    <3>2. Starts(w)
      BY <1>a, <2>1, <2>3, <3>1 DEF Re!Patch, Re!Goto, Starts, Jobs, Walks, Outside, Fit
    <3> QED BY <1>0, <3>2
  <2> QED BY <2>2, <2>3
<1>2. CASE kind = "create"
  <2>1. PICK g \in Folder, p \in Spot, xs \in {{}} \union {{x} : x \in UserFile} : Re!Create(c, g, p, xs)
    BY <1>2 DEF Re!Begins, Spot
  <2> DEFINE w == [pc |-> "create", folder |-> g, target |-> p, files |-> xs]
  <2>2. xs \in SUBSET UserFile
    OBVIOUS
  <2>3. Starts(w)
    BY <1>a, <1>2, <2>1, <2>2 DEF Re!Create, Re!Goto, Starts, Jobs, Creates, Outside, Fit
  <2> QED BY <1>0, <2>3
<1>3. CASE kind = "add"
  <2>1. PICK f \in Folder, x \in UserFile : Re!AddFile(c, f, x)
    BY <1>3 DEF Re!Begins
  <2> DEFINE w == [pc |-> "connect", folder |-> f, file |-> x]
  <2>3. Starts(w)
    BY <1>a, <1>3, <2>1 DEF Re!AddFile, Re!Goto, Starts, Jobs, Joins, Outside, Fit
  <2> QED BY <1>0, <2>3
<1>4. CASE kind = "remove"
  <2>1. PICK f \in Folder, x \in UserFile : Re!RemoveFile(c, f, x)
    BY <1>4 DEF Re!Begins
  <2> DEFINE w == [pc |-> "disconnect", folder |-> f, file |-> x]
  <2>3. Starts(w)
    BY <1>a, <1>4, <2>1 DEF Re!RemoveFile, Re!Goto, Starts, Jobs, Joins, Outside, Fit
  <2> QED BY <1>0, <2>3
<1>5. CASE kind = "chain"
  <2>1. PICK f \in Folder : Re!ReadFolder(c, f) \/ Re!ReadPublicFolder(c, f)
    BY <1>5 DEF Re!Begins
  <2>2. f \in Re!Live => place[f] \in Spot
    BY <1>a, PlacesAre
  <2>3. CASE Re!ReadFolder(c, f)
    <3> DEFINE w == [pc |-> "chain", at |-> place[f]]
    <3>1. Starts(w)
      BY <1>a, <2>2, <2>3 DEF Re!ReadFolder, Re!Goto, Starts, Jobs, Chains, Outside, Fit
    <3> QED BY <1>0, <3>1
  <2>4. CASE Re!ReadPublicFolder(c, f)
    <3> DEFINE w == [pc |-> "public", at |-> place[f]]
    <3>1. Starts(w)
      BY <1>a, <2>2, <2>4 DEF Re!ReadPublicFolder, Re!Goto, Starts, Jobs, Chains, Outside, Fit
    <3> QED BY <1>0, <3>1
  <2> QED BY <2>1, <2>3, <2>4
<1>6. CASE kind = "export"
  <2>1. PICK f \in Folder : Re!Export(c, f)
    BY <1>6 DEF Re!Begins
  <2> DEFINE w == [pc |-> "export", folder |-> f, todo |-> {f}, found |-> {}]
  <2>3. Starts(w)
    BY <1>a, <2>1 DEF Re!Export, Re!Goto, Starts, Jobs, Exports, Outside, Fit
  <2> QED BY <1>0, <2>3
<1>7. CASE kind \notin {"move", "create", "add", "remove", "chain", "export"}
  <2>1. PICK f \in Folder : Re!OpenDialog(c, f)
    BY <1>7 DEF Re!Begins
  <2> DEFINE w == [pc |-> "dialog", folder |-> f, options |-> Re!Offered(f),
                   content |-> Re!FoldersIn(c, f) \union Re!FilesIn(c, f) # {}]
  <2>2. Re!Offered(f) \subseteq Folder
    BY <1>a, PlacesAre DEF Re!Offered
  <2>3. request' = [request EXCEPT ![c] = w] /\ UNCHANGED <<place, content, dirty>>
    BY <2>1 DEF Re!OpenDialog, Re!Goto
  <2>5. (Re!FoldersIn(c, f) \union Re!FilesIn(c, f) # {}) \in BOOLEAN
    OBVIOUS
  <2>4. w \in Dialogs
    BY <2>2, <2>5 DEF Dialogs
  <2>6. w.pc = "dialog"
    OBVIOUS
  <2> HIDE DEF w
  <2>7. Starts(w)
    BY <1>a, <2>3, <2>4, <2>6 DEF Starts, Jobs, Outside, Fit
  <2> QED BY <1>0, <2>7
<1> QED BY <1>1, <1>2, <1>3, <1>4, <1>5, <1>6, <1>7

ReadStep(c) ==
    \/ Re!Walk(c) \/ Re!BuildParentChain(c) \/ Re!BuildPublicParentChain(c)
    \/ Re!BeginZip(c) \/ Re!EndZip(c) \/ Re!CloseDialog(c)
    \/ \E g \in Folder : Re!GetFolderTree(c, g)
    \/ \E x \in UserFile : Re!AddFolderToZip(c, x) \/ Re!SkipUnread(c, x)

LEMMA ReadsGoOn ==
    ASSUME ReInv, UNCHANGED reScene, NEW c \in Tab, ReadStep(c)
    PROVE  ReInv'
<1> DEFINE Goes(w) == /\ UNCHANGED <<place, content, dirty>> /\ request' = [request EXCEPT ![c] = w]
                      /\ w \in Jobs /\ w.pc \in Outside /\ Fit(c, w)
                      /\ request[c].pc \in Outside
<1>0. ASSUME NEW w, Goes(w) PROVE ReInv'
  BY <1>0, PlainStep
<1>i. UNCHANGED <<place, content, dirty>> /\ Re!Finish(c) /\ request[c].pc \in Outside => ReInv'
  BY PlainEnd
<1> HIDE DEF Goes
<1>a. /\ ReType /\ request[c] \in Jobs /\ Fit(c, request[c])
      /\ \A f \in Folder : f \in Re!Live <=> place[f] \in Spot
      /\ Re!Live \subseteq Folder /\ Folder \subseteq Spot /\ Root \in Spot
  BY PlacesAre DEF ReInv, ReType, Keeps
<1>1. CASE Re!Walk(c)
  <2>1. request[c] \in Walks
    BY <1>1, <1>a, ShapeOf DEF Re!Walk
  <2> DEFINE u == request[c]
  <2>2. CASE u.at = u.folder
    <3>1. u.at # Root
      BY <2>1, <2>2, RePlaces DEF Walks
    <3> QED BY <1>1, <1>i, <2>2, <3>1 DEF Re!Walk, Outside
  <2>3. CASE u.at # u.folder /\ u.at = Root
    <3> DEFINE w == [pc |-> "set", folder |-> u.folder, target |-> u.target]
    <3>1. w \in Sets
      BY <2>1 DEF Sets, Walks
    <3>2. Goes(w)
      BY <1>1, <1>a, <2>3, <3>1 DEF Re!Walk, Re!Goto, Goes, Jobs, Outside, Fit
    <3> QED BY <1>0, <3>2
  <2>4. CASE u.at # u.folder /\ u.at # Root
    <3> DEFINE a == IF u.at \in Re!Live THEN place[u.at] ELSE Root
               w == [u EXCEPT !.at = a]
    <3>1. a \in Spot
      BY <2>1, <1>a DEF Walks
    <3>2. request' = [request EXCEPT ![c] = w] /\ UNCHANGED <<place, content, dirty>> /\ u.pc = "walk"
      BY <1>1, <2>4 DEF Re!Walk, Re!Goto
    <3> HIDE DEF a
    <3>3. w \in Walks /\ w.pc = "walk"
      BY <2>1, <3>1 DEF Walks
    <3> HIDE DEF w
    <3>4. Goes(w)
      BY <1>a, <3>2, <3>3 DEF Goes, Jobs, Outside, Fit
    <3> QED BY <1>0, <3>4
  <2> QED BY <2>2, <2>3, <2>4
<1>2. CASE Re!BuildParentChain(c) \/ Re!BuildPublicParentChain(c)
  <2>1. request[c] \in Chains /\ UNCHANGED <<place, content, dirty>> /\ request[c].pc \in {"chain", "public"}
    BY <1>2, <1>a, ShapeOf DEF Re!BuildParentChain, Re!BuildPublicParentChain
  <2> DEFINE u == request[c]
             w == [u EXCEPT !.at = place[u.at]]
  <2>2. Re!Finish(c) \/ (u.at \in Re!Live /\ request' = [request EXCEPT ![c] = w])
    BY <1>2 DEF Re!BuildParentChain, Re!BuildPublicParentChain, Re!Goto, Re!Finish
  <2>3. CASE Re!Finish(c)
    BY <1>i, <2>1, <2>3 DEF Outside
  <2>4. CASE u.at \in Re!Live /\ request' = [request EXCEPT ![c] = w]
    <3>1. place[u.at] \in Spot
      BY <2>4, <1>a
    <3>2. w \in Chains /\ w.pc = u.pc
      BY <2>1, <3>1 DEF Chains
    <3>3. Goes(w)
      BY <1>a, <2>1, <2>4, <3>2 DEF Goes, Jobs, Outside, Fit
    <3> QED BY <1>0, <3>3
  <2> QED BY <2>2, <2>3, <2>4
<1>3. CASE Re!BeginZip(c)
  <2>1. request[c] \in Exports
    BY <1>3, <1>a, ShapeOf DEF Re!BeginZip
  <2> DEFINE w == [pc |-> "zip", todo |-> request[c].found, zip |-> {}, unread |-> {}]
  <2>2. Goes(w)
    BY <1>3, <1>a, <2>1 DEF Re!BeginZip, Re!Goto, Goes, Exports, Zips, Jobs, Outside, Fit
  <2> QED BY <1>0, <2>2
<1>4. CASE Re!EndZip(c) \/ Re!CloseDialog(c)
  BY <1>4, <1>i DEF Re!EndZip, Re!CloseDialog, Outside
<1>5. ASSUME NEW g \in Folder, Re!GetFolderTree(c, g) PROVE ReInv'
  <2>1. request[c] \in Exports /\ request[c].pc = "export"
    BY <1>5, <1>a, ShapeOf DEF Re!GetFolderTree
  <2> DEFINE u == request[c]
             w == [u EXCEPT !.todo = (u.todo \ {g}) \union {h \in Folder : place[h] = g},
                            !.found = u.found \union {x \in UserFile : place[x] = g}]
  <2>2. w \in Exports /\ w.pc = "export"
    BY <2>1 DEF Exports
  <2>3. request' = [request EXCEPT ![c] = w] /\ UNCHANGED <<place, content, dirty>>
    BY <1>5 DEF Re!GetFolderTree, Re!Goto
  <2> HIDE DEF w
  <2>4. Goes(w)
    BY <1>a, <2>1, <2>2, <2>3 DEF Goes, Jobs, Outside, Fit
  <2> QED BY <1>0, <2>4
<1>6. ASSUME NEW x \in UserFile, Re!AddFolderToZip(c, x) PROVE ReInv'
  <2>1. request[c] \in Zips /\ request[c].pc = "zip"
    BY <1>6, <1>a, ShapeOf DEF Re!AddFolderToZip
  <2> DEFINE u == request[c]
             w == [u EXCEPT !.todo = u.todo \ {x}, !.zip = u.zip \union ({x} \intersect content)]
  <2>2. w \in Zips /\ w.pc = "zip"
    BY <2>1 DEF Zips
  <2>3. request' = [request EXCEPT ![c] = w] /\ UNCHANGED <<place, content, dirty>>
    BY <1>6 DEF Re!AddFolderToZip, Re!Goto
  <2> HIDE DEF w
  <2>4. Goes(w)
    BY <1>a, <2>1, <2>2, <2>3 DEF Goes, Jobs, Outside, Fit
  <2> QED BY <1>0, <2>4
<1>7. ASSUME NEW x \in UserFile, Re!SkipUnread(c, x) PROVE ReInv'
  <2>1. request[c] \in Zips /\ request[c].pc = "zip"
    BY <1>7, <1>a, ShapeOf DEF Re!SkipUnread
  <2> DEFINE u == request[c]
             w == [u EXCEPT !.todo = u.todo \ {x}, !.unread = u.unread \union {x}]
  <2>2. w \in Zips /\ w.pc = "zip"
    BY <2>1 DEF Zips
  <2>3. request' = [request EXCEPT ![c] = w] /\ UNCHANGED <<place, content, dirty>>
    BY <1>7 DEF Re!SkipUnread, Re!Goto
  <2> HIDE DEF w
  <2>4. Goes(w)
    BY <1>a, <2>1, <2>2, <2>3 DEF Goes, Jobs, Outside, Fit
  <2> QED BY <1>0, <2>4
<1> QED BY <1>1, <1>2, <1>3, <1>4, <1>5, <1>6, <1>7 DEF ReadStep

LEMMA FrameMade ==
    ASSUME NEW f \in Folder
    PROVE  LET s == <<[folder |-> f, step |-> "children", todo |-> {}]>>
           IN  s \in ReStacks /\ Head(s).step = "children"
BY DEF ReFrame, ReStacks

(* The dialog's answer.                                                    *)
LEMMA DeleteBegins ==
    ASSUME ReInv, UNCHANGED reScene, NEW c \in Tab,
           NEW action \in Re!ChildrenActions, NEW target \in Spot, Re!Delete(c, action, target)
    PROVE  ReInv'
<1> DEFINE u == request[c]
<1>1. u \in Dialogs /\ u.pc = "dialog" /\ UNCHANGED <<place, content, dirty>> /\ action \in May(c)
  BY ShapeOf DEF Re!Delete, ReInv, ReType, May
<1>2. u.folder \in Folder
  BY <1>1 DEF Dialogs
<1> DEFINE wd == [pc |-> "drop", folder |-> u.folder]
           we == [pc |-> "children", folder |-> u.folder, target |-> target]
           s == <<[folder |-> u.folder, step |-> "children", todo |-> {}]>>
           wt == [pc |-> "tree", folder |-> u.folder, files |-> action = "cascade-files", names |-> {}, stack |-> s]
<1>3. \/ Re!Finish(c)
      \/ action = "none" /\ request' = [request EXCEPT ![c] = wd]
      \/ action \in {"root", "folder"} /\ request' = [request EXCEPT ![c] = we]
      \/ request' = [request EXCEPT ![c] = wt]
  <2>1. CASE u.folder \notin Re!Live \/ target \notin Re!Live \union {Root}
    BY <2>1 DEF Re!Delete, Re!Goto, Re!Finish
  <2>2. CASE ~(u.folder \notin Re!Live \/ target \notin Re!Live \union {Root}) /\ action = "none"
    BY <2>2 DEF Re!Delete, Re!Goto
  <2>3. CASE ~(u.folder \notin Re!Live \/ target \notin Re!Live \union {Root}) /\ action \in {"root", "folder"}
    BY <2>3 DEF Re!Delete, Re!Goto
  <2>4. CASE ~(u.folder \notin Re!Live \/ target \notin Re!Live \union {Root}) /\ action \notin {"root", "folder", "none"}
    BY <2>4 DEF Re!Delete, Re!Goto
  <2> QED BY <2>1, <2>2, <2>3, <2>4
<1>4. CASE Re!Finish(c)
  BY <1>1, <1>4, PlainEnd DEF Outside
<1>5. CASE action = "none" /\ request' = [request EXCEPT ![c] = wd]
  <2>1. wd \in Jobs /\ wd.pc \in Outside /\ Fit(c, wd)
    BY <1>1, <1>2 DEF Jobs, Drops, Outside, Fit
  <2> QED BY <1>1, <1>5, <2>1, PlainStep DEF Outside
<1>6. CASE action \in {"root", "folder"} /\ request' = [request EXCEPT ![c] = we]
  <2>1. we \in Jobs /\ we.pc \in Outside /\ Fit(c, we)
    BY <1>1, <1>2, <1>6 DEF Jobs, Empties, Outside, Fit
  <2> QED BY <1>1, <1>6, <2>1, PlainStep DEF Outside
<1>7. CASE request' = [request EXCEPT ![c] = wt]
  <2>1. s \in ReStacks /\ Head(s).step = "children"
    BY <1>2, FrameMade
  <2> HIDE DEF s
  <2>2. wt \in Descents /\ wt.pc = "tree" /\ wt.names = {} /\ wt.stack = s
    BY <1>2, <2>1 DEF Descents
  <2> HIDE DEF wt
  <2>3. wt \in Jobs /\ Fit(c, wt) /\ Held(c, wt)
    BY <1>1, <2>2 DEF Jobs, Fit, Held
  <2>4. DOMAIN dirty[c] = {}
    BY <1>1 DEF ReInv, Keeps, Held
  <2>5. Sure(c, wt)
    BY <2>1, <2>2, <2>4 DEF Sure, Certain, Named, Erased, Deleted
  <2> QED BY <1>1, <1>7, <2>3, <2>5, RecordStep
<1> QED BY <1>3, <1>4, <1>5, <1>6, <1>7

LEMMA FramePushed ==
    ASSUME NEW a \in ReFrame, NEW s \in Seq(ReFrame), \A i \in 1..Len(s) : s[i].step = "each"
    PROVE  /\ <<a>> \o s \in ReStacks /\ Head(<<a>> \o s) = a
           /\ \A b \in ReFrame : b.step = "each" =>
                <<a, b>> \o s \in ReStacks /\ Head(<<a, b>> \o s) = a
<1>1. <<a>> \in Seq(ReFrame) /\ Len(<<a>>) = 1 /\ <<a>>[1] = a /\ Len(s) \in Nat
  BY LenProperties
<1>2. <<a>> \o s \in ReStacks /\ Head(<<a>> \o s) = a
  <2> DEFINE t == <<a>> \o s
  <2>1. t \in Seq(ReFrame) /\ Len(t) = 1 + Len(s) /\ \A i \in 1..1 + Len(s) : t[i] = IF i <= 1 THEN a ELSE s[i - 1]
    BY <1>1, ConcatProperties, SMT
  <2> HIDE DEF t
  <2>2. t # <<>> /\ t[1] = a
    BY <1>1, <2>1
  <2>3. Head(t) = a
    BY <2>1, <2>2, HeadTailProperties
  <2>4. \A i \in 2..Len(t) : t[i].step = "each"
    BY <1>1, <2>1
  <2> QED BY <2>1, <2>2, <2>3, <2>4 DEF ReStacks, t
<1>3. ASSUME NEW b \in ReFrame, b.step = "each" PROVE <<a, b>> \o s \in ReStacks /\ Head(<<a, b>> \o s) = a
  <2> DEFINE t == <<a, b>> \o s
  <2>0. <<a, b>> \in Seq(ReFrame) /\ Len(<<a, b>>) = 2 /\ <<a, b>>[1] = a /\ <<a, b>>[2] = b
    OBVIOUS
  <2>1. t \in Seq(ReFrame) /\ Len(t) = 2 + Len(s)
        /\ \A i \in 1..2 + Len(s) : t[i] = IF i <= 2 THEN <<a, b>>[i] ELSE s[i - 2]
    BY <1>1, <2>0, ConcatProperties, SMT
  <2> HIDE DEF t
  <2>2. t # <<>> /\ t[1] = a
    BY <1>1, <2>0, <2>1
  <2>3. Head(t) = a
    BY <2>1, <2>2, HeadTailProperties
  <2>4. \A i \in 2..Len(t) : t[i].step = "each"
    <3>1. ASSUME NEW i \in 2..Len(t) PROVE t[i].step = "each"
      <4>1. CASE i = 2
        BY <1>1, <1>3, <2>0, <2>1, <4>1
      <4>2. CASE i # 2
        <5>1. i - 2 \in 1..Len(s) /\ t[i] = s[i - 2]
          BY <1>1, <2>1, <4>2
        <5> QED BY <5>1
      <4> QED BY <4>1, <4>2
    <3> QED BY <3>1
  <2> QED BY <2>1, <2>2, <2>3, <2>4 DEF ReStacks, t
<1> QED BY <1>2, <1>3

(* What a step of a recursive deletion finds.                              *)
LEMMA InTree ==
    ASSUME ReInv, NEW c \in Tab, request[c].pc = "tree"
    PROVE  /\ request[c] \in Descents /\ request[c] \in Jobs
           /\ Re!Top(c) = Head(request[c].stack) /\ Re!Top(c) \in ReFrame
           /\ Tail(request[c].stack) \in Seq(ReFrame) /\ request[c].stack \in ReStacks
           /\ \A i \in 1..Len(Tail(request[c].stack)) : Tail(request[c].stack)[i].step = "each"
           /\ May(c) # {}
<1>1. request[c] \in Descents /\ request[c] \in Jobs
  BY ShapeOf DEF ReInv, ReType
<1>2. request[c].stack \in ReStacks
  BY <1>1 DEF Descents
<1> DEFINE s == request[c].stack
<1>3. /\ Head(s) \in ReFrame /\ Tail(s) \in Seq(ReFrame)
      /\ \A i \in 1..Len(Tail(s)) : Tail(s)[i].step = "each"
  <2>1. s \in Seq(ReFrame) /\ s # <<>> /\ \A i \in 2..Len(s) : s[i].step = "each"
    BY <1>2 DEF ReStacks
  <2> HIDE DEF s
  <2>2. /\ Head(s) \in ReFrame /\ Tail(s) \in Seq(ReFrame) /\ Len(Tail(s)) = Len(s) - 1 /\ Len(s) \in Nat
        /\ \A i \in 1..Len(Tail(s)) : Tail(s)[i] = s[i + 1]
    BY <2>1, HeadTailProperties, LenProperties
  <2>3. \A i \in 1..Len(Tail(s)) : i + 1 \in 2..Len(s)
    BY <2>2
  <2> QED BY <2>1, <2>2, <2>3
<1>4. May(c) # {}
  BY DEF ReInv, Keeps, Fit
<1> QED BY <1>1, <1>2, <1>3, <1>4 DEF Re!Top

(* A step of it that changes no row: the next call, or the names.          *)
LEMMA TreeRecord ==
    ASSUME ReInv, UNCHANGED <<reScene, place, content, dirty>>, NEW c \in Tab, request[c].pc = "tree",
           NEW a \in ReFrame, NEW s \in ReStacks, Head(s) = a,
           NEW names \in SUBSET UserFile, request[c].names \subseteq names,
           request' = [request EXCEPT ![c] = [request[c] EXCEPT !.stack = s, !.names = names]],
           Re!FilesStay => \A x \in names : \/ place[x] = Gone \/ Deleted(c, x)
                                            \/ a.step = "files" /\ Re!View(c)[x] = a.folder,
           a.step = "files" => Re!FilesIn(c, a.folder) \subseteq names
    PROVE  ReInv'
<1> DEFINE w == [request[c] EXCEPT !.stack = s, !.names = names]
<1>1. request[c] \in Descents /\ May(c) # {}
  BY InTree
<1>2. w \in Descents /\ w.pc = "tree" /\ w.stack = s /\ w.names = names
  BY <1>1 DEF Descents
<1> HIDE DEF w
<1>3. w \in Jobs /\ Fit(c, w) /\ Held(c, w)
  BY <1>1, <1>2 DEF Jobs, Fit, Held
<1>4. ASSUME Re!FilesStay PROVE Sure(c, w)
  <2>1. Named(c, request[c])
    BY <1>4 DEF ReInv, Keeps, Sure
  <2>2. Named(c, w)
    BY <2>1, <1>1, <1>2 DEF Named
  <2>3. Certain(c, w) /\ Erased(w)
    BY <1>2, <1>4 DEF Certain, Erased, Pending
  <2> QED BY <2>2, <2>3 DEF Sure
<1>5. request' = [request EXCEPT ![c] = w]
  BY DEF w
<1> QED BY <1>3, <1>4, <1>5, RecordStep

TreeRead(c) ==
    \/ Re!ReadChildren(c) \/ Re!Descended(c) \/ Re!ReadNames(c)
    \/ \E g \in Folder : Re!Descend(c, g)

LEMMA TreeReads ==
    ASSUME ReInv, UNCHANGED reScene, NEW c \in Tab, TreeRead(c)
    PROVE  ReInv'
<1> DEFINE u == request[c]
           top == Re!Top(c)
<1>1. u.pc = "tree" /\ UNCHANGED <<place, content, dirty>>
  BY DEF TreeRead, Re!ReadChildren, Re!Descended, Re!ReadNames, Re!Descend, Re!At
<1>2. /\ u \in Descents /\ top = Head(u.stack) /\ top \in ReFrame /\ Tail(u.stack) \in Seq(ReFrame)
      /\ \A i \in 1..Len(Tail(u.stack)) : Tail(u.stack)[i].step = "each"
      /\ Re!Top(c).step = top.step
  BY <1>1, InTree
<1>3. u.names \in SUBSET UserFile
  BY <1>2 DEF Descents
<1>a. ASSUME NEW s PROVE [u EXCEPT !.stack = s] = [u EXCEPT !.stack = s, !.names = u.names]
  BY <1>2 DEF Descents
<1>4. ASSUME Re!FilesStay, top.step \notin {"files", "row"}, NEW x \in u.names
      PROVE place[x] = Gone \/ Deleted(c, x)
  <2>1. Pending(c, u, x)
    BY <1>2, <1>4 DEF ReInv, Keeps, Sure, Certain
  <2> QED BY <2>1, <1>2, <1>4 DEF Pending
<1>5. CASE Re!ReadChildren(c)
  <2> DEFINE a == [top EXCEPT !.step = "each", !.todo = Re!FoldersIn(c, top.folder)]
             s == <<a>> \o Tail(u.stack)
  <2>1. a \in ReFrame /\ a.step = "each" /\ top.step = "children"
    BY <1>2, <1>5 DEF ReFrame, Re!FoldersIn, Re!ReadChildren, Re!At
  <2>2. request' = [request EXCEPT ![c] = [u EXCEPT !.stack = s]]
    BY <1>5 DEF Re!ReadChildren, Re!Goto, Re!SetTop
  <2> HIDE DEF a
  <2>3. s \in ReStacks /\ Head(s) = a
    BY <1>2, <2>1, FramePushed
  <2> HIDE DEF s
  <2>4. request' = [request EXCEPT ![c] = [u EXCEPT !.stack = s, !.names = u.names]]
    BY <2>2, <1>a
  <2> QED BY <1>1, <1>3, <1>4, <2>1, <2>3, <2>4, TreeRecord
<1>6. CASE Re!Descended(c)
  <2> DEFINE a == [top EXCEPT !.step = IF u.files THEN "names" ELSE "row"]
             s == <<a>> \o Tail(u.stack)
  <2>1. a \in ReFrame /\ a.step # "files" /\ top.step = "each"
    BY <1>2, <1>6 DEF ReFrame, Re!Descended, Re!At
  <2>2. request' = [request EXCEPT ![c] = [u EXCEPT !.stack = s]]
    BY <1>6 DEF Re!Descended, Re!Goto, Re!SetTop
  <2> HIDE DEF a
  <2>3. s \in ReStacks /\ Head(s) = a
    BY <1>2, <2>1, FramePushed
  <2> HIDE DEF s
  <2>4. request' = [request EXCEPT ![c] = [u EXCEPT !.stack = s, !.names = u.names]]
    BY <2>2, <1>a
  <2> QED BY <1>1, <1>3, <1>4, <2>1, <2>3, <2>4, TreeRecord
<1>7. CASE Re!ReadNames(c)
  <2> DEFINE a == [top EXCEPT !.step = "files"]
             s == <<a>> \o Tail(u.stack)
             names == u.names \union Re!FilesIn(c, top.folder)
  <2>1. a \in ReFrame /\ a.step = "files" /\ top.step = "names" /\ a.folder = top.folder
    BY <1>2, <1>7 DEF ReFrame, Re!ReadNames, Re!At
  <2>2. request' = [request EXCEPT ![c] = [[u EXCEPT !.stack = s] EXCEPT !.names = @ \union Re!FilesIn(c, top.folder)]]
    BY <1>7 DEF Re!ReadNames, Re!Goto, Re!SetTop
  <2> HIDE DEF a
  <2>3. s \in ReStacks /\ Head(s) = a
    BY <1>2, <2>1, FramePushed
  <2> HIDE DEF s
  <2>4. request' = [request EXCEPT ![c] = [u EXCEPT !.stack = s, !.names = names]]
    BY <2>2, <1>2 DEF Descents
  <2>5. names \in SUBSET UserFile /\ \A x \in names : x \in u.names \/ Re!View(c)[x] = a.folder
    BY <1>3, <2>1 DEF Re!FilesIn
  <2>6. Re!FilesIn(c, a.folder) \subseteq names /\ u.names \subseteq names
    BY <2>1
  <2> HIDE DEF names
  <2> QED BY <1>1, <1>4, <2>1, <2>3, <2>4, <2>5, <2>6, TreeRecord
<1>8. ASSUME NEW g \in Folder, Re!Descend(c, g) PROVE ReInv'
  <2> DEFINE a == [folder |-> g, step |-> "children", todo |-> {}]
             b == [top EXCEPT !.todo = top.todo \ {g}]
             s == <<a, b>> \o Tail(u.stack)
  <2>1. a \in ReFrame /\ b \in ReFrame /\ a.step = "children" /\ b.step = "each" /\ top.step = "each"
    BY <1>2, <1>8 DEF ReFrame, Re!Descend, Re!At
  <2>2. request' = [request EXCEPT ![c] = [u EXCEPT !.stack = s]]
    BY <1>8 DEF Re!Descend, Re!Goto
  <2> HIDE DEF a, b
  <2>3. s \in ReStacks /\ Head(s) = a
    BY <1>2, <2>1, FramePushed
  <2> HIDE DEF s
  <2>4. request' = [request EXCEPT ![c] = [u EXCEPT !.stack = s, !.names = u.names]]
    BY <2>2, <1>a
  <2> QED BY <1>1, <1>3, <1>4, <2>1, <2>3, <2>4, TreeRecord
<1> QED BY <1>5, <1>6, <1>7, <1>8 DEF TreeRead

(* Rows are changed at once, outside a transaction, and the request ends.  *)
LEMMA AloneStep ==
    ASSUME ReInv, UNCHANGED <<reScene, dirty>>, NEW c \in Tab, NEW ch \in Changes,
           place' = Re!Over(ch, place), Re!Free(c, DOMAIN ch),
           Re!Finish(c), request[c].pc \in Outside,
           Re!FilesStay /\ Leaves(c) => Tidy, content' \subseteq UserFile,
           \/ Objects'
           \/ content' = content /\ \A x \in UserFile : place'[x] \in Spot <=> place[x] \in Spot
    PROVE  ReInv'
<1>1. ReType' /\ \A r \in ReRow \ DOMAIN ch : place'[r] = place[r]
  <2>1. Re!Idle \in Jobs
    BY IdleJob
  <2>2. ReType
    BY DEF ReInv
  <2>3. place' \in [ReRow -> Spot \union {Gone, Unborn}] /\ \A r \in ReRow \ DOMAIN ch : place'[r] = place[r]
    BY <2>2, OverPlaces DEF ReType
  <2> QED BY <2>1, <2>2, <2>3 DEF ReType, Re!Finish, Re!Goto
<1>2. request' = [request EXCEPT ![c] = Re!Idle] /\ request'[c] = Re!Idle
      /\ \A d \in Tab \ {c} : request'[d] = request[d]
  BY DEF ReInv, ReType, Re!Finish, Re!Goto
<1>3. DOMAIN dirty[c] = {}
  BY DEF ReInv, Keeps, Held, Outside
<1>4. \A d \in Tab : \A r \in DOMAIN dirty[d] : r \in ReRow /\ r \notin DOMAIN ch
  <2>1. \A d \in Tab : DOMAIN dirty[d] \subseteq ReRow
    BY ChangesAre DEF ReInv, ReType
  <2> QED BY <2>1, <1>3 DEF Re!Free
<1>5. \A d \in Tab \ {c} : dirty'[d] = dirty[d] /\ \A r \in DOMAIN dirty[d] : place'[r] = place[r]
  BY <1>1, <1>4
<1>6. Locked'
  BY <1>1, <1>4 DEF ReInv, Locked
<1>7. Keeps(c, Re!Idle)'
  <2>1. Re!Idle \notin Descents /\ Re!Idle.pc = "idle" /\ Re!Idle' = Re!Idle
    BY DEF Re!Idle, Descents
  <2> QED BY <2>1, <1>3 DEF Keeps, Fit, Held, Left, Sure, Certain, Named, Erased, Deleted
<1>8. Objects'
  <2>1. CASE content' = content /\ \A x \in UserFile : place'[x] \in Spot <=> place[x] \in Spot
    <3>1. Re!Listed' = Re!Listed
      BY <2>1, <1>1, PlacesAre DEF Re!Listed, Spot
    <3>2. ASSUME NEW d \in Tab, request[d].pc = "erase" PROVE request'[d] = request[d]
      BY <3>2, <1>2 DEF Outside
    <3> QED BY <2>1, <3>1, <3>2 DEF ReInv, Objects, Re!FilesStay
  <2> QED BY <2>1
<1>9. Re!Idle \in Jobs
  BY IdleJob
<1> QED BY <1>1, <1>2, <1>5, <1>6, <1>7, <1>8, <1>9, StepKeeps

(* A request that may fill or empty folders.                               *)
LEMMA NotLeaving ==
    ASSUME ReInv, NEW c \in Tab, request[c].pc \in {"create", "connect", "disconnect", "children", "files"}
    PROVE  ~Leaves(c)
BY DEF ReInv, Keeps, Fit, Leaves

Alone(c) == Re!SetParent(c) \/ Re!CreateRow(c) \/ Re!Connect(c) \/ Re!Disconnect(c) \/ Re!Drop(c)

LEMMA AloneKeeps ==
    ASSUME ReInv, UNCHANGED reScene, NEW c \in Tab, Alone(c)
    PROVE  ReInv'
<1> DEFINE u == request[c]
<1>a. /\ ReType /\ u \in Jobs /\ content' = content /\ Re!Finish(c) /\ content \subseteq UserFile
      /\ u.pc \in {"set", "create", "connect", "disconnect", "drop"}
  BY DEF ReInv, ReType, Alone, Re!SetParent, Re!CreateRow, Re!Connect, Re!Disconnect, Re!Drop
<1>b. u.pc \in Outside
  BY <1>a DEF Outside
<1>c. ASSUME UNCHANGED <<place, dirty>> PROVE ReInv'
  BY <1>a, <1>b, <1>c, PlainEnd
<1>p. /\ \A f \in Folder : f \in Re!Live <=> place[f] \in Spot
      /\ Re!Live \subseteq Folder /\ Folder \subseteq Spot /\ Root \in Spot /\ Re!Listed \subseteq UserFile
      /\ \A x \in UserFile : x \in Re!Listed <=> place[x] \in Spot
      /\ Re!Live \union {Root} \subseteq Spot
  BY <1>a, PlacesAre
<1>1. CASE Re!SetParent(c)
  <2>1. u \in Sets /\ u.folder \in Folder /\ u.target \in Spot
    BY <1>1, <1>a, ShapeOf DEF Re!SetParent, Sets
  <2> DEFINE ch == Re!Moved({u.folder}, u.target)
  <2>2. ch \in Changes /\ DOMAIN ch = {u.folder} /\ ch[u.folder] = u.target
    BY <2>1, MovedMakes, RePlaces
  <2>3. CASE u.folder \in Re!Live /\ u.target \in Re!Live \union {Root}
    <3>1. place' = Re!Over(ch, place) /\ dirty' = dirty /\ Re!Free(c, DOMAIN ch)
      BY <1>1, <2>2, <2>3 DEF Re!SetParent, Re!WriteAlone
    <3>2. \A r \in ReRow : r # u.folder => place'[r] = place[r]
      BY <1>a, <2>2, <3>1, OverPlaces DEF ReType
    <3>3. place[u.folder] \in Spot /\ \A x \in UserFile : place'[x] = place[x]
      BY <2>1, <2>3, <1>p, <3>2, RePlaces
    <3>4. Tidy
      BY <3>2, <3>3, RePlaces DEF Tidy
    <3> HIDE DEF ch
    <3> QED BY <1>a, <1>b, <2>2, <3>1, <3>3, <3>4, AloneStep
  <2> QED BY <1>1, <1>c, <2>3 DEF Re!SetParent
<1>2. CASE Re!CreateRow(c)
  <2>1. u \in Creates /\ u.folder \in Folder /\ u.target \in Spot /\ u.files \subseteq UserFile /\ u.pc = "create"
    BY <1>2, <1>a, ShapeOf DEF Re!CreateRow, Creates
  <2> DEFINE ma == Re!Moved({u.folder}, u.target)
             mb == Re!Moved(u.files, u.folder)
             ch == Re!Over(ma, mb)
  <2>2. ma \in Changes /\ DOMAIN ma = {u.folder} /\ ma[u.folder] = u.target
    BY <2>1, MovedMakes, RePlaces
  <2>3. mb \in Changes /\ DOMAIN mb = u.files /\ \A x \in u.files : mb[x] = u.folder
    BY <2>1, MovedMakes, RePlaces
  <2> HIDE DEF ma, mb
  <2>4. ch \in Changes /\ DOMAIN ch = {u.folder} \union u.files /\ \A x \in u.files : ch[x] = u.folder
    <3>1. /\ ch \in Changes /\ DOMAIN ch = DOMAIN ma \union DOMAIN mb
          /\ \A r \in DOMAIN mb \ DOMAIN ma : ch[r] = mb[r]
      BY <2>2, <2>3, OverMakes
    <3>2. u.folder \notin u.files
      BY <2>1, RePlaces
    <3> HIDE DEF ch
    <3> QED BY <2>2, <2>3, <3>1, <3>2
  <2>5. CASE place[u.folder] = Unborn /\ u.target \in Re!Live \union {Root} /\ u.files \subseteq Re!Listed
    <3>1. place' = Re!Over(ch, place) /\ dirty' = dirty /\ Re!Free(c, u.files)
      BY <1>2, <2>5 DEF Re!CreateRow, Re!WriteAlone, ma, mb
    <3> HIDE DEF ch
    <3>2. Re!Free(c, DOMAIN ch)
      <4>1. \A d \in Tab : u.folder \notin DOMAIN dirty[d]
        BY <2>1, <2>5, RePlaces DEF ReInv, Locked
      <4> QED BY <3>1, <4>1, <2>4 DEF Re!Free
    <3>3. \A x \in UserFile : place'[x] = IF x \in u.files THEN u.folder ELSE place[x]
      BY <1>a, <2>1, <2>4, <3>1, OverPlaces, RePlaces DEF ReType
    <3>4. \A x \in UserFile : place'[x] \in Spot <=> place[x] \in Spot
      BY <2>1, <2>5, <3>3, <1>p
    <3>5. ~Leaves(c)
      BY <2>1, NotLeaving
    <3> QED BY <1>a, <1>b, <2>4, <3>1, <3>2, <3>4, <3>5, AloneStep
  <2> QED BY <1>2, <1>c, <2>5 DEF Re!CreateRow
<1>3. CASE Re!Connect(c)
  <2>1. u \in Joins /\ u.folder \in Folder /\ u.file \in UserFile /\ u.pc = "connect"
    BY <1>3, <1>a, ShapeOf DEF Re!Connect, Joins
  <2> DEFINE ch == Re!Moved({u.file}, u.folder)
  <2>2. ch \in Changes /\ DOMAIN ch = {u.file} /\ ch[u.file] = u.folder
    BY <2>1, MovedMakes, RePlaces
  <2>3. CASE u.folder \in Re!Live /\ u.file \in Re!Listed
    <3>1. place' = Re!Over(ch, place) /\ dirty' = dirty /\ Re!Free(c, DOMAIN ch)
      BY <1>3, <2>2, <2>3 DEF Re!Connect, Re!WriteAlone
    <3> HIDE DEF ch
    <3>2. \A x \in UserFile : place'[x] = IF x = u.file THEN u.folder ELSE place[x]
      BY <1>a, <2>2, <3>1, OverPlaces, RePlaces DEF ReType
    <3>3. \A x \in UserFile : place'[x] \in Spot <=> place[x] \in Spot
      BY <2>1, <2>3, <3>2, <1>p
    <3>4. ~Leaves(c)
      BY <2>1, NotLeaving
    <3> QED BY <1>a, <1>b, <2>2, <3>1, <3>3, <3>4, AloneStep
  <2> QED BY <1>3, <1>c, <2>3 DEF Re!Connect
<1>4. CASE Re!Disconnect(c)
  <2>1. u \in Joins /\ u.folder \in Folder /\ u.file \in UserFile /\ u.pc = "disconnect"
    BY <1>4, <1>a, ShapeOf DEF Re!Disconnect, Joins
  <2> DEFINE ch == Re!Moved({u.file}, Root)
  <2>2. ch \in Changes /\ DOMAIN ch = {u.file} /\ ch[u.file] = Root
    BY <2>1, MovedMakes, RePlaces
  <2>3. CASE u.folder \in Re!Live /\ place[u.file] = u.folder
    <3>1. place' = Re!Over(ch, place) /\ dirty' = dirty /\ Re!Free(c, DOMAIN ch)
      BY <1>4, <2>2, <2>3 DEF Re!Disconnect, Re!WriteAlone
    <3> HIDE DEF ch
    <3>2. \A x \in UserFile : place'[x] = IF x = u.file THEN Root ELSE place[x]
      BY <1>a, <2>2, <3>1, OverPlaces, RePlaces DEF ReType
    <3>3. \A x \in UserFile : place'[x] \in Spot <=> place[x] \in Spot
      BY <2>1, <2>3, <3>2, <1>p
    <3>4. ~Leaves(c)
      BY <2>1, NotLeaving
    <3> QED BY <1>a, <1>b, <2>2, <3>1, <3>3, <3>4, AloneStep
  <2> QED BY <1>4, <1>c, <2>3 DEF Re!Disconnect
<1>5. CASE Re!Drop(c)
  <2>1. u \in Drops /\ u.folder \in Folder /\ u.pc = "drop"
    BY <1>5, <1>a, ShapeOf DEF Re!Drop, Drops
  <2> DEFINE f == u.folder
             ch == Re!RowDeleted(c, f)
  <2>2. /\ ch \in Changes /\ DOMAIN ch = {f} \union Re!FoldersIn(c, f) \union Re!FilesIn(c, f)
        /\ ch[f] = Gone /\ \A r \in (Re!FoldersIn(c, f) \union Re!FilesIn(c, f)) \ {f} : ch[r] = Root
    BY <2>1, RowDeletedMakes
  <2>3. CASE f \in Re!Live
    <3>1. place' = Re!Over(ch, place) /\ dirty' = dirty /\ Re!Free(c, DOMAIN ch)
      BY <1>5, <2>2, <2>3 DEF Re!Drop, Re!WriteAlone, Re!MayDelete
    <3> HIDE DEF ch
    <3>2. DOMAIN dirty[c] = {}
      BY <2>1 DEF ReInv, Keeps, Held
    <3>3. \A r \in ReRow : r \in Re!FoldersIn(c, f) \union Re!FilesIn(c, f) => place[r] = f
      BY <3>2, ViewIs DEF Re!FoldersIn, Re!FilesIn
    <3>4. \A r \in ReRow : \/ r = f /\ place'[r] = Gone
                           \/ place'[r] = place[r]
                           \/ place[r] = f /\ place'[r] = Root
      BY <1>a, <2>2, <3>1, <3>3, OverPlaces DEF ReType
    <3>5. place[f] \in Spot /\ place'[f] = Gone
      BY <1>a, <2>1, <2>2, <2>3, <1>p, <3>1, OverPlaces DEF ReType
    <3>6. Tidy
      BY <2>1, <3>4, <3>5, RePlaces DEF Tidy
    <3>7. \A x \in UserFile : place'[x] \in Spot <=> place[x] \in Spot
      BY <2>1, <3>4, RePlaces
    <3> QED BY <1>a, <1>b, <2>2, <3>1, <3>6, <3>7, AloneStep
  <2> QED BY <1>5, <1>c, <2>3 DEF Re!Drop
<1> QED BY <1>1, <1>2, <1>3, <1>4, <1>5 DEF Alone

LEMMA UploadKeeps ==
    ASSUME ReInv, UNCHANGED reScene, NEW c \in Tab, request[c] = Re!Idle, "upload" \in May(c),
           NEW x \in UserFile, NEW p \in Spot, Re!Upload(c, x, p)
    PROVE  ReInv'
<1> DEFINE ch == Re!Moved({x}, p)
<1>1. ch \in Changes /\ DOMAIN ch = {x} /\ ch[x] = p
  BY MovedMakes, RePlaces
<1>2. place' = Re!Over(ch, place) /\ dirty' = dirty /\ content' = content \union {x} /\ request' = request
      /\ place[x] = Unborn
  BY DEF Re!Upload, Re!WriteAlone
<1> HIDE DEF ch
<1>3. Re!Free(c, DOMAIN ch)
  BY <1>1, <1>2, RePlaces DEF Re!Free, ReInv, Locked
<1>4. ReType /\ Re!Finish(c) /\ request[c].pc \in Outside /\ content' \subseteq UserFile
  BY <1>2, IdleJob DEF ReInv, ReType, Re!Finish, Re!Goto, Outside
<1>5. \A y \in UserFile : place'[y] = IF y = x THEN p ELSE place[y]
  BY <1>1, <1>2, <1>4, OverPlaces, RePlaces DEF ReType
<1>6. ~Leaves(c)
  BY DEF Leaves
<1>7. Objects'
  <2>1. Re!Listed' = Re!Listed \union {x}
    BY <1>5 DEF Re!Listed, Spot
  <2> QED BY <1>2, <2>1 DEF ReInv, Objects, Re!FilesStay
<1> QED BY <1>1, <1>2, <1>3, <1>4, <1>6, <1>7, AloneStep

(* A transaction changes rows that no other has changed.                   *)
LEMMA WriteStep ==
    ASSUME ReInv, UNCHANGED <<reScene, place, content>>, NEW c \in Tab, NEW ch \in Changes,
           dirty' = [dirty EXCEPT ![c] = Re!Over(ch, dirty[c])],
           \A r \in DOMAIN ch : place[r] \in Spot \/ r \in DOMAIN dirty[c], Re!Free(c, DOMAIN ch),
           NEW w \in Jobs, request' = [request EXCEPT ![c] = w],
           request[c].pc # "erase", w.pc \in {"files", "tree", "commit"},
           Fit(c, w), Left(c)', Re!FilesStay => Sure(c, w)'
    PROVE  ReInv'
<1>1. ReType
  BY DEF ReInv
<1>2. /\ Re!Over(ch, dirty[c]) \in Changes
      /\ DOMAIN Re!Over(ch, dirty[c]) = DOMAIN ch \union DOMAIN dirty[c]
  BY <1>1, OverMakes DEF ReType
<1>3. dirty'[c] = Re!Over(ch, dirty[c]) /\ \A d \in Tab \ {c} : dirty'[d] = dirty[d]
  BY <1>1 DEF ReType
<1>4. ReType' /\ request'[c] = w /\ \A d \in Tab \ {c} : request'[d] = request[d]
  BY <1>1, <1>2 DEF ReType
<1>5. Locked'
  <2>1. ASSUME NEW e \in Tab, NEW r \in DOMAIN dirty'[e]
        PROVE  place[r] \in Spot /\ \A d \in Tab \ {e} : r \notin DOMAIN dirty'[d]
    <3>1. CASE e = c
      BY <1>2, <1>3, <2>1, <3>1 DEF ReInv, Locked, Re!Free
    <3>2. CASE e # c
      BY <1>2, <1>3, <2>1, <3>2 DEF ReInv, Locked, Re!Free
    <3> QED BY <3>1, <3>2
  <2> QED BY <2>1 DEF Locked
<1>6. Tidy
  BY DEF Tidy
<1>7. Objects'
  <2>1. Re!Listed' = Re!Listed /\ Re!FilesStay' = Re!FilesStay
    BY DEF Re!Listed, Re!FilesStay
  <2> QED BY <1>4, <2>1 DEF ReInv, Objects
<1>8. Keeps(c, w)'
  BY DEF Keeps, Fit, Held, May, Re!FilesStay
<1> QED BY <1>3, <1>4, <1>5, <1>6, <1>7, <1>8, StepKeeps

(* A transaction is rolled back.                                           *)
LEMMA RollbackStep ==
    ASSUME ReInv, UNCHANGED <<reScene, content>>, NEW c \in Tab, Re!Rollback(c), Re!Finish(c),
           request[c].pc = "erase" => reScene.faults
    PROVE  ReInv'
<1>1. ReType /\ Re!Idle \in Jobs
  BY IdleJob DEF ReInv
<1>2. dirty'[c] = Re!NoChange /\ \A d \in Tab \ {c} : dirty'[d] = dirty[d]
  BY <1>1 DEF ReType, Re!Rollback
<1>3. request'[c] = Re!Idle /\ \A d \in Tab \ {c} : request'[d] = request[d]
  BY <1>1 DEF ReType, Re!Finish, Re!Goto
<1>4. ReType'
  BY <1>1, NoChangeEmpty DEF ReType, Re!Rollback, Re!Finish, Re!Goto
<1>5. place' = place /\ Tidy
  BY DEF Tidy, Re!Rollback
<1>6. Locked'
  BY <1>2, <1>5, NoChangeEmpty DEF ReInv, Locked
<1>7. Keeps(c, Re!Idle)'
  <2>1. Re!Idle \notin Descents /\ Re!Idle.pc = "idle" /\ Re!Idle' = Re!Idle
    BY DEF Re!Idle, Descents
  <2> QED BY <2>1, <1>2, NoChangeEmpty DEF Keeps, Fit, Held, Left, Sure, Certain, Named, Erased, Deleted
<1>8. Objects'
  <2>1. Re!Listed' = Re!Listed /\ Re!FilesStay' = Re!FilesStay
    BY <1>5 DEF Re!Listed, Re!FilesStay
  <2> QED BY <1>3, <2>1 DEF ReInv, Objects
<1>9. request' = [request EXCEPT ![c] = Re!Idle]
  BY DEF Re!Finish, Re!Goto
<1> QED BY <1>1, <1>2, <1>4, <1>5, <1>6, <1>7, <1>8, <1>9, StepKeeps

LEMMA ContentMoves ==
    ASSUME ReInv, UNCHANGED reScene, NEW c \in Tab, Re!MoveChildren(c) \/ Re!MoveFiles(c)
    PROVE  ReInv'
<1> DEFINE u == request[c]
<1>1. PICK pc \in {"children", "files"}, next \in {"files", "commit"}, rows \in SUBSET ReRow :
        /\ Re!MoveContent(c, pc, rows, next)
        /\ \A r \in rows : Re!View(c)[r] = u.folder
  <2>1. CASE Re!MoveChildren(c)
    BY <2>1, RePlaces DEF Re!MoveChildren, Re!FoldersIn
  <2>2. CASE Re!MoveFiles(c)
    BY <2>2, RePlaces DEF Re!MoveFiles, Re!FilesIn
  <2> QED BY <2>1, <2>2
<1>2. u \in Empties /\ u.pc \in {"children", "files"} /\ UNCHANGED content
  BY <1>1, ShapeOf DEF Re!MoveContent, ReInv, ReType
<1>3. u.folder \in Folder /\ u.target \in Spot
  BY <1>2 DEF Empties
<1>4. CASE Re!Rollback(c) /\ Re!Finish(c)
  BY <1>2, <1>4, RollbackStep
<1>5. CASE Re!Write(c, Re!Moved(rows, u.target)) /\ Re!Goto(c, [u EXCEPT !.pc = next])
  <2> DEFINE ch == Re!Moved(rows, u.target)
  <2>0. PICK w : w = [u EXCEPT !.pc = next]
    OBVIOUS
  <2>1. ch \in Changes /\ DOMAIN ch = rows
    BY <1>3, MovedMakes
  <2>2. w \in Empties /\ w.pc = next
    BY <1>2, <2>0 DEF Empties
  <2>3. ~Leaves(c) /\ May(c) \intersect {"root", "folder"} # {} /\ May(c) # {}
    <3>1. May(c) \intersect {"root", "folder"} # {}
      BY <1>2 DEF ReInv, Keeps, Fit
    <3> QED BY <3>1 DEF Leaves
  <2>4. /\ dirty' = [dirty EXCEPT ![c] = Re!Over(ch, dirty[c])] /\ UNCHANGED place
        /\ request' = [request EXCEPT ![c] = w]
    BY <1>5, <2>0 DEF Re!Write, Re!Goto
  <2> HIDE DEF ch
  <2>5. Re!Free(c, DOMAIN ch) /\ \A r \in DOMAIN ch : place[r] \in Spot \/ r \in DOMAIN dirty[c]
    <3>1. Re!Free(c, rows)
      BY <1>1 DEF Re!MoveContent
    <3>2. \A r \in rows : r \notin DOMAIN dirty[c] => place[r] = u.folder
      BY <1>1, ViewIs
    <3> QED BY <2>1, <3>1, <3>2, <1>3, RePlaces
  <2>6. w \in Jobs /\ w.pc \in {"files", "tree", "commit"}
    BY <2>2 DEF Jobs
  <2>7. Fit(c, w)
    BY <2>2, <2>3 DEF Fit
  <2>8. Left(c)'
    BY <2>3 DEF Left, Leaves, May
  <2>9. ASSUME Re!FilesStay PROVE Sure(c, w)'
    <3>1. Named(c, u) /\ u \notin Descents
      BY <2>9, <1>2 DEF ReInv, Keeps, Sure, Descents
    <3>2. w \notin Descents /\ w.pc # "tree" /\ w.pc # "erase"
      <4>1. "names" \notin DOMAIN w
        BY <2>2, NamesIn
      <4> QED BY <4>1, <2>2, NamesIn
    <3>3. \A x \in UserFile : ~Deleted(c, x)'
      <4>1. \A x \in DOMAIN ch : ch[x] # Gone
        BY <1>3, <2>1, MovedMakes, RePlaces DEF ch
      <4>2. dirty'[c] = Re!Over(ch, dirty[c])
        BY <2>4 DEF ReInv, ReType
      <4>3. dirty[c] \in Changes
        BY DEF ReInv, ReType
      <4>4. \A x \in UserFile : ~Deleted(c, x)
        BY <3>1 DEF Named
      <4>5. \A x \in DOMAIN dirty'[c] : \/ x \in DOMAIN ch /\ dirty'[c][x] = ch[x]
                                        \/ x \in DOMAIN dirty[c] /\ dirty'[c][x] = dirty[c][x]
        <5> DEFINE old == dirty[c]
                   new == Re!Over(ch, old)
        <5>1. /\ DOMAIN new = DOMAIN ch \union DOMAIN old
              /\ \A r \in DOMAIN ch : new[r] = ch[r]
              /\ \A r \in DOMAIN old \ DOMAIN ch : new[r] = old[r]
          BY <2>1, <4>3, OverMakes
        <5>2. dirty'[c] = new
          BY <4>2
        <5> HIDE DEF new
        <5> QED BY <5>1, <5>2
      <4> QED BY <4>1, <4>4, <4>5 DEF Deleted
    <3> QED BY <3>2, <3>3 DEF Sure, Certain, Named, Erased
  <2> QED BY <1>2, <2>1, <2>4, <2>5, <2>6, <2>7, <2>8, <2>9, WriteStep
<1> QED BY <1>1, <1>4, <1>5 DEF Re!MoveContent

(* The rows a recursive deletion writes, and its record.                   *)
LEMMA TreeWrite ==
    ASSUME ReInv, UNCHANGED <<reScene, place, content>>, NEW c \in Tab, request[c].pc = "tree",
           NEW ch \in Changes, dirty' = [dirty EXCEPT ![c] = Re!Over(ch, dirty[c])],
           \A r \in DOMAIN ch : place[r] \in Spot \/ r \in DOMAIN dirty[c], Re!Free(c, DOMAIN ch),
           NEW w \in Descents, request' = [request EXCEPT ![c] = w], w.names = request[c].names,
           w.pc = "tree" => Head(w.stack).step # "files",
           Leaves(c) => \A x \in UserFile : x \in DOMAIN ch =>
               ch[x] = Gone \/ (ch[x] = Root /\ Deleted(c, place[x])'),
           \A r \in ReRow : Deleted(c, r) => r \notin DOMAIN ch \/ ch[r] = Gone,
           \A x \in UserFile : x \in DOMAIN ch /\ ch[x] = Gone /\ Re!FilesStay => x \in w.names,
           Re!FilesStay => \A x \in w.names :
               \/ place[x] = Gone \/ Deleted(c, x)'
               \/ w.pc = "tree" /\ Head(w.stack).step = "row" /\ place[Head(w.stack).folder] = Gone
    PROVE  ReInv'
<1> DEFINE new == Re!Over(ch, dirty[c])
<1>1. request[c] \in Descents /\ May(c) # {} /\ ReType /\ ReRow = Folder \union UserFile
  BY InTree, RePlaces DEF ReInv
<1>2. /\ DOMAIN new = DOMAIN ch \union DOMAIN dirty[c]
      /\ \A r \in DOMAIN ch : new[r] = ch[r]
      /\ \A r \in DOMAIN dirty[c] \ DOMAIN ch : new[r] = dirty[c][r]
  BY <1>1, OverMakes DEF ReType
<1>3. dirty'[c] = new
  BY <1>1 DEF ReType
<1> HIDE DEF new
<1>4. w \in Jobs /\ w.pc \in {"tree", "commit"} /\ Fit(c, w)
  BY <1>1 DEF Jobs, Descents, Fit
<1>5. \A r \in ReRow : Deleted(c, r) => Deleted(c, r)'
  BY <1>2, <1>3 DEF Deleted
<1>6. \A x \in UserFile : Deleted(c, x)' => Deleted(c, x) \/ (x \in DOMAIN ch /\ ch[x] = Gone)
  BY <1>2, <1>3 DEF Deleted
<1>7. Left(c)'
  <2>1. ASSUME Leaves(c), NEW x \in UserFile, x \in DOMAIN dirty'[c]
        PROVE  dirty'[c][x] = Gone \/ (dirty'[c][x] = Root /\ Deleted(c, place[x])')
    <3>1. CASE x \in DOMAIN ch
      BY <1>2, <1>3, <2>1, <3>1
    <3>2. CASE x \notin DOMAIN ch
      <4>1. x \in DOMAIN dirty[c] /\ dirty'[c][x] = dirty[c][x]
        BY <1>2, <1>3, <2>1, <3>2
      <4>2. dirty[c][x] = Gone \/ (dirty[c][x] = Root /\ Deleted(c, place[x]))
        BY <2>1, <4>1 DEF ReInv, Keeps, Left
      <4>3. Deleted(c, place[x]) => place[x] \in ReRow
        BY <1>1, ChangesAre DEF Deleted, ReType
      <4> QED BY <4>1, <4>2, <4>3, <1>5
    <3> QED BY <3>1, <3>2
  <2> QED BY <2>1 DEF Left, Leaves, May, Deleted
<1>8. ASSUME Re!FilesStay PROVE Sure(c, w)'
  <2>1. Named(c, request[c])
    BY <1>8 DEF ReInv, Keeps, Sure
  <2>2. \A x \in UserFile : Deleted(c, x)' => x \in w.names
    BY <1>6, <1>8, <2>1 DEF Named
  <2>3. Named(c, w)'
    BY <2>2 DEF Named, Deleted
  <2>4. ASSUME NEW x \in w.names PROVE Pending(c, w, x)'
    BY <1>8, <2>4 DEF Pending, Deleted
  <2>5. Erased(w)'
    BY <1>4 DEF Erased
  <2> QED BY <2>3, <2>4, <2>5 DEF Sure, Certain
<1>9. request[c].pc # "erase" /\ w.pc \in {"files", "tree", "commit"}
  BY <1>4
<1> QED BY <1>4, <1>7, <1>8, <1>9, WriteStep

LEMMA StackPopped ==
    ASSUME NEW s \in ReStacks, Len(s) # 1
    PROVE  Tail(s) \in ReStacks /\ Head(Tail(s)).step = "each"
<1>1. s \in Seq(ReFrame) /\ s # <<>> /\ \A i \in 2..Len(s) : s[i].step = "each"
  BY DEF ReStacks
<1>2. Len(s) \in Nat \ {0}
  BY <1>1, EmptySeq
<1>3. /\ Tail(s) \in Seq(ReFrame) /\ Len(Tail(s)) = Len(s) - 1
      /\ \A i \in 1..Len(Tail(s)) : Tail(s)[i] = s[i + 1]
  BY <1>1, HeadTailProperties
<1> DEFINE t == Tail(s)
<1> HIDE DEF t
<1>4. \A i \in 1..Len(t) : t[i].step = "each"
  <2>1. \A i \in 1..Len(t) : i + 1 \in 2..Len(s)
    BY <1>2, <1>3 DEF t
  <2> QED BY <1>1, <1>3, <2>1 DEF t
<1>5. 1 \in 1..Len(t) /\ t # <<>>
  <2>1. Len(t) = Len(s) - 1 /\ Len(s) - 1 >= 1
    BY <1>2, <1>3 DEF t
  <2> QED BY <1>2, <2>1
<1>6. Head(t) = t[1]
  BY <1>5
<1>7. \A i \in 2..Len(t) : i \in 1..Len(t)
  BY <1>2, <1>3 DEF t
<1> QED BY <1>3, <1>4, <1>5, <1>6, <1>7 DEF ReStacks, t

LEMMA FilesDeleted ==
    ASSUME ReInv, UNCHANGED reScene, NEW c \in Tab, Re!DeleteFiles(c)
    PROVE  ReInv'
<1> DEFINE top == Re!Top(c)
<1>1. PICK u : u = request[c]
  OBVIOUS
<1>2. PICK rows : rows = Re!FilesIn(c, top.folder)
  OBVIOUS
<1>3. /\ u.pc = "tree" /\ top.step = "files" /\ UNCHANGED <<place, content>> /\ Re!Free(c, rows)
      /\ dirty' = [dirty EXCEPT ![c] = Re!Over(Re!Moved(rows, Gone), dirty[c])]
      /\ request' = [request EXCEPT ![c] = [u EXCEPT !.stack = <<[top EXCEPT !.step = "row"]>> \o Tail(u.stack)]]
  BY <1>1, <1>2 DEF Re!DeleteFiles, Re!At, Re!Write, Re!Goto, Re!SetTop
<1>4. /\ u \in Descents /\ top = Head(u.stack) /\ top \in ReFrame
      /\ Tail(u.stack) \in Seq(ReFrame)
      /\ \A i \in 1..Len(Tail(u.stack)) : Tail(u.stack)[i].step = "each"
  BY <1>1, <1>3, InTree
<1>5. PICK f : f = top.folder
  OBVIOUS
<1>6. PICK a : a = [top EXCEPT !.step = "row"]
  OBVIOUS
<1>7. a \in ReFrame /\ a.step = "row" /\ a.folder = f /\ f \in Folder
  BY <1>4, <1>5, <1>6 DEF ReFrame
<1>8. PICK s : s = <<a>> \o Tail(u.stack)
  OBVIOUS
<1>9. s \in ReStacks /\ Head(s) = a
  BY <1>4, <1>7, <1>8, FramePushed
<1>10. PICK w : w = [u EXCEPT !.stack = s]
  OBVIOUS
<1>11. w \in Descents /\ w.pc = "tree" /\ w.stack = s /\ w.names = u.names
  BY <1>3, <1>4, <1>9, <1>10 DEF Descents
<1>12. PICK ch : ch = Re!Moved(rows, Gone)
  OBVIOUS
<1>13. rows \in SUBSET UserFile /\ rows \in SUBSET ReRow /\ \A r \in rows : Re!View(c)[r] = f
  BY <1>2, <1>5, RePlaces DEF Re!FilesIn
<1>14. ch \in Changes /\ DOMAIN ch = rows /\ \A r \in rows : ch[r] = Gone
  BY <1>12, <1>13, MovedMakes
<1>15. dirty' = [dirty EXCEPT ![c] = Re!Over(ch, dirty[c])] /\ request' = [request EXCEPT ![c] = w]
  BY <1>3, <1>6, <1>8, <1>10, <1>12
<1>16. \A r \in DOMAIN ch : place[r] \in Spot \/ r \in DOMAIN dirty[c]
  BY <1>7, <1>13, <1>14, ViewIs, RePlaces
<1>17. \A x \in UserFile : Deleted(c, x) \/ x \in rows => Deleted(c, x)'
  <2>1. dirty[c] \in Changes /\ dirty'[c] = Re!Over(ch, dirty[c])
    BY <1>15 DEF ReInv, ReType
  <2>2. PICK old : old = dirty[c]
    OBVIOUS
  <2>3. /\ DOMAIN Re!Over(ch, old) = DOMAIN ch \union DOMAIN old
        /\ \A r \in DOMAIN ch : Re!Over(ch, old)[r] = ch[r]
        /\ \A r \in DOMAIN old \ DOMAIN ch : Re!Over(ch, old)[r] = old[r]
    BY <1>14, <2>1, <2>2, OverMakes
  <2> QED BY <1>14, <2>1, <2>2, <2>3 DEF Deleted
<1>18. ASSUME Re!FilesStay
       PROVE  /\ rows \subseteq w.names
              /\ \A x \in w.names : \/ place[x] = Gone \/ Deleted(c, x)'
                                    \/ place[f] = Gone
  <2>1. Named(c, u) /\ Certain(c, u)
    BY <1>1, <1>18 DEF ReInv, Keeps, Sure
  <2>2. rows \subseteq u.names
    BY <1>2, <1>3, <1>4, <2>1 DEF Named
  <2>3. ASSUME NEW x \in u.names PROVE place[x] = Gone \/ Deleted(c, x)' \/ place[f] = Gone
    <3>1. x \in UserFile /\ Pending(c, u, x)
      BY <1>4, <2>1, <2>3 DEF Descents, Certain
    <3>2. Re!View(c)[x] = f => x \in rows
      BY <1>2, <1>5, <3>1 DEF Re!FilesIn
    <3> QED BY <1>4, <1>5, <1>17, <3>1, <3>2 DEF Pending
  <2> QED BY <1>11, <2>2, <2>3
<1>19. /\ w.pc = "tree" => Head(w.stack).step # "files"
       /\ w.names = request[c].names /\ request[c].pc = "tree" /\ Re!Free(c, DOMAIN ch)
       /\ Head(w.stack).step = "row" /\ Head(w.stack).folder = f /\ w.pc = "tree"
  BY <1>1, <1>3, <1>7, <1>9, <1>11, <1>14
<1>20. Re!FilesStay => \A x \in w.names :
         \/ place[x] = Gone \/ Deleted(c, x)'
         \/ w.pc = "tree" /\ Head(w.stack).step = "row" /\ place[Head(w.stack).folder] = Gone
  BY <1>18, <1>19
<1>21. /\ \A x \in UserFile : x \in DOMAIN ch => ch[x] = Gone
       /\ \A r \in ReRow : Deleted(c, r) => r \notin DOMAIN ch \/ ch[r] = Gone
       /\ \A x \in UserFile : x \in DOMAIN ch /\ ch[x] = Gone /\ Re!FilesStay => x \in w.names
  BY <1>14, <1>18
<1> QED BY ZenonT(60), <1>3, <1>11, <1>14, <1>15, <1>16, <1>19, <1>20, <1>21, TreeWrite

LEMMA RowGoes ==
    ASSUME ReInv, UNCHANGED reScene, NEW c \in Tab, Re!DeleteRow(c)
    PROVE  ReInv'
<1> DEFINE top == Re!Top(c)
<1>1. PICK u : u = request[c]
  OBVIOUS
<1>2. PICK f : f = top.folder
  OBVIOUS
<1>3. u.pc = "tree" /\ top.step = "row" /\ UNCHANGED content
  BY <1>1 DEF Re!DeleteRow, Re!At
<1>4. /\ u \in Descents /\ top = Head(u.stack) /\ top \in ReFrame /\ u.stack \in ReStacks /\ f \in Folder
      /\ f \in ReRow
  BY <1>1, <1>2, <1>3, InTree, RePlaces DEF ReFrame
<1>5. CASE ~Re!Exists(c, f)
  <2>1. Re!Rollback(c) /\ Re!Finish(c)
    BY <1>2, <1>5 DEF Re!DeleteRow
  <2> QED BY <1>1, <1>3, <2>1, RollbackStep
<1>6. CASE Re!Exists(c, f)
  <2>1. PICK ch : ch = Re!RowDeleted(c, f)
    OBVIOUS
  <2>2. PICK s, pc : IF Len(u.stack) = 1 THEN pc = "commit" /\ s = u.stack ELSE pc = "tree" /\ s = Tail(u.stack)
    OBVIOUS
  <2>3. PICK w : w = [u EXCEPT !.pc = pc, !.stack = s]
    OBVIOUS
  <2>4. /\ UNCHANGED place /\ Re!MayDelete(c, f)
        /\ dirty' = [dirty EXCEPT ![c] = Re!Over(ch, dirty[c])]
    BY <1>2, <1>6, <2>1 DEF Re!DeleteRow, Re!Write
  <2>5. request' = [request EXCEPT ![c] = w]
    <3>1. CASE Len(u.stack) = 1
      <4>1. request' = [request EXCEPT ![c] = [u EXCEPT !.pc = "commit"]]
        BY <1>1, <1>2, <1>6, <3>1 DEF Re!DeleteRow, Re!Goto
      <4>2. [u EXCEPT !.pc = "commit"] = w
        BY <1>4, <2>2, <2>3, <3>1 DEF Descents
      <4> QED BY <4>1, <4>2
    <3>2. CASE Len(u.stack) # 1
      <4>1. request' = [request EXCEPT ![c] = [u EXCEPT !.stack = Tail(u.stack)]]
        BY <1>1, <1>2, <1>6, <3>2 DEF Re!DeleteRow, Re!Goto
      <4>2. [u EXCEPT !.stack = Tail(u.stack)] = w
        BY <1>3, <1>4, <2>2, <2>3, <3>2 DEF Descents
      <4> QED BY <4>1, <4>2
    <3> QED BY <3>1, <3>2
  <2>6. s \in ReStacks /\ pc \in {"tree", "commit"} /\ (pc = "tree" => Head(s).step = "each")
    BY <1>4, <2>2, StackPopped
  <2>7. w \in Descents /\ w.pc = pc /\ w.stack = s /\ w.names = u.names
    BY <1>4, <2>3, <2>6 DEF Descents
  <2>8. /\ ch \in Changes /\ DOMAIN ch = {f} \union Re!FoldersIn(c, f) \union Re!FilesIn(c, f)
        /\ ch[f] = Gone /\ \A r \in (Re!FoldersIn(c, f) \union Re!FilesIn(c, f)) \ {f} : ch[r] = Root
    BY <1>4, <2>1, RowDeletedMakes
  <2>9. Re!Free(c, DOMAIN ch)
    BY <2>4, <2>8 DEF Re!MayDelete
  <2>10. \A r \in ReRow : r \in DOMAIN ch => r = f \/ (Re!View(c)[r] = f /\ ch[r] = Root)
    BY <2>8 DEF Re!FoldersIn, Re!FilesIn
  <2>11. Re!View(c)[f] \notin {Gone, Unborn}
    BY <1>6 DEF Re!Exists
  <2>12. \A r \in DOMAIN ch : place[r] \in Spot \/ r \in DOMAIN dirty[c]
    <3>1. place[f] \in Spot \/ f \in DOMAIN dirty[c]
      BY <1>4, <2>11, ViewIs, RePlaces DEF ReInv, ReType
    <3>2. DOMAIN ch \subseteq ReRow
      BY <2>8, ChangesAre
    <3> QED BY <1>4, <2>10, <3>1, <3>2, ViewIs, RePlaces
  <2>13. \A r \in ReRow : Deleted(c, r) => r \notin DOMAIN ch \/ ch[r] = Gone
    BY <1>4, <2>8, <2>10, ViewIs, RePlaces DEF Deleted
  <2>14. \A r \in ReRow : Deleted(c, r) => Deleted(c, r)'
    <3>1. dirty[c] \in Changes /\ dirty'[c] = Re!Over(ch, dirty[c])
      BY <2>4 DEF ReInv, ReType
    <3>2. PICK old : old = dirty[c]
      OBVIOUS
    <3>3. /\ DOMAIN Re!Over(ch, old) = DOMAIN ch \union DOMAIN old
          /\ \A r \in DOMAIN ch : Re!Over(ch, old)[r] = ch[r]
          /\ \A r \in DOMAIN old \ DOMAIN ch : Re!Over(ch, old)[r] = old[r]
      BY ZenonT(60), <2>8, <3>1, <3>2, OverMakes
    <3> QED BY <2>13, <3>1, <3>2, <3>3 DEF Deleted
  <2>15. Deleted(c, f)'
    <3>1. dirty[c] \in Changes /\ dirty'[c] = Re!Over(ch, dirty[c])
      BY <2>4 DEF ReInv, ReType
    <3>2. PICK old : old = dirty[c]
      OBVIOUS
    <3>3. /\ DOMAIN Re!Over(ch, old) = DOMAIN ch \union DOMAIN old
          /\ \A r \in DOMAIN ch : Re!Over(ch, old)[r] = ch[r]
      BY <2>8, <3>1, <3>2, OverMakes
    <3>4. f \in DOMAIN ch
      BY <2>8
    <3> QED BY <2>8, <3>1, <3>2, <3>3, <3>4 DEF Deleted
  <2>16. ASSUME Leaves(c), NEW x \in UserFile, x \in DOMAIN ch
         PROVE  ch[x] = Root /\ Deleted(c, place[x])'
    <3>1. x \in ReRow /\ x # f /\ Re!View(c)[x] = f /\ ch[x] = Root
      BY <1>4, <2>10, <2>16, RePlaces
    <3>2. x \notin DOMAIN dirty[c]
      BY <1>4, <2>16, <3>1, ViewIs, RePlaces DEF ReInv, Keeps, Left
    <3>3. place[x] = f /\ place' = place
      BY <2>4, <3>1, <3>2, ViewIs
    <3> QED BY <2>15, <3>1, <3>3 DEF Deleted
  <2>17. ASSUME Re!FilesStay, NEW x \in w.names PROVE place[x] = Gone \/ Deleted(c, x)'
    <3>1. Certain(c, u)
      BY <1>1, <2>17 DEF ReInv, Keeps, Sure
    <3>2. x \in ReRow /\ Pending(c, u, x)
      BY <1>4, <2>7, <2>17, <3>1, RePlaces DEF Descents, Certain
    <3>3. place[f] # Gone
      <4>1. ASSUME place[f] = Gone PROVE FALSE
        <5>1. f \notin DOMAIN dirty[c]
          BY <4>1, RePlaces DEF ReInv, Locked
        <5> QED BY <1>4, <4>1, <5>1, <2>11, ViewIs
      <4> QED BY <4>1
    <3> QED BY <1>2, <1>3, <1>4, <2>14, <3>2, <3>3 DEF Pending
  <2>18. /\ w.pc = "tree" => Head(w.stack).step # "files"
         /\ w.names = request[c].names /\ request[c].pc = "tree"
    BY <1>1, <1>3, <2>6, <2>7
  <2>19. \A x \in UserFile : x \in DOMAIN ch /\ ch[x] = Gone /\ Re!FilesStay => x \in w.names
    BY <1>4, <2>8, RePlaces
  <2> QED BY <1>3, <2>4, <2>5, <2>7, <2>8, <2>9, <2>12, <2>13, <2>16, <2>17, <2>18, <2>19, TreeWrite
<1> QED BY <1>5, <1>6

LEMMA CommitKeeps ==
    ASSUME ReInv, UNCHANGED reScene, NEW c \in Tab, Re!Commit(c)
    PROVE  ReInv'
<1>0. PICK u : u = request[c]
  OBVIOUS
<1>1. /\ u.pc = "commit" /\ u \in Descents \union Empties /\ UNCHANGED content
      /\ place' = Re!View(c) /\ dirty' = [dirty EXCEPT ![c] = Re!NoChange] /\ ReType /\ Locked
  BY <1>0, ShapeOf DEF Re!Commit, ReInv, ReType
<1>2. PICK w : w = IF u \in Descents THEN [pc |-> "erase", names |-> u.names]
                   ELSE [pc |-> "drop", folder |-> u.folder]
  OBVIOUS
<1>3. request' = [request EXCEPT ![c] = w]
  BY <1>0, <1>1, <1>2, NamesIn DEF Re!Commit, Re!Goto
<1>4. w \in Jobs /\ w.pc \in {"erase", "drop"} /\ w \notin Descents
  <2>1. CASE u \in Descents
    <3>1. u.names \in SUBSET UserFile
      BY <2>1 DEF Descents
    <3> QED BY <1>2, <2>1, <3>1 DEF Jobs, Erases, Descents
  <2>2. CASE u \notin Descents
    <3>1. u.folder \in Folder
      BY <1>1, <2>2 DEF Empties
    <3> QED BY <1>2, <2>2, <3>1 DEF Jobs, Drops, Descents
  <2> QED BY <2>1, <2>2
<1>5. dirty'[c] = Re!NoChange /\ \A d \in Tab \ {c} : dirty'[d] = dirty[d]
  BY <1>1 DEF ReType
<1>6. DOMAIN dirty'[c] = {}
  BY <1>5, NoChangeEmpty
<1>7. \A r \in ReRow : place'[r] = IF r \in DOMAIN dirty[c] THEN dirty[c][r] ELSE place[r]
  BY <1>1, ViewIs
<1>8. /\ DOMAIN dirty[c] \subseteq ReRow /\ \A d \in Tab : DOMAIN dirty[d] \subseteq ReRow
      /\ \A r \in DOMAIN dirty[c] : dirty[c][r] \in Spot \union {Gone} /\ place[r] \in Spot
  BY <1>1, ChangesAre DEF ReType, Locked
<1>9. ReType'
  <2>1. place' \in [ReRow -> Spot \union {Gone, Unborn}]
    <3>1. place' = [r \in ReRow |-> IF r \in DOMAIN dirty[c] THEN dirty[c][r] ELSE place[r]]
      BY <1>1 DEF Re!View, ReRow
    <3> QED BY <1>1, <1>8, <3>1 DEF ReType
  <2> QED BY <1>1, <1>3, <1>4, <2>1, NoChangeEmpty DEF ReType
<1>10. \A d \in Tab \ {c} : dirty'[d] = dirty[d] /\ \A r \in DOMAIN dirty[d] : place'[r] = place[r]
  BY <1>1, <1>5, <1>7, <1>8 DEF Locked
<1>11. Locked'
  <2>1. ASSUME NEW e \in Tab, NEW r \in DOMAIN dirty'[e]
        PROVE  place'[r] \in Spot /\ \A d \in Tab \ {e} : r \notin DOMAIN dirty'[d]
    <3>1. e # c /\ r \in DOMAIN dirty[e]
      BY <1>5, <1>6, <2>1
    <3>2. place[r] \in Spot /\ \A d \in Tab \ {e} : r \notin DOMAIN dirty[d]
      BY <1>1, <3>1 DEF Locked
    <3> QED BY <1>5, <1>6, <1>10, <3>1, <3>2
  <2> QED BY <2>1 DEF Locked
<1>12. ASSUME Leaves(c) PROVE Tidy
  <2>1. ASSUME NEW r \in ReRow, place[r] = Gone PROVE place'[r] = Gone
    BY <1>7, <1>8, <2>1, RePlaces
  <2>2. ASSUME NEW x \in UserFile, x \in DOMAIN dirty[c], dirty[c][x] # Gone
        PROVE  place[x] \in Folder /\ place'[x] = Root /\ place'[place[x]] = Gone
    <3>1. dirty[c][x] = Root /\ Deleted(c, place[x])
      BY <1>12, <2>2 DEF ReInv, Keeps, Left
    <3>2. PICK g : g = place[x]
      OBVIOUS
    <3>3. g \in DOMAIN dirty[c] /\ dirty[c][g] = Gone /\ g \in Spot /\ g \in ReRow /\ x \in ReRow
      BY <1>8, <2>2, <3>1, <3>2 DEF Deleted
    <3>4. g \in Folder /\ place'[g] = Gone /\ place'[x] = Root
      BY <1>7, <2>2, <3>1, <3>3, RePlaces
    <3> QED BY <3>2, <3>4
  <2> QED BY <1>7, <2>1, <2>2, RePlaces DEF Tidy
<1>13. \A x \in UserFile : Deleted(c, x) => place'[x] = Gone
  BY <1>7, RePlaces DEF Deleted
<1>14. ASSUME Re!FilesStay PROVE \A x \in UserFile : Deleted(c, x) => w.pc = "erase" /\ x \in w.names
  <2>1. Named(c, u)
    BY <1>0, <1>14 DEF ReInv, Keeps, Sure
  <2> QED BY <1>2, <2>1 DEF Named
<1>15. ASSUME Re!FilesStay PROVE Sure(c, w)'
  <2>1. ASSUME w.pc = "erase", NEW x \in w.names PROVE place'[x] = Gone
    <3>1. u \in Descents /\ x \in u.names
      BY <1>2, <2>1
    <3>2. x \in UserFile /\ x \in ReRow
      BY <3>1, RePlaces DEF Descents
    <3>3. Pending(c, u, x)
      BY <1>0, <1>15, <3>1 DEF ReInv, Keeps, Sure, Certain
    <3>4. place[x] = Gone \/ Deleted(c, x)
      BY <1>1, <3>3 DEF Pending
    <3> QED BY <1>7, <1>8, <1>13, <3>2, <3>4, RePlaces
  <2>2. Erased(w)'
    BY <2>1 DEF Erased
  <2> QED BY <1>4, <1>6, <2>2 DEF Sure, Certain, Named, Deleted
<1>16. Keeps(c, w)'
  <2>1. Fit(c, w)'
    <3>1. May(c) # {}
      BY <1>0, <1>1 DEF ReInv, Keeps, Fit
    <3> QED BY <1>4, <3>1 DEF Fit, May
  <2>2. Held(c, w)' /\ Left(c)'
    BY <1>6 DEF Held, Left
  <2> QED BY <1>15, <2>1, <2>2 DEF Keeps, Re!FilesStay
<1>17. Objects'
  <2>1. ASSUME NEW x \in UserFile, place'[x] \in Spot PROVE place[x] \in Spot
    BY <1>7, <1>8, <2>1, RePlaces
  <2>2. ASSUME NEW x \in UserFile, place'[x] \notin Spot PROVE place[x] \notin Spot \/ Deleted(c, x)
    BY <1>7, <1>8, <2>2, RePlaces DEF Deleted
  <2>3. /\ \A x \in UserFile : x \in Re!Listed <=> place[x] \in Spot
        /\ \A x \in UserFile : x \in Re!Listed' <=> place'[x] \in Spot
        /\ Re!Listed \subseteq UserFile /\ Re!Listed' \subseteq UserFile /\ content \subseteq UserFile
    BY <1>1 DEF Re!Listed, Spot, ReType
  <2>4. request'[c] = w /\ \A d \in Tab \ {c} : request'[d] = request[d]
    BY <1>1, <1>3 DEF ReType
  <2>5. ASSUME Re!FilesStay PROVE Re!Listed' \subseteq content
    BY <2>1, <2>3, <2>5 DEF ReInv, Objects
  <2>6. ASSUME Re!FilesStay, ~reScene.faults, NEW x \in content \ Re!Listed'
        PROVE  \E d \in Tab : request'[d].pc = "erase" /\ x \in request'[d].names
    <3>1. CASE Deleted(c, x)
      BY <1>14, <2>3, <2>4, <2>6, <3>1
    <3>2. CASE ~Deleted(c, x)
      <4>1. x \in content \ Re!Listed
        BY <2>2, <2>3, <2>6, <3>2
      <4>2. PICK d \in Tab : request[d].pc = "erase" /\ x \in request[d].names
        BY <2>6, <4>1 DEF ReInv, Objects
      <4>3. d # c
        BY <1>0, <1>1, <4>2
      <4> QED BY <2>4, <4>2, <4>3
    <3> QED BY <3>1, <3>2
  <2> QED BY <1>1, <2>5, <2>6 DEF Objects, Re!FilesStay
<1> QED BY <1>3, <1>4, <1>9, <1>10, <1>11, <1>12, <1>16, <1>17, StepKeeps

(* The objects of the names go, one after the other.                       *)
LEMMA EraseKeepsAll ==
    ASSUME ReInv, UNCHANGED reScene, NEW c \in Tab, Re!Erase(c)
    PROVE  ReInv'
<1>0. PICK u : u = request[c]
  OBVIOUS
<1>1. u.pc = "erase" /\ UNCHANGED <<place, dirty>> /\ u \in Erases /\ ReType
  BY <1>0, ShapeOf DEF Re!Erase, ReInv, ReType
<1>2. u.names \subseteq UserFile
  BY <1>1 DEF Erases
<1>3. PICK w, gone : /\ request' = [request EXCEPT ![c] = w] /\ content' = content \ gone
                     /\ w \in Jobs /\ w.pc \in {"idle", "erase"} /\ Fit(c, w) /\ w \notin Descents
                     /\ gone \subseteq u.names
                     /\ w.pc = "erase" => w.names \subseteq u.names
                     /\ u.names \subseteq gone \/ (w.pc = "erase" /\ u.names \subseteq gone \union w.names)
  <2>1. CASE u.names = {}
    <3>1. Re!Idle \notin Descents
      BY DEF Re!Idle, Descents
    <3>2. request' = [request EXCEPT ![c] = Re!Idle] /\ content' = content \ {}
      BY <1>0, <2>1 DEF Re!Erase, Re!Finish, Re!Goto
    <3>3. {} \subseteq u.names /\ u.names \subseteq {} /\ Re!Idle.pc # "erase"
      BY <2>1, IdleJob
    <3> QED BY <3>1, <3>2, <3>3, IdleJob
  <2>2. CASE u.names # {}
    <3>1. PICK x : x = CHOOSE y \in u.names : TRUE
      OBVIOUS
    <3>2. x \in u.names
      BY <2>2, <3>1
    <3>3. PICK w : w = [u EXCEPT !.names = u.names \ {x}]
      OBVIOUS
    <3>4. request' = [request EXCEPT ![c] = w] /\ content' = content \ {x}
      BY <1>0, <2>2, <3>1, <3>3 DEF Re!Erase, Re!Goto
    <3>5. w \in Erases /\ w.pc = "erase" /\ w.names = u.names \ {x}
      BY <1>1, <3>3 DEF Erases
    <3>6. w \in Jobs /\ w \notin Descents
      BY <3>5 DEF Jobs, Descents
    <3>7. May(c) # {}
      BY <1>0, <1>1 DEF ReInv, Keeps, Fit
    <3>8. Fit(c, w)
      BY <3>5, <3>7 DEF Fit
    <3> QED BY <3>2, <3>4, <3>5, <3>6, <3>8
  <2> QED BY <2>1, <2>2
<1>4. DOMAIN dirty[c] = {}
  BY <1>0, <1>1 DEF ReInv, Keeps, Held
<1>5. Tidy /\ Locked' /\ ReType'
  BY <1>1, <1>3 DEF ReInv, ReType, Tidy, Locked
<1>6. Keeps(c, w)'
  <2>1. ASSUME Re!FilesStay PROVE Erased(w)'
    <3>1. Erased(u)
      BY <1>0, <2>1 DEF ReInv, Keeps, Sure
    <3> QED BY <1>1, <1>3, <3>1 DEF Erased
  <2> QED BY <1>1, <1>3, <1>4, <2>1 DEF Keeps, Fit, Held, Left, Sure, Certain, Named, Deleted, May, Re!FilesStay
<1>7. Objects'
  <2>1. request'[c] = w /\ \A d \in Tab \ {c} : request'[d] = request[d]
    BY <1>1, <1>3 DEF ReType
  <2>2. Re!Listed' = Re!Listed /\ Re!FilesStay' = Re!FilesStay
    BY <1>1 DEF Re!Listed, Re!FilesStay
  <2>3. ASSUME Re!FilesStay PROVE \A x \in u.names : x \notin Re!Listed
    <3>1. Erased(u)
      BY <1>0, <2>3 DEF ReInv, Keeps, Sure
    <3> QED BY <1>1, <1>2, <3>1, PlacesAre, RePlaces DEF Erased
  <2>4. ASSUME Re!FilesStay PROVE Re!Listed \subseteq content'
    BY <1>3, <2>3, <2>4 DEF ReInv, Objects
  <2>5. ASSUME Re!FilesStay, ~reScene.faults, NEW x \in content' \ Re!Listed
        PROVE  \E d \in Tab : request'[d].pc = "erase" /\ x \in request'[d].names
    <3>1. x \notin gone /\ x \in content \ Re!Listed
      BY <1>3, <2>5
    <3>2. PICK d \in Tab : request[d].pc = "erase" /\ x \in request[d].names
      BY <2>5, <3>1 DEF ReInv, Objects
    <3>3. CASE d = c
      BY <1>0, <1>3, <2>1, <3>1, <3>2, <3>3
    <3>4. CASE d # c
      BY <2>1, <3>2, <3>4
    <3> QED BY <3>3, <3>4
  <2> QED BY <2>2, <2>4, <2>5 DEF Objects
<1>8. \A d \in Tab \ {c} : dirty'[d] = dirty[d] /\ \A r \in DOMAIN dirty[d] : place'[r] = place[r]
  BY <1>1
<1> QED BY <1>3, <1>5, <1>6, <1>7, <1>8, StepKeeps

LEMMA Starts ==
    ASSUME NEW c \in Tab, ReInv, UNCHANGED reScene, Re!Begin(c)
    PROVE  ReInv'
<1>1. PICK kind \in May(c) : Re!Begins(c, kind)
  BY DEF Re!Begin, May
<1>2. request[c] = Re!Idle
  BY DEF Re!Begin
<1>3. CASE kind = "upload"
  <2>1. PICK x \in UserFile, p \in Spot : Re!Upload(c, x, p)
    BY <1>1, <1>3 DEF Re!Begins, Spot
  <2> QED BY <1>2, <1>3, <2>1, UploadKeeps
<1> QED BY <1>1, <1>2, <1>3, ReadsBegin

LEMMA WaitingEnds ==
    ASSUME NEW c \in Tab, ReInv, UNCHANGED reScene, Re!TimesOut(c) \/ Re!Fails(c)
    PROVE  ReInv'
<1>1. Re!Rollback(c) /\ Re!Finish(c) /\ UNCHANGED content
  BY DEF Re!TimesOut, Re!Fails
<1>2. request[c].pc = "erase" => reScene.faults
  BY DEF Re!TimesOut, Re!Fails, Re!Waits, Re!At
<1> QED BY <1>1, <1>2, RollbackStep

LEMMA ReStep ==
    ASSUME ReInv, [Re!Next]_reVars
    PROVE  ReInv'
<1>1. CASE UNCHANGED reVars
  <2>1. \A c \in Tab : Re!View(c)' = Re!View(c)
    BY <1>1 DEF Re!View, reVars
  <2>2. ReType' /\ Locked' /\ Objects'
    BY <1>1 DEF reVars, ReInv, ReType, Locked, Objects, Re!FilesStay, Re!Listed
  <2>3. ASSUME NEW c \in Tab PROVE Keeps(c, request[c])'
    <3>1. UNCHANGED <<reScene, place, dirty, request>> /\ Keeps(c, request[c]) /\ Tidy /\ ReType /\ Locked
      BY <1>1 DEF reVars, ReInv, Tidy
    <3> QED BY <2>2, <3>1, OthersKeep
  <2> QED BY <2>2, <2>3 DEF ReInv
<1>2. CASE Re!Next
  <2>1. UNCHANGED reScene
    BY <1>2 DEF Re!Next
  <2>2. PICK c \in Tab : Re!Begin(c) \/ Re!Step(c) \/ Re!Chosen(c) \/ Re!Fails(c)
    BY <1>2 DEF Re!Next
  <2>3. CASE Re!Begin(c)
    BY <2>1, <2>3, Starts
  <2>4. CASE Re!Chosen(c)
    <3>1. CASE Re!CloseDialog(c)
      BY <2>1, <3>1, ReadsGoOn DEF ReadStep
    <3>2. ASSUME NEW action \in Re!ChildrenActions, NEW target \in Spot, Re!Delete(c, action, target)
          PROVE  ReInv'
      BY <2>1, <3>2, DeleteBegins
    <3> QED BY <2>4, <3>1, <3>2 DEF Re!Chosen, Spot
  <2>5. CASE Re!Fails(c)
    BY <2>1, <2>5, WaitingEnds
  <2>6. CASE Re!Step(c)
    <3>1. CASE Alone(c)
      BY <2>1, <3>1, AloneKeeps
    <3>2. CASE Re!MoveChildren(c) \/ Re!MoveFiles(c)
      BY <2>1, <3>2, ContentMoves
    <3>3. CASE TreeRead(c)
      BY <2>1, <3>3, TreeReads
    <3>4. CASE Re!DeleteFiles(c)
      BY <2>1, <3>4, FilesDeleted
    <3>5. CASE Re!DeleteRow(c)
      BY <2>1, <3>5, RowGoes
    <3>6. CASE Re!TimesOut(c)
      BY <2>1, <3>6, WaitingEnds
    <3>7. CASE Re!Commit(c)
      BY <2>1, <3>7, CommitKeeps
    <3>8. CASE Re!Erase(c)
      BY <2>1, <3>8, EraseKeepsAll
    <3>9. CASE ReadStep(c)
      BY <2>1, <3>9, ReadsGoOn
    <3> QED
      BY <2>6, <3>1, <3>2, <3>3, <3>4, <3>5, <3>6, <3>7, <3>8, <3>9
      DEF Re!Step, Alone, TreeRead, ReadStep
  <2> QED BY <2>2, <2>3, <2>4, <2>5, <2>6
<1> QED BY <1>1, <1>2

LEMMA ReStart ==
    ASSUME Re!Init
    PROVE  ReInv
<1>1. /\ reScene \in ReferenceScene /\ place \in [ReRow -> Spot \union {Unborn}]
      /\ content = Re!Listed /\ dirty = [c \in Tab |-> Re!NoChange] /\ request = [c \in Tab |-> Re!Idle]
  BY DEF Re!Init, ReRow, Spot
<1>2. ReType
  <2>1. place \in [ReRow -> Spot \union {Gone, Unborn}]
    BY <1>1
  <2>2. content \subseteq UserFile
    BY <1>1 DEF Re!Listed
  <2> QED BY <1>1, <2>1, <2>2, NoChangeEmpty, IdleJob DEF ReType
<1>3. Locked
  BY <1>1, NoChangeEmpty DEF Locked
<1>4. ASSUME NEW c \in Tab PROVE Keeps(c, request[c])
  <2>1. Re!Idle \notin Descents /\ Re!Idle.pc = "idle"
    BY DEF Re!Idle, Descents
  <2> QED BY <1>1, <2>1, NoChangeEmpty DEF Keeps, Fit, Held, Left, Sure, Certain, Named, Erased, Deleted
<1>5. Objects
  BY <1>1 DEF Objects
<1> QED BY <1>2, <1>3, <1>4, <1>5 DEF ReInv

(* Whatever deletions overlap, and wherever one fails: a file keeps its    *)
(* object as long as it has a row; and where nothing fails the object goes *)
(* with the row, as long as no file comes or goes meanwhile.               *)
THEOREM ReferenceCascade == Re!Spec => []CascadeExact
<1>1. Re!Init => ReInv
  BY ReStart
<1>2. ReInv /\ [Re!Next]_(Re!vars) => ReInv'
  BY ReStep DEF Re!vars, reVars
<1>3. ReInv => CascadeExact
  BY DEF ReInv, Objects, CascadeExact, Re!CascadeExact
<1> QED BY <1>1, <1>2, <1>3, PTL DEF Re!Spec

-----------------------------------------------------------------------------
(* What is above a place.                                                  *)

LEMMA ChainClosed ==
    ASSUME NEW p
    PROVE  /\ p \in Folder => p \in Re!Chain(p)
           /\ \A g \in Re!Chain(p) : g \in Folder /\ (place[g] \in Folder => place[g] \in Re!Chain(p))
           /\ \A U \in SUBSET Folder : {p} \intersect Folder \subseteq U /\ Re!ClosedUp(U) => Re!Chain(p) \subseteq U
BY DEF Re!Chain, Re!ClosedUp

(* A folder above a place is the place itself or holds a folder above it.  *)
LEMMA ChainStep ==
    ASSUME NEW p, NEW f \in Re!Chain(p), f # p
    PROVE  \E g \in Re!Chain(p) : place[g] = f
<1>1. SUFFICES ASSUME \A g \in Re!Chain(p) : place[g] # f PROVE FALSE
  OBVIOUS
<1> DEFINE U == Re!Chain(p) \ {f}
<1>2. U \in SUBSET Folder
  BY ChainClosed
<1>3. Re!ClosedUp(U)
  BY <1>1, ChainClosed DEF Re!ClosedUp
<1>4. {p} \intersect Folder \subseteq U
  BY ChainClosed
<1> HIDE DEF U
<1>5. f \in U
  BY <1>2, <1>3, <1>4, ChainClosed
<1> QED BY <1>5 DEF U

(* What is above a place is the same as long as none of it moves.          *)
LEMMA ChainSame ==
    ASSUME NEW p, \A g \in Re!Chain(p) : place'[g] = place[g]
    PROVE  Re!Chain(p)' = Re!Chain(p)
<1>1. Re!Chain(p)' = {g \in Folder : \A U \in SUBSET Folder :
          {p} \intersect Folder \subseteq U /\ (\A h \in U : place'[h] \in Folder => place'[h] \in U) => g \in U}
  BY DEF Re!Chain, Re!ClosedUp
<1>2. ASSUME NEW g \in Re!Chain(p)' PROVE g \in Re!Chain(p)
  <2>1. Re!Chain(p) \in SUBSET Folder
    BY ChainClosed
  <2>2. \A h \in Re!Chain(p) : place'[h] \in Folder => place'[h] \in Re!Chain(p)
    BY ChainClosed
  <2>3. {p} \intersect Folder \subseteq Re!Chain(p)
    BY ChainClosed
  <2> QED BY <1>1, <1>2, <2>1, <2>2, <2>3
<1>3. ASSUME NEW g \in Re!Chain(p), NEW U \in SUBSET Folder, {p} \intersect Folder \subseteq U,
             \A h \in U : place'[h] \in Folder => place'[h] \in U
      PROVE  g \in U
  <2> DEFINE V == U \intersect Re!Chain(p)
  <2>1. V \in SUBSET Folder /\ {p} \intersect Folder \subseteq V
    BY <1>3, ChainClosed
  <2>2. Re!ClosedUp(V)
    BY <1>3, ChainClosed DEF Re!ClosedUp
  <2> HIDE DEF V
  <2>3. g \in V
    BY <2>1, <2>2, ChainClosed
  <2> QED BY <2>3 DEF V
<1>4. \A g \in Re!Chain(p) : g \in Folder
  BY ChainClosed
<1> QED BY <1>1, <1>2, <1>3, <1>4

-----------------------------------------------------------------------------
(* Why an export holds what stays: what it has not found is below a folder *)
(* that it has still to read.                                              *)

Reading(c) == request[c].pc = "export" => \A x \in still[c] :
    x \in request[c].found \/ \E g \in request[c].todo : g \in Re!Chain(place[x])

Zipping(c) == request[c].pc = "zip" =>
    /\ still[c] \subseteq request[c].todo \union request[c].zip \union request[c].unread
    /\ still[c] \subseteq content

StillInv == still \in [Tab -> SUBSET UserFile] /\ \A c \in Tab : Reading(c) /\ Zipping(c)

(* A step of c that is no step of an export leaves it with another request.*)
Otherwise(c) == request'[c].pc \notin {"export", "zip"}

LEMMA OtherSteps ==
    ASSUME ReInv, ReInv', NEW c \in Tab, Re!Begin(c) \/ Re!Step(c) \/ Re!Chosen(c) \/ Re!Fails(c)
    PROVE  /\ \A d \in Tab \ {c} : request'[d] = request[d]
           /\ \/ Otherwise(c)
              \/ \E f \in Folder : request[c].pc = "idle" /\ Re!Export(c, f)
              \/ \E f \in Folder : Re!GetFolderTree(c, f)
              \/ Re!BeginZip(c)
              \/ \E x \in UserFile : Re!AddFolderToZip(c, x) \/ Re!SkipUnread(c, x)
<1>0. /\ request \in [Tab -> Jobs] /\ request[c] \in Jobs
      /\ \A w : Re!Goto(c, w) => request'[c] = w /\ \A d \in Tab \ {c} : request'[d] = request[d]
  BY DEF ReInv, ReType, Re!Goto
<1>i. Re!Finish(c) => Otherwise(c) /\ \A d \in Tab \ {c} : request'[d] = request[d]
  BY <1>0, IdleJob DEF Re!Finish, Otherwise
<1>1. CASE Re!Begin(c)
  <2>1. request[c] = Re!Idle /\ request[c].pc = "idle"
    BY <1>1, IdleJob DEF Re!Begin
  <2>2. PICK kind \in May(c) : Re!Begins(c, kind)
    BY <1>1 DEF Re!Begin, May
  <2>3. ASSUME NEW f \in Folder, NEW p \in Spot, Re!Patch(c, f, p) PROVE Otherwise(c) /\ \A d \in Tab \ {c} : request'[d] = request[d]
    BY <1>0, <2>3 DEF Re!Patch, Otherwise
  <2>4. CASE kind = "move"
    BY <2>2, <2>3, <2>4 DEF Re!Begins, Spot
  <2>5. CASE kind = "create"
    <3>1. PICK w : Re!Goto(c, w) /\ w.pc \in {"create", "connect", "disconnect", "chain", "public"}
      <4>1. PICK g \in Folder, p \in Re!Place, xs \in {{}} \union {{x} : x \in UserFile} : Re!Create(c, g, p, xs)
        BY <2>2, <2>5 DEF Re!Begins
      <4> QED BY <4>1 DEF Re!Create
    <3> QED BY <1>0, <3>1 DEF Otherwise
  <2>6. CASE kind = "add"
    <3>1. PICK w : Re!Goto(c, w) /\ w.pc \in {"create", "connect", "disconnect", "chain", "public"}
      <4>1. PICK f \in Folder, x \in UserFile : Re!AddFile(c, f, x)
        BY <2>2, <2>6 DEF Re!Begins
      <4> QED BY <4>1 DEF Re!AddFile
    <3> QED BY <1>0, <3>1 DEF Otherwise
  <2>7. CASE kind = "remove"
    <3>1. PICK w : Re!Goto(c, w) /\ w.pc \in {"create", "connect", "disconnect", "chain", "public"}
      <4>1. PICK f \in Folder, x \in UserFile : Re!RemoveFile(c, f, x)
        BY <2>2, <2>7 DEF Re!Begins
      <4> QED BY <4>1 DEF Re!RemoveFile
    <3> QED BY <1>0, <3>1 DEF Otherwise
  <2>8. CASE kind = "upload"
    BY <1>0, <2>1, <2>2, <2>8 DEF Re!Begins, Re!Upload, Otherwise
  <2>9. CASE kind = "chain"
    <3>1. PICK w : Re!Goto(c, w) /\ w.pc \in {"create", "connect", "disconnect", "chain", "public"}
      <4>1. PICK f \in Folder : Re!ReadFolder(c, f) \/ Re!ReadPublicFolder(c, f)
        BY <2>2, <2>9 DEF Re!Begins
      <4> QED BY <4>1 DEF Re!ReadFolder, Re!ReadPublicFolder
    <3> QED BY <1>0, <3>1 DEF Otherwise
  <2>10. CASE kind = "export"
    <3>1. PICK f \in Folder : Re!Export(c, f)
      BY <2>2, <2>10 DEF Re!Begins
    <3>2. \A d \in Tab \ {c} : request'[d] = request[d]
      BY <1>0, <3>1 DEF Re!Export
    <3> QED BY <2>1, <3>1, <3>2
  <2>11. CASE kind \notin {"move", "create", "add", "remove", "upload", "chain", "export"}
    <3>1. PICK f \in Folder : Re!OpenDialog(c, f)
      BY <2>2, <2>11 DEF Re!Begins
    <3> QED BY <1>0, <3>1 DEF Re!OpenDialog, Otherwise
  <2> QED BY <2>4, <2>5, <2>6, <2>7, <2>8, <2>9, <2>10, <2>11
<1>2. CASE Re!Fails(c) \/ Re!TimesOut(c) \/ Re!CloseDialog(c)
  BY <1>2, <1>i DEF Re!Fails, Re!TimesOut, Re!CloseDialog
<1>3. ASSUME NEW action, NEW target, Re!Delete(c, action, target)
      PROVE  Otherwise(c) /\ \A d \in Tab \ {c} : request'[d] = request[d]
  <2>1. PICK w : /\ Re!Goto(c, w)
                 /\ w = Re!Idle \/ w.pc \in {"drop", "children", "tree"}
    <3> DEFINE u == request[c]
               s == <<[folder |-> u.folder, step |-> "children", todo |-> {}]>>
               wt == [pc |-> "tree", folder |-> u.folder, files |-> action = "cascade-files", names |-> {}, stack |-> s]
    <3>1. CASE u.folder \notin Re!Live \/ target \notin Re!Live \union {Root}
      BY <1>3, <3>1 DEF Re!Delete
    <3>2. CASE ~(u.folder \notin Re!Live \/ target \notin Re!Live \union {Root}) /\ action = "none"
      BY <1>3, <3>2 DEF Re!Delete
    <3>3. CASE ~(u.folder \notin Re!Live \/ target \notin Re!Live \union {Root}) /\ action \in {"root", "folder"}
      BY <1>3, <3>3 DEF Re!Delete
    <3>4. CASE ~(u.folder \notin Re!Live \/ target \notin Re!Live \union {Root}) /\ action \notin {"root", "folder", "none"}
      <4>1. Re!Goto(c, wt) /\ wt.pc = "tree"
        BY <1>3, <3>4 DEF Re!Delete
      <4> QED BY <4>1
    <3> QED BY <3>1, <3>2, <3>3, <3>4
  <2> QED BY <1>0, <2>1, IdleJob DEF Otherwise
<1>4. CASE Alone(c)
  BY <1>4, <1>i DEF Alone, Re!SetParent, Re!CreateRow, Re!Connect, Re!Disconnect, Re!Drop
<1>5. CASE Re!Walk(c) \/ Re!BuildParentChain(c) \/ Re!BuildPublicParentChain(c)
  <2>1. request[c] \in Walks \union Chains
    BY <1>0, <1>5, ShapeOf DEF Re!Walk, Re!BuildParentChain, Re!BuildPublicParentChain
  <2>2. PICK w : Re!Goto(c, w) /\ (w = Re!Idle \/ w.pc = "set" \/ \E a : w = [request[c] EXCEPT !.at = a])
    BY <1>5 DEF Re!Walk, Re!BuildParentChain, Re!BuildPublicParentChain, Re!Finish
  <2>3. w.pc \in {"idle", "set", "walk", "chain", "public"}
    BY <2>1, <2>2, IdleJob DEF Walks, Chains
  <2> QED BY <1>0, <2>2, <2>3 DEF Otherwise
<1>6. CASE Re!MoveChildren(c) \/ Re!MoveFiles(c)
  <2>1. request[c] \in Empties
    BY <1>0, <1>6, ShapeOf DEF Re!MoveChildren, Re!MoveFiles, Re!MoveContent
  <2>2. PICK w : Re!Goto(c, w) /\ (w = Re!Idle \/ \E pc \in {"files", "commit"} : w = [request[c] EXCEPT !.pc = pc])
    BY <1>6 DEF Re!MoveChildren, Re!MoveFiles, Re!MoveContent, Re!Finish
  <2>3. w.pc \in {"idle", "files", "commit"}
    BY <2>1, <2>2, IdleJob DEF Empties
  <2> QED BY <1>0, <2>2, <2>3 DEF Otherwise
<1>7. CASE TreeRead(c) \/ Re!DeleteFiles(c) \/ Re!DeleteRow(c)
  <2>1. request[c] \in Descents /\ request[c].pc = "tree"
    BY <1>0, <1>7, ShapeOf DEF TreeRead, Re!ReadChildren, Re!Descended, Re!ReadNames, Re!Descend, Re!DeleteFiles,
       Re!DeleteRow, Re!At
  <2>2. PICK w : Re!Goto(c, w) /\ \/ w = Re!Idle \/ \E s : w = [request[c] EXCEPT !.stack = s]
                                  \/ w = [request[c] EXCEPT !.pc = "commit"]
                                  \/ \E s, n : w = [[request[c] EXCEPT !.stack = s] EXCEPT !.names = n]
    BY <1>7 DEF TreeRead, Re!ReadChildren, Re!Descended, Re!ReadNames, Re!Descend, Re!DeleteFiles, Re!DeleteRow,
       Re!SetTop, Re!Finish
  <2>3. w.pc \in {"idle", "tree", "commit"}
    BY <2>1, <2>2, IdleJob DEF Descents
  <2> QED BY <1>0, <2>2, <2>3 DEF Otherwise
<1>8. CASE Re!Commit(c)
  BY <1>0, <1>8 DEF Re!Commit, Otherwise
<1>9. CASE Re!Erase(c)
  <2>1. request[c] \in Erases
    BY <1>0, <1>9, ShapeOf DEF Re!Erase
  <2>2. PICK w : Re!Goto(c, w) /\ (w = Re!Idle \/ \E n : w = [request[c] EXCEPT !.names = n])
    BY <1>9 DEF Re!Erase, Re!Finish
  <2>3. w.pc \in {"idle", "erase"}
    BY <2>1, <2>2, IdleJob DEF Erases
  <2> QED BY <1>0, <2>2, <2>3 DEF Otherwise
<1>10. CASE Re!EndZip(c)
  BY <1>10, <1>i DEF Re!EndZip
<1>11. ASSUME NEW f \in Folder, Re!GetFolderTree(c, f) PROVE \A d \in Tab \ {c} : request'[d] = request[d]
  BY <1>0, <1>11 DEF Re!GetFolderTree
<1>12. CASE Re!BeginZip(c)
  BY <1>0, <1>12 DEF Re!BeginZip
<1>13. ASSUME NEW x \in UserFile, Re!AddFolderToZip(c, x) \/ Re!SkipUnread(c, x)
       PROVE  \A d \in Tab \ {c} : request'[d] = request[d]
  BY <1>0, <1>13 DEF Re!AddFolderToZip, Re!SkipUnread
<1> QED
  BY <1>1, <1>2, <1>3, <1>4, <1>5, <1>6, <1>7, <1>8, <1>9, <1>10, <1>11, <1>12, <1>13
  DEF Re!Step, Re!Chosen, Alone, TreeRead

LEMMA StillStep ==
    ASSUME ReInv, ReInv', StillInv, Re!Next
    PROVE  StillInv'
<1>1. PICK c \in Tab : Re!Begin(c) \/ Re!Step(c) \/ Re!Chosen(c) \/ Re!Fails(c)
  BY DEF Re!Next
<1>2. still' = [d \in Tab |-> Re!Stays(d)]
  BY DEF Re!Next
<1>3. /\ ReType /\ ReType'
      /\ \A d \in Tab \ {c} : request'[d] = request[d]
      /\ \/ Otherwise(c)
         \/ \E f \in Folder : request[c].pc = "idle" /\ Re!Export(c, f)
         \/ \E f \in Folder : Re!GetFolderTree(c, f)
         \/ Re!BeginZip(c)
         \/ \E x \in UserFile : Re!AddFolderToZip(c, x) \/ Re!SkipUnread(c, x)
  BY <1>1, OtherSteps DEF ReInv
<1>4. ASSUME NEW d \in Tab, request'[d].pc \in {"export", "zip"}, ~(request'[d].pc = "export" /\ request[d].pc = "idle")
      PROVE  still'[d] = {x \in still[d] : x \in content' /\ \A r \in {x} \union Re!Chain(place[x]) : place'[r] = place[r]}
  BY <1>2, <1>4 DEF Re!Stays
<1>5. ASSUME NEW d \in Tab PROVE still'[d] \subseteq UserFile
  <2>1. Re!Under(request'[d].folder) \subseteq UserFile
    BY DEF Re!Under, Re!Listed
  <2> QED BY <1>2, <2>1 DEF Re!Stays, StillInv
<1>6. ASSUME NEW d \in Tab, request'[d] = request[d] PROVE Reading(d)' /\ Zipping(d)'
  <2>1. ASSUME request'[d].pc = "export", NEW x \in still'[d]
        PROVE  x \in request'[d].found \/ \E g \in request'[d].todo : g \in Re!Chain(place[x])'
    <3>1. x \in still[d] /\ \A r \in {x} \union Re!Chain(place[x]) : place'[r] = place[r]
      BY <1>4, <1>6, <2>1
    <3>2. PICK p : p = place[x]
      OBVIOUS
    <3>3. place'[x] = p /\ Re!Chain(p)' = Re!Chain(p)
      BY <3>1, <3>2, ChainSame
    <3>4. Re!Chain(place[x])' = Re!Chain(p)'
      BY <3>3
    <3>5. Re!Chain(place[x]) = Re!Chain(p)
      BY <3>2
    <3>6. x \in request[d].found \/ \E g \in request[d].todo : g \in Re!Chain(place[x])
      BY <1>6, <2>1, <3>1 DEF StillInv, Reading
    <3> QED BY <1>6, <3>3, <3>4, <3>5, <3>6
  <2>2. ASSUME request'[d].pc = "zip"
        PROVE  /\ still'[d] \subseteq request'[d].todo \union request'[d].zip \union request'[d].unread
               /\ still'[d] \subseteq content'
    BY <1>4, <1>6, <2>2 DEF StillInv, Zipping
  <2> QED BY <2>1, <2>2 DEF Reading, Zipping
<1>7. ASSUME Otherwise(c) PROVE Reading(c)' /\ Zipping(c)'
  BY <1>7 DEF Otherwise, Reading, Zipping
<1>8. ASSUME NEW f \in Folder, request[c].pc = "idle", Re!Export(c, f)
      PROVE  Reading(c)' /\ Zipping(c)'
  <2>1. request'[c] = [pc |-> "export", folder |-> f, todo |-> {f}, found |-> {}] /\ place' = place
    BY <1>3, <1>8 DEF Re!Export, Re!Goto, ReType
  <2>2. still'[c] = Re!Under(f)
    BY <1>2, <1>8, <2>1 DEF Re!Stays
  <2>3. \A x \in still'[c] : f \in Re!Chain(place[x])
    BY <2>2 DEF Re!Under
  <2>4. \A p : Re!Chain(p)' = Re!Chain(p)
    BY <2>1, ChainSame
  <2>5. ASSUME NEW x \in still'[c] PROVE f \in Re!Chain(place[x])'
    <3>1. PICK p : p = place[x]
      OBVIOUS
    <3> QED BY <2>1, <2>3, <2>4, <2>5, <3>1
  <2> QED BY <2>1, <2>5 DEF Reading, Zipping
<1>9. ASSUME NEW f \in Folder, Re!GetFolderTree(c, f)
      PROVE  Reading(c)' /\ Zipping(c)'
  <2>1. PICK u : u = request[c]
    OBVIOUS
  <2>2. u \in Exports /\ u.pc = "export" /\ UNCHANGED <<place, content>> /\ f \in u.todo
    BY <1>3, <1>9, <2>1, ShapeOf DEF Re!GetFolderTree, ReType
  <2>3. request'[c] = [u EXCEPT !.todo = (@ \ {f}) \union {g \in Folder : place[g] = f},
                                !.found = @ \union {x \in UserFile : place[x] = f}]
    BY <1>3, <1>9, <2>1 DEF Re!GetFolderTree, Re!Goto, ReType
  <2>4. /\ request'[c].pc = "export"
        /\ request'[c].todo = (u.todo \ {f}) \union {g \in Folder : place[g] = f}
        /\ request'[c].found = u.found \union {x \in UserFile : place[x] = f}
    BY <2>2, <2>3 DEF Exports
  <2>5. still'[c] \subseteq still[c]
    BY <1>4, <2>1, <2>2, <2>4
  <2>6. ASSUME NEW x \in still'[c]
        PROVE  x \in request'[c].found \/ \E g \in request'[c].todo : g \in Re!Chain(place[x])
    <3>1. x \in u.found \/ \E g \in u.todo : g \in Re!Chain(place[x])
      BY <2>1, <2>2, <2>5, <2>6 DEF StillInv, Reading
    <3>2. ASSUME f \in Re!Chain(place[x]), f # place[x] PROVE \E g \in request'[c].todo : g \in Re!Chain(place[x])
      <4>1. PICK p : p = place[x]
        OBVIOUS
      <4>2. PICK g \in Re!Chain(p) : place[g] = f
        BY <3>2, <4>1, ChainStep
      <4>3. g \in Folder
        BY ChainClosed
      <4> QED BY <2>4, <4>1, <4>2, <4>3
    <3>3. x \in UserFile
      BY <1>5, <2>6
    <3> QED BY <2>4, <3>1, <3>2, <3>3
  <2>7. ASSUME NEW x PROVE Re!Chain(place[x])' = Re!Chain(place[x])
    <3>1. PICK p : p = place[x]
      OBVIOUS
    <3>2. Re!Chain(p)' = Re!Chain(p)
      BY <2>2, ChainSame
    <3>3. Re!Chain(place[x])' = Re!Chain(p)'
      BY <2>2, <3>1
    <3> QED BY <3>1, <3>2, <3>3
  <2> QED BY <2>4, <2>6, <2>7 DEF Reading, Zipping
<1>10. ASSUME Re!BeginZip(c) PROVE Reading(c)' /\ Zipping(c)'
  <2>1. PICK u : u = request[c]
    OBVIOUS
  <2>2. u.pc = "export" /\ u.todo = {} /\ request'[c] = [pc |-> "zip", todo |-> u.found, zip |-> {}, unread |-> {}]
    BY <1>3, <1>10, <2>1 DEF Re!BeginZip, Re!Goto, ReType
  <2>3. still'[c] \subseteq still[c] /\ still'[c] \subseteq content'
    BY <1>4, <2>2
  <2>4. still[c] \subseteq u.found
    BY <2>1, <2>2 DEF StillInv, Reading
  <2> QED BY <2>2, <2>3, <2>4 DEF Reading, Zipping
<1>11. ASSUME NEW x \in UserFile, Re!AddFolderToZip(c, x)
       PROVE  Reading(c)' /\ Zipping(c)'
  <2>1. PICK u : u = request[c]
    OBVIOUS
  <2>2. u \in Zips /\ u.pc = "zip" /\ UNCHANGED <<place, content>>
    BY <1>3, <1>11, <2>1, ShapeOf DEF Re!AddFolderToZip, ReType
  <2>3. request'[c] = [u EXCEPT !.todo = @ \ {x}, !.zip = @ \union ({x} \intersect content)]
    BY <1>3, <1>11, <2>1 DEF Re!AddFolderToZip, Re!Goto, ReType
  <2>4. request'[c].pc = "zip" /\ request'[c].todo = u.todo \ {x} /\ request'[c].zip = u.zip \union ({x} \intersect content)
        /\ request'[c].unread = u.unread
    BY <2>2, <2>3 DEF Zips
  <2>5. still'[c] \subseteq still[c]
    BY <1>4, <2>2, <2>4
  <2>6. still[c] \subseteq u.todo \union u.zip \union u.unread /\ still[c] \subseteq content
    BY <2>1, <2>2 DEF StillInv, Zipping
  <2> QED BY <2>2, <2>4, <2>5, <2>6 DEF Reading, Zipping
<1>15. ASSUME NEW x \in UserFile, Re!SkipUnread(c, x)
       PROVE  Reading(c)' /\ Zipping(c)'
  <2>1. PICK u : u = request[c]
    OBVIOUS
  <2>2. u \in Zips /\ u.pc = "zip" /\ UNCHANGED <<place, content>>
    BY <1>3, <1>15, <2>1, ShapeOf DEF Re!SkipUnread, ReType
  <2>3. request'[c] = [u EXCEPT !.todo = @ \ {x}, !.unread = @ \union {x}]
    BY <1>3, <1>15, <2>1 DEF Re!SkipUnread, Re!Goto, ReType
  <2>4. request'[c].pc = "zip" /\ request'[c].todo = u.todo \ {x} /\ request'[c].zip = u.zip
        /\ request'[c].unread = u.unread \union {x}
    BY <2>2, <2>3 DEF Zips
  <2>5. still'[c] \subseteq still[c]
    BY <1>4, <2>2, <2>4
  <2>6. still[c] \subseteq u.todo \union u.zip \union u.unread /\ still[c] \subseteq content
    BY <2>1, <2>2 DEF StillInv, Zipping
  <2> QED BY <2>2, <2>4, <2>5, <2>6 DEF Reading, Zipping
<1>12. Reading(c)' /\ Zipping(c)'
  BY <1>3, <1>7, <1>8, <1>9, <1>10, <1>11, <1>15
<1>13. still' \in [Tab -> SUBSET UserFile]
  BY <1>2, <1>5
<1>14. ASSUME NEW d \in Tab PROVE Reading(d)' /\ Zipping(d)'
  BY <1>3, <1>6, <1>12
<1> QED BY <1>13, <1>14 DEF StillInv

-----------------------------------------------------------------------------
(* Exports of all files, on either server.                                 *)

ExInv ==
    /\ server \in Servers
    /\ making \in [Archive -> {None} \union SUBSET UserFile]
    /\ record \in [Archive -> {None, "running", "done"}]
    /\ zip \in [Archive -> SUBSET UserFile] /\ stayed \in [Archive -> SUBSET UserFile]
    /\ objects \subseteq UserFile
    /\ \A e \in Archive :
        /\ stayed[e] \subseteq objects
        /\ making[e] # None =>
            /\ stayed[e] \subseteq zip[e] \union making[e]
            /\ e \in disk \union taken
            /\ server = "zipfast" => record[e] = None
        /\ record[e] = "done" => stayed[e] \subseteq zip[e]
    /\ Ex!ExportServed

LEMMA NoneApart == None \notin {"running", "done"} /\ None \notin SUBSET UserFile /\ None # {}
                   /\ Servers \subseteq {"zipline", "zipfast"}
<1>0. /\ \A value \in {"running", "done"} \union SUBSET UserFile : value # None
      /\ Servers \subseteq {"zipline", "zipfast"}
  BY PartsAssumption DEF Ex!UserExportsAssumption
<1>1. None \notin {"running", "done"} /\ None \notin SUBSET UserFile
  BY <1>0
<1>2. {} \in SUBSET UserFile
  OBVIOUS
<1> QED BY <1>0, <1>1, <1>2

LEMMA ExStart == ASSUME Ex!Init PROVE ExInv
<1>1. /\ server \in Servers /\ objects = UserFile /\ record = [e \in Archive |-> None]
      /\ zip = [e \in Archive |-> {}] /\ stayed = zip /\ making = record /\ disk = {} /\ taken = {}
  BY DEF Ex!Init
<1> QED BY <1>1, NoneApart DEF ExInv, Ex!ExportServed

LEMMA ExStep == ASSUME ExInv, [Ex!Next]_exVars PROVE ExInv'
<1> USE NoneApart
<1>1. CASE UNCHANGED exVars
  BY <1>1 DEF exVars, ExInv, Ex!ExportServed
<1>2. ASSUME NEW e \in Archive, Ex!Begin(e) PROVE ExInv'
  <2>1. record[e] = None /\ making[e] = None
    BY <1>2 DEF Ex!Begin, Ex!Started
  <2> QED BY <1>2, <2>1 DEF Ex!Begin, ExInv, Ex!ExportServed
<1>3. ASSUME NEW e \in Archive, Ex!CloseZip(e) PROVE ExInv'
  <2>1. CASE e \in disk /\ record[e] = "running"
    BY <1>3, <2>1 DEF Ex!CloseZip, ExInv, Ex!ExportServed
  <2>2. CASE ~(e \in disk /\ record[e] = "running")
    BY <1>3, <2>2 DEF Ex!CloseZip, Ex!Dies, ExInv, Ex!ExportServed
  <2> QED BY <2>1, <2>2
<1>4. ASSUME NEW e \in Archive, Ex!Insert(e) PROVE ExInv'
  BY <1>4 DEF Ex!Insert, ExInv, Ex!ExportServed
<1>5. ASSUME NEW e \in Archive, Ex!InsertFails(e) PROVE ExInv'
  BY <1>5 DEF Ex!InsertFails, ExInv, Ex!ExportServed
<1>6. ASSUME NEW e \in Archive, Ex!Delete(e) PROVE ExInv'
  BY <1>6 DEF Ex!Delete, ExInv, Ex!ExportServed
<1>7. ASSUME NEW e \in Archive, Ex!Deleted(e) PROVE ExInv'
  BY <1>7 DEF Ex!Deleted, ExInv, Ex!ExportServed
<1>8. ASSUME NEW e \in Archive, Ex!ClearOne(e) PROVE ExInv'
  BY <1>8 DEF Ex!ClearOne, ExInv, Ex!ExportServed
<1>9. ASSUME NEW e \in Archive, NEW f \in UserFile, Ex!AddFile(e, f) PROVE ExInv'
  BY <1>9 DEF Ex!AddFile, ExInv, Ex!ExportServed
<1>13. ASSUME NEW e \in Archive, NEW f \in UserFile, Ex!SkipUnread(e, f) PROVE ExInv'
  BY <1>13 DEF Ex!SkipUnread, ExInv, Ex!ExportServed
<1>10. ASSUME NEW f \in UserFile, Ex!DeleteFile(f) PROVE ExInv'
  BY <1>10 DEF Ex!DeleteFile, ExInv, Ex!ExportServed
<1>11. CASE Ex!ClearTemp \/ Ex!Poll \/ Ex!Restart
  BY <1>11 DEF Ex!ClearTemp, Ex!Poll, Ex!Restart, ExInv, Ex!ExportServed
<1>12. CASE Ex!Crash
  BY <1>12 DEF Ex!Crash, Ex!Dies, ExInv, Ex!ExportServed
<1> QED BY <1>1, <1>2, <1>3, <1>4, <1>5, <1>6, <1>7, <1>8, <1>9, <1>10, <1>11, <1>12, <1>13 DEF Ex!Next

(* A folder's export that is sent holds every file that was below its      *)
(* folder all along, however the tree moves meanwhile; and an export of    *)
(* all files that is there and done holds every file that stayed; all but  *)
(* files that could not be read, which are passed over.                    *)
THEOREM ExportsAreWhole == Re!Spec /\ Ex!Spec => []ExportWhole
<1> DEFINE All == ReInv /\ StillInv /\ ExInv
<1>1. Re!Init /\ Ex!Init => All
  <2>1. ASSUME Re!Init PROVE StillInv
    BY <2>1, IdleJob DEF Re!Init, StillInv, Reading, Zipping
  <2> QED BY <2>1, ReStart, ExStart
<1>2. All /\ [Re!Next]_(Re!vars) /\ [Ex!Next]_(Ex!vars) => All'
  <2>1. ASSUME All, [Re!Next]_(Re!vars) PROVE ReInv' /\ StillInv'
    <3>1. ReInv'
      BY <2>1, ReStep DEF Re!vars, reVars
    <3>2. CASE Re!Next
      BY <2>1, <3>1, <3>2, StillStep
    <3>3. CASE UNCHANGED Re!vars
      <4>1. \A p : Re!Chain(p)' = Re!Chain(p)
        BY <3>3, ChainSame DEF Re!vars
      <4>2. ASSUME NEW x PROVE Re!Chain(place[x])' = Re!Chain(place[x])
        <5>1. PICK p : p = place[x]
          OBVIOUS
        <5>2. Re!Chain(place[x])' = Re!Chain(p)'
          BY <3>3, <5>1 DEF Re!vars
        <5> QED BY <4>1, <5>1, <5>2
      <4> QED BY <2>1, <3>1, <3>3, <4>2 DEF Re!vars, StillInv, Reading, Zipping
    <3> QED BY <2>1, <3>1, <3>2, <3>3
  <2>2. ASSUME All, [Ex!Next]_(Ex!vars) PROVE ExInv'
    BY <2>2, ExStep DEF Ex!vars, exVars
  <2> QED BY <2>1, <2>2
<1>3. All => ExportWhole
  <2>1. ASSUME StillInv PROVE Re!ExportWhole
    BY <2>1 DEF StillInv, Zipping, Re!ExportWhole
  <2> QED BY <2>1 DEF ExportWhole, ExInv
<1> QED BY <1>1, <1>2, <1>3, PTL DEF Re!Spec, Ex!Spec

-----------------------------------------------------------------------------
(* Why the folders stay a tree: what a dialog, a walk or a transaction is  *)
(* about to move f below is not below f.  Above p, as far as the walk has  *)
(* come, there is no f, and nothing leads elsewhere but to where it reads  *)
(* next.                                                                   *)
Clear(f, p, next) == \E W \in SUBSET Folder :
    /\ {p} \intersect Folder \subseteq W /\ f \notin W
    /\ next \in Folder => place[next] # Unborn
    /\ \A g \in W : place[g] # Unborn /\ (place[g] \in Folder => place[g] \in W \union {next})

(* A tab that may move a folder below another.                             *)
Mover(c) == May(c) \intersect {"move", "folder"} # {}

Heed(c, w) ==
    /\ w.pc \in {"walk", "set"} => Mover(c)
    /\ w \in Empties /\ w.target # Root => Mover(c)
    /\ Mover(c) =>
        /\ w.pc = "walk" => Clear(w.folder, w.target, w.at)
        /\ w.pc = "set" => Clear(w.folder, w.target, Root)
        /\ w.pc = "dialog" => \A g \in w.options : Clear(w.folder, g, Root)
        /\ w \in Empties => Clear(w.folder, w.target, Root)

(* Only the children of the folder to be deleted go below another.         *)
Sends(c, w) == \A r \in Folder : r \in DOMAIN dirty[c] /\ dirty[c][r] \in Folder =>
    w \in Empties /\ place[r] = w.folder /\ dirty[c][r] = w.target

(* Foreign keys, of what is committed and of what is about to be.          *)
Keyed ==
    /\ \A r \in Folder : place[r] \in Folder => place[place[r]] \in Spot
    /\ \A c, d \in Tab : \A r \in Folder : r \in DOMAIN dirty[c] /\ dirty[c][r] \in Folder =>
         place[dirty[c][r]] \in Spot /\ ~Deleted(d, dirty[c][r])
    /\ \A c \in Tab : \A r, g \in Folder : Deleted(c, g) /\ place[r] = g => r \in DOMAIN dirty[c]

(* No folders lead to one another forever.                                 *)
NoRing == \A U \in SUBSET Folder : U # {} => \E g \in U : place[g] \notin U

ReTreeInv == NoRing /\ Keyed /\ \A c \in Tab : Heed(c, request[c]) /\ Sends(c, request[c])

(* A step that moves no folder below another.                              *)
Falls == \A r \in Folder :
    \/ place'[r] = place[r]
    \/ place'[r] \notin Folder \union {Unborn}
    \/ place[r] = Unborn /\ place'[r] \in Folder /\ place[place'[r]] \in Spot

LEMMA ClearKept ==
    ASSUME Falls, NEW f, NEW p, NEW next, Clear(f, p, next)
    PROVE  Clear(f, p, next)'
<1>1. PICK W \in SUBSET Folder :
        /\ {p} \intersect Folder \subseteq W /\ f \notin W
        /\ next \in Folder => place[next] # Unborn
        /\ \A g \in W : place[g] # Unborn /\ (place[g] \in Folder => place[g] \in W \union {next})
  BY DEF Clear
<1>2. \A g \in W : place'[g] # Unborn /\ (place'[g] \in Folder => place'[g] \in W \union {next})
  BY <1>1 DEF Falls
<1>3. next \in Folder => place'[next] # Unborn
  BY <1>1 DEF Falls
<1> QED BY <1>1, <1>2, <1>3 DEF Clear

LEMMA FallsKeepsTree ==
    ASSUME Falls, NoRing, Keyed
    PROVE  NoRing'
<1> SUFFICES ASSUME NEW U \in SUBSET Folder, U # {}, \A g \in U : place'[g] \in U
             PROVE  FALSE
  BY DEF NoRing
<1> DEFINE V == {g \in U : place[g] # Unborn}
<1>0. Unborn \notin Folder /\ Unborn \notin Spot
  BY RePlaces
<1>1. CASE V # {}
  <2>1. PICK g \in V : place[g] \notin V
    BY <1>1 DEF NoRing
  <2>2. place[g] = place'[g] /\ place[g] \in U
    BY <2>1 DEF Falls
  <2>3. place[place[g]] # Unborn
    BY <1>0, <2>2 DEF Keyed
  <2> QED BY <2>1, <2>2, <2>3
<1>2. CASE V = {}
  <2>1. \A g \in U : place[g] = Unborn
    BY <1>2
  <2>2. PICK g \in U : TRUE
    OBVIOUS
  <2>3. place[place'[g]] \in Spot
    BY <1>0, <2>1, <2>2 DEF Falls
  <2> QED BY <1>0, <2>1, <2>2, <2>3
<1> QED BY <1>1, <1>2

(* Rows below f, or f itself, go below p, and f is not above p.            *)
LEMMA MoveKeepsTree ==
    ASSUME NoRing, NEW f \in Folder, NEW p, Clear(f, p, Root), NEW rows,
           \A r \in rows : (r = f \/ place[r] = f) /\ place'[r] = p,
           \A r \in Folder \ rows : place'[r] = place[r] \/ place'[r] \notin Folder
    PROVE  NoRing'
<1> SUFFICES ASSUME NEW U \in SUBSET Folder, U # {}, \A g \in U : place'[g] \in U
             PROVE  FALSE
  BY DEF NoRing
<1>0. Root \notin Folder
  BY RePlaces
<1>1. PICK W \in SUBSET Folder :
        /\ {p} \intersect Folder \subseteq W /\ f \notin W
        /\ \A g \in W : place[g] # Unborn /\ (place[g] \in Folder => place[g] \in W \union {Root})
  BY DEF Clear
<1>2. CASE p \in U
  <2>1. PICK g \in U \intersect W : place[g] \notin U \intersect W
    BY <1>1, <1>2 DEF NoRing
  <2>2. g \notin rows
    BY <1>0, <1>1, <2>1
  <2>3. place[g] \in U
    BY <2>1, <2>2
  <2> QED BY <1>0, <1>1, <2>1, <2>3
<1>3. CASE p \notin U
  <2>1. \A g \in U : place[g] \in U
    BY <1>3
  <2> QED BY <2>1 DEF NoRing
<1> QED BY <1>2, <1>3

(* Where a step changes what is committed.                                 *)
LEMMA KeyedAlone ==
    ASSUME Keyed, dirty' = dirty, ReType, ReType',
           \A r \in Folder : \/ place'[r] = place[r] \/ place'[r] \notin Folder
                             \/ /\ place'[place'[r]] \in Spot
                                /\ \A d \in Tab : ~Deleted(d, place'[r]),
           \A g \in Folder : place[g] \in Spot /\ place'[g] \notin Spot =>
               /\ \A r \in Folder : place'[r] # g
               /\ \A d \in Tab : \A r \in Folder : r \in DOMAIN dirty[d] => dirty[d][r] # g
    PROVE  Keyed'
<1>1. ASSUME NEW r \in Folder, place'[r] \in Folder PROVE place'[place'[r]] \in Spot
  <2>1. CASE place'[r] = place[r]
    <3>1. PICK g \in Folder : g = place[r]
      BY <1>1, <2>1
    <3>2. place[g] \in Spot
      BY <1>1, <2>1, <3>1 DEF Keyed
    <3> QED BY <2>1, <3>1, <3>2
  <2>2. CASE place'[r] # place[r]
    BY <1>1, <2>2
  <2> QED BY <2>1, <2>2
<1>2. ASSUME NEW c \in Tab, NEW d \in Tab, NEW r \in Folder, r \in DOMAIN dirty[c], dirty[c][r] \in Folder
      PROVE  place'[dirty[c][r]] \in Spot /\ ~Deleted(d, dirty[c][r])
  BY <1>2 DEF Keyed
<1>3. ASSUME NEW c \in Tab, NEW r \in Folder, NEW g \in Folder, Deleted(c, g), place'[r] = g
      PROVE  r \in DOMAIN dirty[c]
  BY <1>3 DEF Keyed
<1> QED BY <1>1, <1>2, <1>3 DEF Keyed, Deleted

(* Where a step changes what a transaction is about to commit.             *)
LEMMA KeyedBegun ==
    ASSUME Keyed, place' = place,
           \A c \in Tab : DOMAIN dirty[c] \subseteq DOMAIN dirty'[c],
           \A c \in Tab : \A r \in Folder : r \in DOMAIN dirty'[c] /\ dirty'[c][r] \in Folder =>
               \/ r \in DOMAIN dirty[c] /\ dirty'[c][r] = dirty[c][r]
               \/ place[dirty'[c][r]] \in Spot /\ \A d \in Tab : ~Deleted(d, dirty'[c][r]),
           \A c \in Tab : \A g \in Folder : Deleted(c, g)' /\ ~Deleted(c, g) =>
               /\ \A r \in Folder : place[r] = g => r \in DOMAIN dirty'[c]
               /\ \A d \in Tab : \A r \in Folder : r \in DOMAIN dirty'[d] => dirty'[d][r] # g
    PROVE  Keyed'
<1>1. ASSUME NEW c \in Tab, NEW d \in Tab, NEW r \in Folder, r \in DOMAIN dirty'[c], NEW g \in Folder, dirty'[c][r] = g
      PROVE  place[g] \in Spot /\ ~Deleted(d, g)'
  <2>1. place[g] \in Spot /\ ~Deleted(d, g)
    BY <1>1 DEF Keyed
  <2> QED BY <1>1, <2>1
<1>2. ASSUME NEW c \in Tab, NEW r \in Folder, NEW g \in Folder, Deleted(c, g)', place[r] = g
      PROVE  r \in DOMAIN dirty'[c]
  BY <1>2 DEF Keyed
<1> QED BY <1>1, <1>2 DEF Keyed, Deleted

-----------------------------------------------------------------------------
(* One tab at a time moves folders below others, and no dialog offers what *)
(* is below its folder.                                                    *)
OneMover == \A s \in ReferenceScene :
    /\ ~s.anyTarget
    /\ \A c, d \in Tab : s.may[c] \intersect {"move", "folder"} # {} /\ s.may[d] \intersect {"move", "folder"} # {}
         => c = d

LEMMA MoveStep ==
    ASSUME OneMover, ReInv, ReInv', ReTreeInv, UNCHANGED reScene, NEW c \in Tab,
           \A d \in Tab \ {c} : /\ request'[d] = request[d] /\ dirty'[d] = dirty[d]
                                /\ \A r \in DOMAIN dirty[d] : place'[r] = place[r],
           Falls \/ (Mover(c) /\ NoRing'), Keyed',
           NEW w, request'[c] = w, Heed(c, w)', Sends(c, w)'
    PROVE  ReTreeInv'
<1>1. NoRing'
  BY FallsKeepsTree DEF ReTreeInv
<1>2. ASSUME NEW d \in Tab, d # c PROVE Heed(d, request[d])' /\ Sends(d, request[d])'
  <2>1. PICK u : u = request[d]
    OBVIOUS
  <2>2. Heed(d, u) /\ Sends(d, u) /\ request'[d] = u /\ Mover(d)' = Mover(d)
    BY <1>2, <2>1 DEF ReTreeInv, Mover, May
  <2>3. Heed(d, u)'
    <3>1. CASE Mover(d)
      <4>1. Falls
        BY <3>1, <1>2 DEF OneMover, Mover, May, ReInv, ReType
      <4>2. /\ u.pc = "walk" => Clear(u.folder, u.target, u.at)'
            /\ u.pc = "set" => Clear(u.folder, u.target, Root)'
            /\ u.pc = "dialog" => \A g \in u.options : Clear(u.folder, g, Root)'
            /\ u \in Empties => Clear(u.folder, u.target, Root)'
        BY <2>2, <3>1, <4>1, ClearKept DEF Heed
      <4> QED BY <2>2, <3>1, <4>2 DEF Heed
    <3>2. CASE ~Mover(d)
      BY <2>2, <3>2 DEF Heed
    <3> QED BY <3>1, <3>2
  <2>4. Sends(d, u)'
    BY <1>2, <2>2 DEF Sends
  <2> QED BY <2>2, <2>3, <2>4
<1> QED BY <1>1, <1>2 DEF ReTreeInv

(* What a step of c may count on.                                          *)
Steady(c) ==
    /\ OneMover /\ ReInv /\ ReInv' /\ ReTreeInv /\ UNCHANGED reScene
    /\ \A d \in Tab \ {c} : request'[d] = request[d]

(* A request that moves nothing below another folder.                      *)
IsPlain(w) == w.pc \notin {"walk", "set", "dialog", "children", "files"} /\ w \notin Empties

LEMMA PlainHeeds ==
    ASSUME NEW c \in Tab, NEW w, IsPlain(w)
    PROVE  Heed(c, w)
BY DEF Heed, IsPlain

LEMMA PlainSorts ==
    ASSUME NEW w, \/ w.pc \notin {"walk", "set", "dialog", "children", "files", "commit"}
                  \/ w.pc = "commit" /\ w \in Descents
    PROVE  IsPlain(w)
<1>1. w.pc = "commit" /\ w \in Descents => w \notin Empties
  BY NamesIn
<1>2. w \in Empties => w.pc \in {"children", "files", "commit"}
  BY DEF Empties
<1> QED BY <1>1, <1>2 DEF IsPlain

LEMMA SameClear ==
    ASSUME place' = place, NEW f, NEW p, NEW next
    PROVE  Clear(f, p, next)' <=> Clear(f, p, next)
BY DEF Clear

LEMMA SameHeeds ==
    ASSUME UNCHANGED <<place, reScene>>, NEW c \in Tab, NEW w, Heed(c, w)
    PROVE  Heed(c, w)'
BY SameClear DEF Heed, Mover, May

(* Nothing but the record.                                                 *)
LEMMA RecordHeeds ==
    ASSUME NEW c \in Tab, Steady(c), UNCHANGED <<place, dirty>>, request[c] \notin Empties,
           NEW w, request'[c] = w, Heed(c, w)
    PROVE  ReTreeInv'
<1>1. Heed(c, w)'
  BY SameHeeds DEF Steady
<1>2. Sends(c, w)'
  BY DEF Steady, ReTreeInv, Sends
<1>3. Falls
  BY DEF Falls
<1>4. Keyed'
  BY DEF Steady, ReTreeInv, Keyed, Deleted
<1> QED BY <1>1, <1>2, <1>3, <1>4, MoveStep DEF Steady

(* The transaction is rolled back.                                         *)
LEMMA RollbackHeeds ==
    ASSUME NEW c \in Tab, Steady(c), Re!Rollback(c), Re!Finish(c)
    PROVE  ReTreeInv'
<1>1. place' = place /\ dirty'[c] = Re!NoChange /\ \A d \in Tab \ {c} : dirty'[d] = dirty[d]
  BY DEF Steady, ReInv, ReType, Re!Rollback
<1>2. DOMAIN dirty'[c] = {}
  BY <1>1, NoChangeEmpty
<1>3. PICK w : w = request'[c]
  OBVIOUS
<1>4. w = Re!Idle /\ IsPlain(w)
  BY <1>3, IdleJob, PlainSorts DEF Steady, ReInv, ReType, Re!Finish, Re!Goto
<1>5. Heed(c, w)' /\ Sends(c, w)' /\ Falls
  BY <1>1, <1>2, <1>4, PlainHeeds, SameHeeds DEF Steady, Sends, Falls
<1>6. Keyed'
  <2>1. \A d \in Tab : DOMAIN dirty'[d] = {} \/ dirty'[d] = dirty[d]
    BY <1>1, <1>2
  <2> QED BY <1>1, <2>1 DEF Steady, ReTreeInv, Keyed, Deleted
<1> QED BY <1>1, <1>3, <1>5, <1>6, MoveStep DEF Steady

LEMMA BeginHeeds ==
    ASSUME NEW c \in Tab, Steady(c), request[c] = Re!Idle,
           NEW kind \in May(c), Re!Begins(c, kind), kind # "upload"
    PROVE  ReTreeInv'
<1>0. request[c] \notin Empties /\ request \in [Tab -> Jobs] /\ ReType
  BY IdleJob DEF Empties, Steady, ReInv, ReType
<1>i. ASSUME NEW w, Re!Goto(c, w), IsPlain(w), UNCHANGED <<place, dirty>> PROVE ReTreeInv'
  BY <1>0, <1>i, PlainHeeds, RecordHeeds DEF Re!Goto
<1>1. CASE kind = "move"
  <2>1. PICK f \in Folder, p \in Spot : Re!Patch(c, f, p)
    BY <1>1 DEF Re!Begins, Spot
  <2>2. UNCHANGED <<place, dirty>> /\ p # f /\ p \in Re!Live \union {Root} /\ Mover(c)
    BY <1>1, <2>1 DEF Re!Patch, Mover
  <2>3. CASE p = Root
    <3>1. PICK w : w = [pc |-> "set", folder |-> f, target |-> p]
      OBVIOUS
    <3>2. request'[c] = w
      BY <1>0, <2>1, <2>3, <3>1 DEF Re!Patch, Re!Goto
    <3>3. Clear(f, p, Root)
      BY <2>3, RePlaces DEF Clear
    <3>4. w.pc = "set" /\ w.folder = f /\ w.target = p /\ w \notin Empties
      BY <3>1 DEF Empties
    <3>5. Heed(c, w)
      BY <2>2, <3>3, <3>4 DEF Heed
    <3> QED BY <1>0, <2>2, <3>2, <3>5, RecordHeeds
  <2>4. CASE p # Root
    <3>1. PICK w : w = [pc |-> "walk", folder |-> f, target |-> p, at |-> place[p]]
      OBVIOUS
    <3>2. request'[c] = w
      BY <1>0, <2>1, <2>4, <3>1 DEF Re!Patch, Re!Goto
    <3>3. Clear(f, p, place[p])
      <4>1. p \in Folder /\ place[p] # Unborn
        BY <1>0, <2>2, <2>4, PlacesAre, RePlaces
      <4>2. {p} \in SUBSET Folder /\ f \notin {p}
        BY <2>2, <4>1
      <4>3. place[p] \in Folder => place[place[p]] # Unborn
        BY <4>1, RePlaces DEF Steady, ReTreeInv, Keyed
      <4>4. \A g \in {p} : place[g] # Unborn /\ (place[g] \in Folder => place[g] \in {p} \union {place[p]})
        BY <4>1
      <4> QED BY <4>2, <4>3, <4>4 DEF Clear
    <3>4. w.pc = "walk" /\ w.folder = f /\ w.target = p /\ w.at = place[p] /\ w \notin Empties
      BY <3>1 DEF Empties
    <3>5. Heed(c, w)
      BY <2>2, <3>3, <3>4 DEF Heed
    <3> QED BY <1>0, <2>2, <3>2, <3>5, RecordHeeds
  <2> QED BY <2>3, <2>4
<1>2. CASE kind = "create"
  <2>1. PICK g \in Folder, p \in Spot, xs \in {{}} \union {{x} : x \in UserFile} : Re!Create(c, g, p, xs)
    BY <1>2 DEF Re!Begins, Spot
  <2> QED BY <1>i, <2>1, PlainSorts DEF Re!Create
<1>3. CASE kind = "add"
  <2>1. PICK f \in Folder, x \in UserFile : Re!AddFile(c, f, x)
    BY <1>3 DEF Re!Begins
  <2> QED BY <1>i, <2>1, PlainSorts DEF Re!AddFile
<1>4. CASE kind = "remove"
  <2>1. PICK f \in Folder, x \in UserFile : Re!RemoveFile(c, f, x)
    BY <1>4 DEF Re!Begins
  <2> QED BY <1>i, <2>1, PlainSorts DEF Re!RemoveFile
<1>5. CASE kind = "chain"
  <2>1. PICK f \in Folder : Re!ReadFolder(c, f) \/ Re!ReadPublicFolder(c, f)
    BY <1>5 DEF Re!Begins
  <2> QED BY <1>i, <2>1, PlainSorts DEF Re!ReadFolder, Re!ReadPublicFolder
<1>6. CASE kind = "export"
  <2>1. PICK f \in Folder : Re!Export(c, f)
    BY <1>6 DEF Re!Begins
  <2> QED BY <1>i, <2>1, PlainSorts DEF Re!Export
<1>7. CASE kind \notin {"move", "create", "add", "remove", "chain", "export"}
  <2>1. PICK f \in Folder : Re!OpenDialog(c, f)
    BY <1>7 DEF Re!Begins
  <2>2. PICK content0 : content0 = (Re!FoldersIn(c, f) \union Re!FilesIn(c, f) # {})
    OBVIOUS
  <2>3. PICK w : w = [pc |-> "dialog", folder |-> f, options |-> Re!Offered(f), content |-> content0]
    OBVIOUS
  <2>4. request'[c] = w /\ UNCHANGED <<place, dirty>>
    BY <1>0, <2>1, <2>2, <2>3 DEF Re!OpenDialog, Re!Goto
  <2>5. w.pc = "dialog" /\ w.folder = f /\ w.options = Re!Offered(f) /\ w \notin Empties
    BY <2>3 DEF Empties
  <2>6. ASSUME NEW g \in Re!Offered(f) PROVE Clear(f, g, Root)
    <3>1. g \in Folder /\ f \notin Re!Chain(g) /\ place[g] # Unborn
      BY <1>0, <2>6, PlacesAre, RePlaces DEF Re!Offered
    <3>2. PICK U \in SUBSET Folder : {g} \subseteq U /\ Re!ClosedUp(U) /\ f \notin U
      BY <3>1 DEF Re!Chain
    <3> DEFINE W == {h \in U : place[h] # Unborn}
    <3>3. \A h \in W : place[h] \in Folder => place[h] \in W
      <4>1. ASSUME NEW h \in W, place[h] \in Folder PROVE place[h] \in W
        <5>1. PICK k \in Folder : k = place[h]
          BY <4>1
        <5>2. place[k] # Unborn
          BY <4>1, <5>1, RePlaces DEF Steady, ReTreeInv, Keyed
        <5> QED BY <3>2, <4>1, <5>1, <5>2 DEF Re!ClosedUp
      <4> QED BY <4>1
    <3>4. W \in SUBSET Folder /\ g \in W /\ f \notin W /\ \A h \in W : place[h] # Unborn
      BY <3>1, <3>2
    <3> HIDE DEF W
    <3> QED BY <3>3, <3>4, RePlaces DEF Clear
  <2>7. Heed(c, w)
    BY <2>5, <2>6 DEF Heed
  <2> QED BY <1>0, <2>4, <2>7, RecordHeeds
<1> QED BY <1>1, <1>2, <1>3, <1>4, <1>5, <1>6, <1>7

LEMMA ChoiceHeeds ==
    ASSUME NEW c \in Tab, Steady(c),
           NEW action \in Re!ChildrenActions, NEW target \in Spot, Re!Delete(c, action, target)
    PROVE  ReTreeInv'
<1>0. PICK u : u = request[c]
  OBVIOUS
<1>1. /\ u \in Dialogs /\ u.pc = "dialog" /\ UNCHANGED <<place, dirty>> /\ action \in May(c)
      /\ target \in IF action = "folder" THEN Re!Targets(c) ELSE {Root}
      /\ request \in [Tab -> Jobs]
  BY <1>0, ShapeOf DEF Re!Delete, Steady, ReInv, ReType, May
<1>2. u \notin Empties /\ u.folder \in Folder
  BY <1>1 DEF Empties, Dialogs
<1>3. PICK w : /\ Re!Goto(c, w)
               /\ \/ w = Re!Idle \/ w.pc \in {"drop", "tree"}
                  \/ action \in {"root", "folder"} /\ w = [pc |-> "children", folder |-> u.folder, target |-> target]
  <2>1. CASE u.folder \notin Re!Live \/ target \notin Re!Live \union {Root}
    BY <1>0, <2>1 DEF Re!Delete
  <2>2. CASE ~(u.folder \notin Re!Live \/ target \notin Re!Live \union {Root}) /\ action = "none"
    BY <1>0, <2>2 DEF Re!Delete
  <2>3. CASE ~(u.folder \notin Re!Live \/ target \notin Re!Live \union {Root}) /\ action \in {"root", "folder"}
    BY <1>0, <2>3 DEF Re!Delete
  <2>4. CASE ~(u.folder \notin Re!Live \/ target \notin Re!Live \union {Root}) /\ action \notin {"root", "folder", "none"}
    <3>1. PICK s : s = <<[folder |-> u.folder, step |-> "children", todo |-> {}]>>
      OBVIOUS
    <3>2. PICK b : b = (action = "cascade-files")
      OBVIOUS
    <3>3. PICK wt : wt = [pc |-> "tree", folder |-> u.folder, files |-> b, names |-> {}, stack |-> s]
      OBVIOUS
    <3>4. Re!Goto(c, wt) /\ wt.pc = "tree"
      BY <1>0, <2>4, <3>1, <3>2, <3>3 DEF Re!Delete
    <3> QED BY <3>4
  <2> QED BY <2>1, <2>2, <2>3, <2>4
<1>4. request'[c] = w
  BY <1>1, <1>3 DEF Re!Goto
<1>5. Heed(c, w)
  <2>1. CASE w = Re!Idle \/ w.pc \in {"drop", "tree"}
    <3>1. IsPlain(w)
      BY <2>1, IdleJob, PlainSorts
    <3> QED BY <3>1, PlainHeeds
  <2>2. CASE action \in {"root", "folder"} /\ w = [pc |-> "children", folder |-> u.folder, target |-> target]
    <3>1. w.pc = "children" /\ w.folder = u.folder /\ w.target = target
      BY <2>2
    <3>2. target # Root => action = "folder" /\ Mover(c)
      BY <1>1 DEF Mover
    <3>3. Clear(u.folder, target, Root)
      <4>1. CASE target = Root
        BY <4>1, RePlaces DEF Clear
      <4>2. CASE target # Root
        <5>1. target \in u.options
          BY <1>0, <1>1, <3>2, <4>2 DEF Re!Targets, Steady, OneMover, ReInv, ReType
        <5> QED BY <1>0, <1>1, <3>2, <4>2, <5>1 DEF Steady, ReTreeInv, Heed
      <4> QED BY <4>1, <4>2
    <3> QED BY <3>1, <3>2, <3>3 DEF Heed
  <2> QED BY <1>3, <2>1, <2>2
<1> QED BY <1>0, <1>1, <1>2, <1>4, <1>5, RecordHeeds

LEMMA WalkHeeds ==
    ASSUME NEW c \in Tab, Steady(c), Re!Walk(c)
    PROVE  ReTreeInv'
<1>0. PICK u : u = request[c]
  OBVIOUS
<1>1. /\ u \in Walks /\ u.pc = "walk" /\ UNCHANGED <<place, dirty>> /\ request \in [Tab -> Jobs] /\ ReType
  BY <1>0, ShapeOf DEF Re!Walk, Steady, ReInv, ReType
<1>2. u \notin Empties /\ u.folder \in Folder /\ u.target \in Spot /\ u.at \in Spot
  BY <1>1 DEF Empties, Walks
<1>3. Mover(c) /\ Clear(u.folder, u.target, u.at)
  BY <1>0, <1>1 DEF Steady, ReTreeInv, Heed
<1>4. CASE u.at = u.folder
  <2>1. PICK w : w = Re!Idle
    OBVIOUS
  <2>2. request'[c] = w
    <3>1. u.at # Root
      BY <1>2, <1>4, RePlaces
    <3> QED BY <1>0, <1>1, <1>4, <2>1, <3>1 DEF Re!Walk, Re!Finish, Re!Goto
  <2>3. Heed(c, w)
    BY <2>1, IdleJob, PlainSorts, PlainHeeds
  <2> QED BY <1>0, <1>1, <1>2, <2>2, <2>3, RecordHeeds
<1>5. CASE u.at # u.folder /\ u.at = Root
  <2>1. PICK w : w = [pc |-> "set", folder |-> u.folder, target |-> u.target]
    OBVIOUS
  <2>2. request'[c] = w
    BY <1>0, <1>1, <1>5, <2>1 DEF Re!Walk, Re!Goto
  <2>3. w.pc = "set" /\ w.folder = u.folder /\ w.target = u.target /\ w \notin Empties
    BY <2>1 DEF Empties
  <2>4. Heed(c, w)
    BY <1>3, <1>5, <2>3 DEF Heed
  <2> QED BY <1>0, <1>1, <1>2, <2>2, <2>4, RecordHeeds
<1>6. CASE u.at # u.folder /\ u.at # Root
  <2>1. PICK next : next = IF u.at \in Re!Live THEN place[u.at] ELSE Root
    OBVIOUS
  <2>2. PICK w : w = [u EXCEPT !.at = next]
    OBVIOUS
  <2>3. request'[c] = w
    BY <1>0, <1>1, <1>6, <2>1, <2>2 DEF Re!Walk, Re!Goto
  <2>4. w.pc = "walk" /\ w.folder = u.folder /\ w.target = u.target /\ w.at = next /\ w \notin Empties
    BY <1>1, <2>2 DEF Walks, Empties
  <2>5. Clear(u.folder, u.target, next)
    <3>1. u.at \in Folder
      BY <1>2, <1>6, RePlaces
    <3>2. PICK W \in SUBSET Folder :
            /\ {u.target} \intersect Folder \subseteq W /\ u.folder \notin W
            /\ u.at \in Folder => place[u.at] # Unborn
            /\ \A g \in W : place[g] # Unborn /\ (place[g] \in Folder => place[g] \in W \union {u.at})
      BY <1>3 DEF Clear
    <3>3. place[u.at] \in Folder => place[u.at] = next
      BY <1>1, <2>1, <3>1, PlacesAre, RePlaces
    <3>4. next \in Folder => next = place[u.at]
      BY <2>1, RePlaces
    <3>5. next \in Folder => place[next] # Unborn
      <4>1. ASSUME next \in Folder PROVE place[next] # Unborn
        <5>1. place[place[u.at]] \in Spot
          BY <3>1, <3>4, <4>1 DEF Steady, ReTreeInv, Keyed
        <5> QED BY <3>4, <4>1, <5>1, RePlaces
      <4> QED BY <4>1
    <3> DEFINE V == W \union {u.at}
    <3>6. V \in SUBSET Folder /\ u.folder \notin V /\ {u.target} \intersect Folder \subseteq V
      BY <1>6, <3>1, <3>2
    <3>7. \A g \in V : place[g] # Unborn /\ (place[g] \in Folder => place[g] \in V \union {next})
      BY <3>1, <3>2, <3>3
    <3> HIDE DEF V
    <3> QED BY <3>5, <3>6, <3>7 DEF Clear
  <2>6. Heed(c, w)
    BY <1>3, <2>4, <2>5 DEF Heed
  <2> QED BY <1>0, <1>1, <1>2, <2>3, <2>6, RecordHeeds
<1> QED BY <1>4, <1>5, <1>6

(* What reads, closes or erases.                                           *)
LEMMA ReadHeeds ==
    ASSUME NEW c \in Tab, Steady(c), ReadStep(c) \/ TreeRead(c) \/ Re!Erase(c), ~Re!Walk(c)
    PROVE  ReTreeInv'
<1>0. PICK u : u = request[c]
  OBVIOUS
<1>1. UNCHANGED <<place, dirty>> /\ request \in [Tab -> Jobs] /\ u \in Jobs
  BY <1>0 DEF Steady, ReInv, ReType, ReadStep, TreeRead, Re!Erase, Re!BuildParentChain, Re!BuildPublicParentChain,
     Re!BeginZip, Re!EndZip, Re!CloseDialog, Re!GetFolderTree, Re!AddFolderToZip, Re!SkipUnread,
     Re!ReadChildren, Re!Descended, Re!ReadNames, Re!Descend
<1>2. u.pc \in {"chain", "public", "export", "zip", "dialog", "tree", "erase"}
  BY <1>0 DEF ReadStep, TreeRead, Re!Erase, Re!BuildParentChain, Re!BuildPublicParentChain,
     Re!BeginZip, Re!EndZip, Re!CloseDialog, Re!GetFolderTree, Re!AddFolderToZip, Re!SkipUnread,
     Re!ReadChildren, Re!Descended, Re!ReadNames, Re!Descend, Re!At
<1>3. u \in Chains \union Exports \union Zips \union Dialogs \union Descents \union Erases /\ u \notin Empties
  <2>1. u \notin Empties
    BY <1>2 DEF Empties
  <2> QED BY <1>1, <1>2, <2>1, ShapeOf
<1> DEFINE Comes(w) ==
        \/ w = Re!Idle \/ w.pc = "zip"
        \/ u \in Chains /\ \E a : w = [u EXCEPT !.at = a]
        \/ u \in Exports /\ \E a, b : w = [u EXCEPT !.todo = a, !.found = b]
        \/ u \in Zips /\ \E a, b : w = [u EXCEPT !.todo = a, !.zip = b]
        \/ u \in Zips /\ \E a, b : w = [u EXCEPT !.todo = a, !.unread = b]
        \/ u \in Descents /\ \E s : w = [u EXCEPT !.stack = s]
        \/ u \in Descents /\ \E s, n : w = [[u EXCEPT !.stack = s] EXCEPT !.names = n]
        \/ u \in Erases /\ \E n : w = [u EXCEPT !.names = n]
<1>4. \E w : Re!Goto(c, w) /\ Comes(w)
  <2>1. ASSUME Re!BuildParentChain(c) \/ Re!BuildPublicParentChain(c) PROVE \E w : Re!Goto(c, w) /\ Comes(w)
    <3>1. u \in Chains
      BY <1>0, <1>1, <2>1, ShapeOf DEF Re!BuildParentChain, Re!BuildPublicParentChain
    <3> QED BY <1>0, <2>1, <3>1 DEF Re!BuildParentChain, Re!BuildPublicParentChain
  <2>2. ASSUME Re!BeginZip(c) PROVE \E w : Re!Goto(c, w) /\ Comes(w)
    <3>1. \E v : Re!Goto(c, v) /\ v.pc = "zip"
      BY <2>2 DEF Re!BeginZip
    <3> QED BY <3>1
  <2>3. ASSUME Re!EndZip(c) \/ Re!CloseDialog(c) PROVE \E w : Re!Goto(c, w) /\ Comes(w)
    <3>1. Re!Goto(c, Re!Idle)
      BY <2>3 DEF Re!EndZip, Re!CloseDialog, Re!Finish
    <3> QED BY <3>1
  <2>4. ASSUME NEW g \in Folder, Re!GetFolderTree(c, g) PROVE \E w : Re!Goto(c, w) /\ Comes(w)
    <3>1. u \in Exports
      BY <1>0, <1>1, <2>4, ShapeOf DEF Re!GetFolderTree
    <3>2. \E a, b : Re!Goto(c, [u EXCEPT !.todo = a, !.found = b])
      BY <1>0, <2>4 DEF Re!GetFolderTree
    <3>3. PICK a, b : Re!Goto(c, [u EXCEPT !.todo = a, !.found = b])
      BY <3>2
    <3>4. PICK w : w = [u EXCEPT !.todo = a, !.found = b]
      OBVIOUS
    <3>5. Comes(w) /\ Re!Goto(c, w)
      BY <3>1, <3>3, <3>4
    <3> QED BY <3>5
  <2>5. ASSUME NEW x \in UserFile, Re!AddFolderToZip(c, x) PROVE \E w : Re!Goto(c, w) /\ Comes(w)
    <3>1. u \in Zips
      BY <1>0, <1>1, <2>5, ShapeOf DEF Re!AddFolderToZip
    <3>2. \E a, b : Re!Goto(c, [u EXCEPT !.todo = a, !.zip = b])
      BY <1>0, <2>5 DEF Re!AddFolderToZip
    <3>3. PICK a, b : Re!Goto(c, [u EXCEPT !.todo = a, !.zip = b])
      BY <3>2
    <3>4. PICK w : w = [u EXCEPT !.todo = a, !.zip = b]
      OBVIOUS
    <3>5. Comes(w) /\ Re!Goto(c, w)
      BY <3>1, <3>3, <3>4
    <3> QED BY <3>5
  <2>8. ASSUME NEW x \in UserFile, Re!SkipUnread(c, x) PROVE \E w : Re!Goto(c, w) /\ Comes(w)
    <3>1. u \in Zips
      BY <1>0, <1>1, <2>8, ShapeOf DEF Re!SkipUnread
    <3>2. \E a, b : Re!Goto(c, [u EXCEPT !.todo = a, !.unread = b])
      BY <1>0, <2>8 DEF Re!SkipUnread
    <3>3. PICK a, b : Re!Goto(c, [u EXCEPT !.todo = a, !.unread = b])
      BY <3>2
    <3>4. PICK w : w = [u EXCEPT !.todo = a, !.unread = b]
      OBVIOUS
    <3>5. Comes(w) /\ Re!Goto(c, w)
      BY <3>1, <3>3, <3>4
    <3> QED BY <3>5
  <2>6. ASSUME TreeRead(c) PROVE \E w : Re!Goto(c, w) /\ Comes(w)
    <3>1. u \in Descents
      BY <1>0, <1>1, <2>6, ShapeOf DEF TreeRead, Re!ReadChildren, Re!Descended, Re!ReadNames, Re!Descend, Re!At
    <3>2. \/ \E s : Re!Goto(c, [u EXCEPT !.stack = s])
          \/ \E s, n : Re!Goto(c, [[u EXCEPT !.stack = s] EXCEPT !.names = n])
      BY <1>0, <2>6 DEF TreeRead, Re!ReadChildren, Re!Descended, Re!ReadNames, Re!Descend, Re!SetTop
    <3>3. ASSUME NEW s, Re!Goto(c, [u EXCEPT !.stack = s]) PROVE \E w : Re!Goto(c, w) /\ Comes(w)
      <4>1. PICK w : w = [u EXCEPT !.stack = s]
        OBVIOUS
      <4>2. Comes(w) /\ Re!Goto(c, w)
        BY <3>1, <3>3, <4>1
      <4> QED BY <4>2
    <3>4. ASSUME NEW s, NEW n, Re!Goto(c, [[u EXCEPT !.stack = s] EXCEPT !.names = n])
          PROVE  \E w : Re!Goto(c, w) /\ Comes(w)
      <4>1. PICK w : w = [[u EXCEPT !.stack = s] EXCEPT !.names = n]
        OBVIOUS
      <4>2. Comes(w) /\ Re!Goto(c, w)
        BY <3>1, <3>4, <4>1
      <4> QED BY <4>2
    <3> HIDE DEF Comes
    <3> QED BY <3>2, <3>3, <3>4
  <2>7. ASSUME Re!Erase(c) PROVE \E w : Re!Goto(c, w) /\ Comes(w)
    <3>1. u \in Erases
      BY <1>0, <1>1, <2>7, ShapeOf DEF Re!Erase
    <3>2. Re!Goto(c, Re!Idle) \/ \E n : Re!Goto(c, [u EXCEPT !.names = n])
      BY <1>0, <2>7 DEF Re!Erase, Re!Finish
    <3> QED BY <3>1, <3>2
  <2> HIDE DEF Comes
  <2> QED BY <2>1, <2>2, <2>3, <2>4, <2>5, <2>6, <2>7, <2>8 DEF ReadStep
<1>a. PICK w : Re!Goto(c, w) /\ Comes(w)
  BY <1>4
<1>5. request'[c] = w
  BY <1>1, <1>a DEF Re!Goto
<1>6. w.pc \notin {"walk", "set", "dialog", "children", "files", "commit"}
  <2>1. CASE u \in Chains /\ \E a : w = [u EXCEPT !.at = a]
    BY <2>1 DEF Chains
  <2>2. CASE u \in Exports /\ \E a, b : w = [u EXCEPT !.todo = a, !.found = b]
    BY <2>2 DEF Exports
  <2>3. CASE u \in Zips /\ \E a, b : w = [u EXCEPT !.todo = a, !.zip = b]
    BY <2>3 DEF Zips
  <2>7. CASE u \in Zips /\ \E a, b : w = [u EXCEPT !.todo = a, !.unread = b]
    BY <2>7 DEF Zips
  <2>4. CASE u \in Descents /\ \E s : w = [u EXCEPT !.stack = s]
    BY <1>2, <2>4 DEF Descents
  <2>5. CASE u \in Descents /\ \E s, n : w = [[u EXCEPT !.stack = s] EXCEPT !.names = n]
    BY <1>2, <2>5 DEF Descents
  <2>6. CASE u \in Erases /\ \E n : w = [u EXCEPT !.names = n]
    BY <2>6 DEF Erases
  <2> QED BY <1>a, <2>1, <2>2, <2>3, <2>4, <2>5, <2>6, <2>7, IdleJob
<1>7. Heed(c, w)
  BY <1>6, PlainSorts, PlainHeeds
<1> QED BY <1>0, <1>1, <1>3, <1>5, <1>7, RecordHeeds

(* A statement of its own.                                                 *)
LEMMA AloneHeeds ==
    ASSUME NEW c \in Tab, Steady(c), dirty' = dirty, Re!Finish(c), DOMAIN dirty[c] = {},
           NEW rows, Re!Free(c, rows), \A r \in ReRow \ rows : place'[r] = place[r],
           \A r \in Folder : \/ place'[r] = place[r] \/ place'[r] \notin Folder
                             \/ /\ place'[place'[r]] \in Spot
                                /\ \A d \in Tab : ~Deleted(d, place'[r]),
           \A g \in Folder : place[g] \in Spot /\ place'[g] \notin Spot =>
               /\ \A r \in Folder : place'[r] # g
               /\ \A d \in Tab : \A r \in Folder : r \in DOMAIN dirty[d] => dirty[d][r] # g,
           Falls \/ (Mover(c) /\ NoRing')
    PROVE  ReTreeInv'
<1>1. PICK w : w = Re!Idle
  OBVIOUS
<1>2. request'[c] = w
  BY <1>1 DEF Steady, ReInv, ReType, Re!Finish, Re!Goto
<1>3. Heed(c, w)'
  <2>1. IsPlain(w)
    BY <1>1, IdleJob, PlainSorts
  <2> QED BY <2>1 DEF Heed, IsPlain
<1>4. Sends(c, w)'
  BY DEF Sends
<1>5. Keyed'
  BY KeyedAlone DEF Steady, ReTreeInv, ReInv
<1>6. \A d \in Tab \ {c} : dirty'[d] = dirty[d] /\ \A r \in DOMAIN dirty[d] : place'[r] = place[r]
  <2>1. ASSUME NEW d \in Tab \ {c}, NEW r \in DOMAIN dirty[d] PROVE r \in ReRow /\ r \notin rows
    <3>1. dirty[d] \in Changes
      BY DEF Steady, ReInv, ReType
    <3> QED BY <3>1, <2>1, ChangesAre DEF Re!Free
  <2> QED BY <2>1
<1> QED BY <1>2, <1>3, <1>4, <1>5, <1>6, MoveStep DEF Steady

LEMMA NothingDone ==
    ASSUME NEW c \in Tab, Steady(c), UNCHANGED <<place, dirty>>, Re!Finish(c), request[c] \notin Empties
    PROVE  ReTreeInv'
<1>1. PICK w : w = Re!Idle
  OBVIOUS
<1>2. request'[c] = w
  BY <1>1 DEF Steady, ReInv, ReType, Re!Finish, Re!Goto
<1>3. Heed(c, w)
  BY <1>1, IdleJob, PlainSorts, PlainHeeds
<1> QED BY <1>2, <1>3, RecordHeeds

LEMMA FilesMove ==
    ASSUME NEW c \in Tab, Steady(c), dirty' = dirty, Re!Finish(c), DOMAIN dirty[c] = {},
           NEW x \in UserFile, NEW p \in Spot \union {Gone}, Re!Free(c, {x}),
           place' = Re!Over(Re!Moved({x}, p), place)
    PROVE  ReTreeInv'
<1>1. /\ Re!Moved({x}, p) \in Changes /\ DOMAIN Re!Moved({x}, p) = {x}
      /\ place \in [ReRow -> Spot \union {Gone, Unborn}]
  <2>1. {x} \in SUBSET ReRow
    BY RePlaces
  <2>2. place \in [ReRow -> Spot \union {Gone, Unborn}]
    BY DEF Steady, ReInv, ReType
  <2> QED BY <2>1, <2>2, MovedMakes
<1>2. \A r \in ReRow \ {x} : place'[r] = place[r]
  BY <1>1, OverPlaces
<1>3. \A r \in Folder : place'[r] = place[r]
  BY <1>2, RePlaces
<1> QED BY <1>2, <1>3, AloneHeeds DEF Falls

LEMMA StandsFor ==
    ASSUME NEW c \in Tab, DOMAIN dirty[c] = {}, NEW p \in Folder, Re!Stands(c, p)
    PROVE  \A d \in Tab : ~Deleted(d, p)
BY DEF Re!Stands, Re!Free, Deleted

LEMMA AloneKeepsTree ==
    ASSUME NEW c \in Tab, Steady(c), Alone(c)
    PROVE  ReTreeInv'
<1>0. PICK u : u = request[c]
  OBVIOUS
<1>1. /\ ReType /\ u \in Jobs /\ Re!Finish(c) /\ u.pc \in {"set", "create", "connect", "disconnect", "drop"}
  BY <1>0 DEF Steady, ReInv, ReType, Alone, Re!SetParent, Re!CreateRow, Re!Connect, Re!Disconnect, Re!Drop
<1>2. DOMAIN dirty[c] = {} /\ u \notin Empties
  BY <1>0, <1>1 DEF Steady, ReInv, Keeps, Held, Empties
<1>3. ASSUME UNCHANGED <<place, dirty>> PROVE ReTreeInv'
  BY <1>0, <1>1, <1>2, <1>3, NothingDone
<1>p. \A f \in Folder : f \in Re!Live <=> place[f] \in Spot
  BY <1>1, PlacesAre
<1>4. CASE Re!SetParent(c)
  <2>1. u \in Sets /\ u.pc = "set"
    BY <1>0, <1>1, <1>4, ShapeOf DEF Re!SetParent
  <2>2. PICK f \in Folder, p \in Spot : f = u.folder /\ p = u.target
    BY <2>1 DEF Sets
  <2>3. CASE f \in Re!Live /\ p \in Re!Live \union {Root}
    <3>1. /\ place' = Re!Over(Re!Moved({f}, p), place) /\ dirty' = dirty
          /\ Re!Free(c, {f}) /\ Re!Stands(c, p)
      BY <1>0, <1>4, <2>2, <2>3 DEF Re!SetParent, Re!WriteAlone
    <3>2. PICK ch : ch = Re!Moved({f}, p)
      OBVIOUS
    <3>3. ch \in Changes /\ DOMAIN ch = {f} /\ ch[f] = p
      BY <3>2, MovedMakes, RePlaces
    <3>4. place'[f] = p /\ \A r \in ReRow \ {f} : place'[r] = place[r]
      BY <1>1, <3>1, <3>2, <3>3, OverPlaces DEF ReType
    <3>5. \A g \in Folder : place[g] \in Spot => place'[g] \in Spot
      BY <3>4, RePlaces
    <3>6. ASSUME p \in Folder PROVE place'[p] \in Spot /\ \A d \in Tab : ~Deleted(d, p)
      <4>1. place[p] \in Spot
        BY <1>p, <2>3, <3>6, RePlaces
      <4> QED BY <1>2, <3>1, <3>5, <3>6, <4>1, StandsFor
    <3>7. Mover(c) /\ Clear(f, p, Root)
      BY <1>0, <2>1, <2>2 DEF Steady, ReTreeInv, Heed
    <3>8. NoRing'
      <4>1. PICK rows : rows = {f}
        OBVIOUS
      <4>2. \A r \in rows : (r = f \/ place[r] = f) /\ place'[r] = p
        BY <3>4, <4>1
      <4>3. \A r \in Folder \ rows : place'[r] = place[r] \/ place'[r] \notin Folder
        BY <3>4, <4>1, RePlaces
      <4>4. NoRing
        BY DEF Steady, ReTreeInv
      <4> QED BY <3>7, <4>2, <4>3, <4>4, MoveKeepsTree
    <3>9. \A r \in Folder : \/ place'[r] = place[r] \/ place'[r] \notin Folder
                            \/ /\ place'[place'[r]] \in Spot
                               /\ \A d \in Tab : ~Deleted(d, place'[r])
      BY <3>4, <3>6, RePlaces
    <3> QED BY <1>1, <1>2, <3>1, <3>4, <3>5, <3>7, <3>8, <3>9, AloneHeeds
  <2> QED BY <1>0, <1>3, <1>4, <2>2, <2>3 DEF Re!SetParent
<1>5. CASE Re!CreateRow(c)
  <2>1. u \in Creates /\ u.pc = "create"
    BY <1>0, <1>1, <1>5, ShapeOf DEF Re!CreateRow
  <2>2. PICK g \in Folder, p \in Spot, xs \in SUBSET UserFile : g = u.folder /\ p = u.target /\ xs = u.files
    BY <2>1 DEF Creates
  <2>3. PICK ma : ma = Re!Moved({g}, p)
    OBVIOUS
  <2>4. PICK mb : mb = Re!Moved(xs, g)
    OBVIOUS
  <2>5. PICK ch : ch = Re!Over(ma, mb)
    OBVIOUS
  <2>6. ma \in Changes /\ DOMAIN ma = {g} /\ ma[g] = p
    BY <2>3, MovedMakes, RePlaces
  <2>7. mb \in Changes /\ DOMAIN mb = xs
    BY <2>2, <2>4, MovedMakes, RePlaces
  <2>8. ch \in Changes /\ DOMAIN ch = {g} \union xs /\ ch[g] = p
    BY ZenonT(60), <2>5, <2>6, <2>7, OverMakes
  <2>9. CASE place[g] = Unborn /\ p \in Re!Live \union {Root} /\ xs \subseteq Re!Listed
    <3>1. place' = Re!Over(ch, place) /\ dirty' = dirty /\ Re!Free(c, xs) /\ Re!Stands(c, p)
      BY <1>0, <1>5, <2>2, <2>3, <2>4, <2>5, <2>9 DEF Re!CreateRow, Re!WriteAlone
    <3>2. Re!Free(c, {g} \union xs)
      <4>1. \A d \in Tab : g \notin DOMAIN dirty[d]
        BY <2>9, RePlaces DEF Steady, ReInv, Locked
      <4> QED BY <3>1, <4>1 DEF Re!Free
    <3>3. place'[g] = p /\ \A r \in ReRow \ ({g} \union xs) : place'[r] = place[r]
      BY <1>1, <2>8, <3>1, OverPlaces DEF ReType
    <3>4. \A r \in Folder : r # g => place'[r] = place[r]
      BY <2>2, <3>3, RePlaces
    <3>5. \A h \in Folder : place[h] \in Spot => place'[h] \in Spot
      BY <3>3, <3>4
    <3>6. ASSUME p \in Folder PROVE place[p] \in Spot /\ place'[p] \in Spot /\ \A d \in Tab : ~Deleted(d, p)
      <4>1. place[p] \in Spot
        BY <1>p, <2>9, <3>6, RePlaces
      <4> QED BY <1>2, <3>1, <3>5, <3>6, <4>1, StandsFor
    <3>7. Falls
      <4>1. p \notin Folder => p # Unborn
        BY RePlaces
      <4> QED BY <2>9, <3>3, <3>4, <3>6, <4>1 DEF Falls
    <3>8. \A r \in Folder : \/ place'[r] = place[r] \/ place'[r] \notin Folder
                            \/ /\ place'[place'[r]] \in Spot
                               /\ \A d \in Tab : ~Deleted(d, place'[r])
      BY <3>3, <3>4, <3>6
    <3> QED BY <1>1, <1>2, <3>1, <3>2, <3>3, <3>5, <3>7, <3>8, AloneHeeds
  <2> QED BY <1>0, <1>3, <1>5, <2>2, <2>9 DEF Re!CreateRow
<1>6. CASE Re!Connect(c) \/ Re!Disconnect(c)
  <2>1. u \in Joins
    BY <1>0, <1>1, <1>6, ShapeOf DEF Re!Connect, Re!Disconnect
  <2>2. PICK f \in Folder, x \in UserFile : f = u.folder /\ x = u.file
    BY <2>1 DEF Joins
  <2>3. \/ UNCHANGED <<place, dirty>>
        \/ dirty' = dirty /\ Re!Free(c, {x}) /\ \E p \in {f, Root} : place' = Re!Over(Re!Moved({x}, p), place)
    BY <1>0, <1>6, <2>2 DEF Re!Connect, Re!Disconnect, Re!WriteAlone
  <2>4. f \in Spot /\ Root \in Spot
    BY <2>2, RePlaces
  <2> QED BY <1>1, <1>2, <1>3, <2>3, <2>4, FilesMove
<1>7. CASE Re!Drop(c)
  <2>1. u \in Drops /\ u.folder \in Folder
    BY <1>0, <1>1, <1>7, ShapeOf DEF Re!Drop, Drops
  <2>2. PICK f \in Folder : f = u.folder
    BY <2>1
  <2>3. PICK ch : ch = Re!RowDeleted(c, f)
    OBVIOUS
  <2>4. /\ ch \in Changes /\ DOMAIN ch = {f} \union Re!FoldersIn(c, f) \union Re!FilesIn(c, f)
        /\ ch[f] = Gone /\ \A r \in (Re!FoldersIn(c, f) \union Re!FilesIn(c, f)) \ {f} : ch[r] = Root
    BY <2>3, RowDeletedMakes
  <2>5. CASE f \in Re!Live
    <3>1. place' = Re!Over(ch, place) /\ dirty' = dirty /\ Re!Free(c, DOMAIN ch) /\ Re!Unreferenced(c, f)
      BY <1>0, <1>7, <2>2, <2>3, <2>4, <2>5 DEF Re!Drop, Re!WriteAlone, Re!MayDelete
    <3>2. \A r \in Folder : place[r] = f => r \in Re!FoldersIn(c, f)
      BY <1>2, ViewIs, RePlaces DEF Re!FoldersIn
    <3>3. /\ place'[f] = Gone /\ \A r \in ReRow \ DOMAIN ch : place'[r] = place[r]
          /\ \A r \in DOMAIN ch : place'[r] = ch[r]
      BY <1>1, <2>4, <3>1, OverPlaces DEF ReType
    <3>4. \A r \in Folder : r # f => place'[r] = Root \/ (place'[r] = place[r] /\ place[r] # f)
      BY <2>4, <3>2, <3>3, RePlaces
    <3>5. Falls
      BY <3>3, <3>4, RePlaces DEF Falls
    <3>6. \A r \in Folder : place'[r] # f
      BY <3>3, <3>4, RePlaces
    <3>7. \A g \in Folder : place[g] \in Spot /\ place'[g] \notin Spot => g = f
      BY <3>4, RePlaces
    <3>8. \A d \in Tab : \A r \in Folder : r \in DOMAIN dirty[d] => dirty[d][r] # f
      BY <1>2, <3>1 DEF Re!Unreferenced
    <3>9. \A r \in Folder : place'[r] = place[r] \/ place'[r] \notin Folder
      BY <3>3, <3>4, RePlaces
    <3> QED BY <1>1, <1>2, <3>1, <3>3, <3>5, <3>6, <3>7, <3>8, <3>9, AloneHeeds
  <2> QED BY <1>0, <1>3, <1>7, <2>2, <2>5 DEF Re!Drop
<1> QED BY <1>4, <1>5, <1>6, <1>7 DEF Alone

LEMMA UploadHeeds ==
    ASSUME NEW c \in Tab, Steady(c), request[c] = Re!Idle,
           NEW x \in UserFile, NEW p \in Spot, Re!Upload(c, x, p)
    PROVE  ReTreeInv'
<1>1. /\ dirty' = dirty /\ place' = Re!Over(Re!Moved({x}, p), place) /\ request' = request /\ place[x] = Unborn
  BY DEF Re!Upload, Re!WriteAlone
<1>2. DOMAIN dirty[c] = {}
  BY IdleJob DEF Steady, ReInv, Keeps, Held
<1>3. Re!Free(c, {x})
  BY <1>1, RePlaces DEF Re!Free, Steady, ReInv, Locked
<1>4. Re!Finish(c)
  BY <1>1 DEF Re!Finish, Re!Goto, Steady, ReInv, ReType
<1> QED BY <1>1, <1>2, <1>3, <1>4, FilesMove

(* A statement of a transaction.                                           *)
LEMMA WriteHeeds ==
    ASSUME NEW c \in Tab, Steady(c), place' = place, NEW ch \in Changes,
           dirty' = [dirty EXCEPT ![c] = Re!Over(ch, dirty[c])],
           \A r \in Folder : r \in DOMAIN ch /\ ch[r] \in Folder =>
               place[ch[r]] \in Spot /\ \A d \in Tab : ~Deleted(d, ch[r]),
           \A g \in Folder : g \in DOMAIN ch /\ ch[g] = Gone =>
               /\ \A r \in Folder : Re!View(c)[r] = g => r \in DOMAIN ch
               /\ \A r \in Folder : r \in DOMAIN ch => ch[r] # g
               /\ Re!Unreferenced(c, g),
           NEW w, request'[c] = w, Heed(c, w), Sends(c, w)'
    PROVE  ReTreeInv'
<1>1. dirty \in [Tab -> Changes]
  BY DEF Steady, ReInv, ReType
<1>2. PICK old \in Changes : old = dirty[c]
  BY <1>1
<1>3. PICK new : new = Re!Over(ch, old)
  OBVIOUS
<1>4. /\ DOMAIN new = DOMAIN ch \union DOMAIN old
      /\ \A r \in DOMAIN ch : new[r] = ch[r]
      /\ \A r \in DOMAIN old \ DOMAIN ch : new[r] = old[r]
  BY <1>2, <1>3, OverMakes
<1>5. dirty'[c] = new /\ \A d \in Tab \ {c} : dirty'[d] = dirty[d]
  BY <1>1, <1>2, <1>3
<1>6. \A r \in Folder : Re!View(c)[r] = IF r \in DOMAIN old THEN old[r] ELSE place[r]
  BY <1>2, ViewIs, RePlaces
<1>7. \A d \in Tab : DOMAIN dirty[d] \subseteq DOMAIN dirty'[d]
  BY <1>2, <1>4, <1>5
<1>8. ASSUME NEW d \in Tab, NEW r \in Folder, r \in DOMAIN dirty'[d], dirty'[d][r] \in Folder
      PROVE  \/ r \in DOMAIN dirty[d] /\ dirty'[d][r] = dirty[d][r]
             \/ place[dirty'[d][r]] \in Spot /\ \A e \in Tab : ~Deleted(e, dirty'[d][r])
  <2>1. CASE d # c
    BY <1>5, <1>8, <2>1
  <2>2. CASE d = c /\ r \in DOMAIN ch
    BY <1>4, <1>5, <1>8, <2>2
  <2>3. CASE d = c /\ r \notin DOMAIN ch
    BY <1>2, <1>4, <1>5, <1>8, <2>3
  <2> QED BY <2>1, <2>2, <2>3
<1>9. ASSUME NEW d \in Tab, NEW g \in Folder, Deleted(d, g)', ~Deleted(d, g)
      PROVE  /\ \A r \in Folder : place[r] = g => r \in DOMAIN dirty'[d]
             /\ \A e \in Tab : \A r \in Folder : r \in DOMAIN dirty'[e] => dirty'[e][r] # g
  <2>1. d = c /\ g \in DOMAIN new /\ new[g] = Gone
    BY <1>5, <1>9 DEF Deleted
  <2>2. g \in DOMAIN ch /\ ch[g] = Gone
    BY <1>2, <1>4, <1>9, <2>1 DEF Deleted
  <2>3. \A r \in Folder : place[r] = g => r \in DOMAIN new
    BY <1>4, <1>6, <2>2
  <2>4. \A r \in Folder : r \in DOMAIN new => new[r] # g
    BY <1>4, <1>6, <2>2
  <2>5. \A e \in Tab \ {c} : \A r \in Folder : r \in DOMAIN dirty[e] => dirty[e][r] # g
    BY <2>2 DEF Re!Unreferenced
  <2> QED BY <1>5, <2>1, <2>3, <2>4, <2>5
<1>10. Keyed'
  <2>1. Keyed
    BY DEF Steady, ReTreeInv
  <2> QED BY <2>1, <1>7, <1>8, <1>9, KeyedBegun
<1>11. Heed(c, w)'
  BY SameHeeds DEF Steady
<1>12. Falls
  BY DEF Falls
<1> QED BY <1>5, <1>10, <1>11, <1>12, MoveStep DEF Steady

(* What c has changed of its folders' places.                              *)
LEMMA WrittenBy ==
    ASSUME NEW c \in Tab, Steady(c), NEW ch \in Changes, dirty' = [dirty EXCEPT ![c] = Re!Over(ch, dirty[c])]
    PROVE  \A r \in DOMAIN dirty'[c] : \/ r \in DOMAIN ch /\ dirty'[c][r] = ch[r]
                                       \/ r \notin DOMAIN ch /\ r \in DOMAIN dirty[c] /\ dirty'[c][r] = dirty[c][r]
<1>1. dirty \in [Tab -> Changes]
  BY DEF Steady, ReInv, ReType
<1>2. PICK old \in Changes : old = dirty[c]
  BY <1>1
<1>3. PICK new : new = Re!Over(ch, old)
  OBVIOUS
<1>4. /\ DOMAIN new = DOMAIN ch \union DOMAIN old
      /\ \A r \in DOMAIN ch : new[r] = ch[r]
      /\ \A r \in DOMAIN old \ DOMAIN ch : new[r] = old[r]
  BY ZenonT(60), <1>2, <1>3, OverMakes
<1>5. dirty'[c] = new
  BY <1>1, <1>2, <1>3
<1> QED BY <1>2, <1>4, <1>5

LEMMA ContentHeeds ==
    ASSUME NEW c \in Tab, Steady(c), Re!MoveChildren(c) \/ Re!MoveFiles(c)
    PROVE  ReTreeInv'
<1>0. PICK u : u = request[c]
  OBVIOUS
<1>1. u \in Empties /\ u.pc \in {"children", "files"} /\ request \in [Tab -> Jobs]
  BY <1>0, ShapeOf DEF Re!MoveChildren, Re!MoveFiles, Re!MoveContent, Steady, ReInv, ReType
<1>2. PICK f \in Folder, t \in Spot : f = u.folder /\ t = u.target
  BY <1>1 DEF Empties
<1>3. PICK next \in {"files", "commit"}, rows \in SUBSET ReRow :
        /\ Re!MoveContent(c, u.pc, rows, next)
        /\ \/ u.pc = "children" /\ rows = Re!FoldersIn(c, f)
           \/ u.pc = "files" /\ rows \subseteq UserFile
  <2>1. CASE Re!MoveChildren(c)
    <3>1. u.pc = "children"
      BY <1>0, <2>1 DEF Re!MoveChildren, Re!MoveContent
    <3>2. Re!FoldersIn(c, f) \in SUBSET ReRow
      BY RePlaces DEF Re!FoldersIn
    <3> QED BY <1>0, <1>2, <2>1, <3>1, <3>2 DEF Re!MoveChildren
  <2>2. CASE Re!MoveFiles(c)
    <3>1. u.pc = "files"
      BY <1>0, <2>2 DEF Re!MoveFiles, Re!MoveContent
    <3>2. Re!FilesIn(c, f) \in SUBSET ReRow /\ Re!FilesIn(c, f) \subseteq UserFile
      BY RePlaces DEF Re!FilesIn
    <3> QED BY <1>0, <1>2, <2>2, <3>1, <3>2 DEF Re!MoveFiles
  <2> QED BY <2>1, <2>2
<1>4. CASE Re!Rollback(c) /\ Re!Finish(c)
  BY <1>4, RollbackHeeds
<1>5. CASE /\ Re!Write(c, Re!Moved(rows, t)) /\ Re!Goto(c, [u EXCEPT !.pc = next])
           /\ rows = {} \/ t = Root \/ Re!Exists(c, t)
  <2>1. PICK w : w = [u EXCEPT !.pc = next]
    OBVIOUS
  <2>2. w \in Empties /\ w.folder = f /\ w.target = t /\ w.pc = next /\ request'[c] = w
    BY <1>1, <1>2, <1>5, <2>1 DEF Empties, Re!Goto
  <2>3. PICK ch : ch = Re!Moved(rows, t)
    OBVIOUS
  <2>4. ch \in Changes /\ DOMAIN ch = rows /\ \A r \in rows : ch[r] = t
    BY <2>3, MovedMakes
  <2>5. place' = place /\ dirty' = [dirty EXCEPT ![c] = Re!Over(ch, dirty[c])]
    BY <1>5, <2>3 DEF Re!Write
  <2>6. Heed(c, w)
    <3>1. Heed(c, u)
      BY <1>0 DEF Steady, ReTreeInv
    <3> QED BY <1>1, <1>2, <2>2, <3>1 DEF Heed
  <2>7. \A r \in DOMAIN ch : ch[r] # Gone
    BY <2>4, RePlaces
  <2>8. /\ \A r \in Folder : r \in DOMAIN ch /\ ch[r] \in Folder =>
               place[ch[r]] \in Spot /\ \A d \in Tab : ~Deleted(d, ch[r])
        /\ Sends(c, w)'
    <3>1. CASE u.pc = "children" /\ rows = Re!FoldersIn(c, f)
      <4>1. DOMAIN dirty[c] = {}
        BY <1>0, <3>1 DEF Steady, ReInv, Keeps, Held
      <4>2. \A r \in rows : r \in Folder /\ place[r] = f
        BY <3>1, <4>1, ViewIs, RePlaces DEF Re!FoldersIn
      <4>3. ASSUME t \in Folder, rows # {} PROVE place[t] \in Spot /\ \A d \in Tab : ~Deleted(d, t)
        <5>1. Re!Exists(c, t) /\ Re!Stands(c, t)
          BY <1>0, <1>2, <1>3, <1>5, <4>3, RePlaces DEF Re!MoveContent
        <5>2. place[t] \in Spot
          <6>1. place[t] \notin {Gone, Unborn}
            BY <4>1, <4>3, <5>1, ViewIs, RePlaces DEF Re!Exists
          <6> QED BY <4>3, <6>1, RePlaces DEF Steady, ReInv, ReType
        <5> QED BY <4>1, <4>3, <5>1, <5>2, StandsFor
      <4>4. Sends(c, w)'
        <5>0. \A r \in DOMAIN dirty'[c] :
                \/ r \in DOMAIN ch /\ dirty'[c][r] = ch[r]
                \/ r \notin DOMAIN ch /\ r \in DOMAIN dirty[c] /\ dirty'[c][r] = dirty[c][r]
          BY <2>4, <2>5, WrittenBy
        <5>1. \A r \in DOMAIN dirty'[c] : r \in rows /\ dirty'[c][r] = t
          BY <2>4, <4>1, <5>0
        <5> QED BY <2>2, <2>5, <4>2, <5>1 DEF Sends
      <4> QED BY <2>4, <4>3, <4>4
    <3>2. CASE u.pc = "files" /\ rows \subseteq UserFile
      <4>1. \A r \in Folder : r \notin DOMAIN ch
        BY <2>4, <3>2, RePlaces
      <4>2. Sends(c, u)
        BY <1>0 DEF Steady, ReTreeInv
      <4>3. \A r \in Folder : r \in DOMAIN dirty'[c] => r \in DOMAIN dirty[c] /\ dirty'[c][r] = dirty[c][r]
        BY ZenonT(60), <2>4, <2>5, <4>1, WrittenBy
      <4>4. Sends(c, w)'
        BY <1>2, <2>2, <2>5, <4>2, <4>3 DEF Sends
      <4> QED BY <4>1, <4>4
    <3> QED BY <1>3, <3>1, <3>2
  <2> QED BY <2>2, <2>4, <2>5, <2>6, <2>7, <2>8, WriteHeeds
<1> QED BY <1>0, <1>2, <1>3, <1>4, <1>5 DEF Re!MoveContent

LEMMA DeletionHeeds ==
    ASSUME NEW c \in Tab, Steady(c), Re!DeleteFiles(c) \/ Re!DeleteRow(c)
    PROVE  ReTreeInv'
<1>0. PICK u : u = request[c]
  OBVIOUS
<1>1. u \in Descents /\ u.pc = "tree" /\ request \in [Tab -> Jobs]
  BY <1>0, ShapeOf DEF Re!DeleteFiles, Re!DeleteRow, Re!At, Steady, ReInv, ReType
<1>2. Re!Top(c) \in ReFrame
  BY <1>0, <1>1, InTree DEF Steady
<1>3. PICK f \in Folder : f = Re!Top(c).folder
  BY <1>2 DEF ReFrame
<1>4. u \notin Empties /\ Sends(c, u)
  BY <1>0, <1>1, NamesIn DEF Steady, ReTreeInv
<1>5. CASE Re!Rollback(c) /\ Re!Finish(c)
  BY <1>5, RollbackHeeds
<1>6. ASSUME NEW w, Re!Goto(c, w), w.pc = "tree" \/ (w.pc = "commit" /\ w \in Descents), place' = place,
             NEW ch \in Changes, dirty' = [dirty EXCEPT ![c] = Re!Over(ch, dirty[c])],
             \A r \in Folder : r \in DOMAIN ch => ch[r] \notin Folder,
             \A g \in Folder : g \in DOMAIN ch /\ ch[g] = Gone =>
               /\ \A r \in Folder : Re!View(c)[r] = g => r \in DOMAIN ch
               /\ Re!Unreferenced(c, g)
      PROVE  ReTreeInv'
  <2>1. request'[c] = w /\ Heed(c, w)
    BY <1>1, <1>6, PlainSorts, PlainHeeds DEF Re!Goto
  <2>2. Sends(c, w)'
    <3>0. \A r \in DOMAIN dirty'[c] :
            \/ r \in DOMAIN ch /\ dirty'[c][r] = ch[r]
            \/ r \notin DOMAIN ch /\ r \in DOMAIN dirty[c] /\ dirty'[c][r] = dirty[c][r]
      BY <1>6, WrittenBy
    <3>1. \A r \in Folder : r \in DOMAIN dirty'[c] => dirty'[c][r] \notin Folder
      BY <1>4, <1>6, <3>0 DEF Sends
    <3> QED BY <3>1 DEF Sends
  <2>3. \A g \in Folder : \A r \in Folder : r \in DOMAIN ch => ch[r] # g
    BY <1>6
  <2> QED BY <1>6, <2>1, <2>2, <2>3, WriteHeeds
<1>7. CASE Re!DeleteFiles(c)
  <2>1. PICK s, rows : /\ rows = Re!FilesIn(c, f) /\ Re!Write(c, Re!Moved(rows, Gone))
                       /\ Re!Goto(c, [u EXCEPT !.stack = s])
    BY <1>0, <1>3, <1>7 DEF Re!DeleteFiles, Re!SetTop
  <2>2. PICK w : w = [u EXCEPT !.stack = s]
    OBVIOUS
  <2>3. w.pc = "tree" /\ Re!Goto(c, w)
    BY <1>1, <2>1, <2>2 DEF Descents
  <2>4. PICK ch : ch = Re!Moved(rows, Gone)
    OBVIOUS
  <2>5. rows \in SUBSET ReRow /\ rows \subseteq UserFile
    BY <2>1, RePlaces DEF Re!FilesIn
  <2>6. ch \in Changes /\ \A r \in Folder : r \notin DOMAIN ch
    BY <2>4, <2>5, MovedMakes, RePlaces
  <2>7. place' = place /\ dirty' = [dirty EXCEPT ![c] = Re!Over(ch, dirty[c])]
    BY <2>1, <2>4 DEF Re!Write
  <2> QED BY <1>6, <2>3, <2>6, <2>7
<1>8. CASE Re!DeleteRow(c) /\ ~(Re!Rollback(c) /\ Re!Finish(c))
  <2>1. /\ Re!MayDelete(c, f) /\ Re!Write(c, Re!RowDeleted(c, f))
        /\ Re!Goto(c, IF Len(u.stack) = 1 THEN [u EXCEPT !.pc = "commit"] ELSE [u EXCEPT !.stack = Tail(u.stack)])
    BY <1>0, <1>3, <1>8 DEF Re!DeleteRow
  <2>2. PICK w : w = IF Len(u.stack) = 1 THEN [u EXCEPT !.pc = "commit"] ELSE [u EXCEPT !.stack = Tail(u.stack)]
    OBVIOUS
  <2>3. Re!Goto(c, w) /\ (w.pc = "tree" \/ (w.pc = "commit" /\ w \in Descents))
    <3>1. CASE Len(u.stack) = 1
      BY <1>1, <2>1, <2>2, <3>1 DEF Descents
    <3>2. CASE Len(u.stack) # 1
      BY <1>1, <2>1, <2>2, <3>2 DEF Descents
    <3> QED BY <3>1, <3>2
  <2>4. PICK ch : ch = Re!RowDeleted(c, f)
    OBVIOUS
  <2>5. /\ ch \in Changes /\ DOMAIN ch = {f} \union Re!FoldersIn(c, f) \union Re!FilesIn(c, f)
        /\ ch[f] = Gone /\ \A r \in (Re!FoldersIn(c, f) \union Re!FilesIn(c, f)) \ {f} : ch[r] = Root
    BY <2>4, RowDeletedMakes
  <2>6. place' = place /\ dirty' = [dirty EXCEPT ![c] = Re!Over(ch, dirty[c])]
    BY <2>1, <2>4 DEF Re!Write
  <2>7. \A r \in Folder : r \in DOMAIN ch => ch[r] \notin Folder
    BY <2>5, RePlaces
  <2>8. ASSUME NEW g \in Folder, g \in DOMAIN ch, ch[g] = Gone
        PROVE  /\ \A r \in Folder : Re!View(c)[r] = g => r \in DOMAIN ch
               /\ Re!Unreferenced(c, g)
    <3>1. g = f
      BY <2>5, <2>8, RePlaces
    <3> QED BY <2>1, <2>5, <3>1 DEF Re!FoldersIn, Re!MayDelete
  <2> QED BY <1>6, <2>3, <2>5, <2>6, <2>7, <2>8
<1> QED BY <1>5, <1>7, <1>8

LEMMA CommitHeeds ==
    ASSUME NEW c \in Tab, Steady(c), Re!Commit(c)
    PROVE  ReTreeInv'
<1>0. PICK u : u = request[c]
  OBVIOUS
<1>1. /\ u.pc = "commit" /\ u \in Descents \union Empties /\ request \in [Tab -> Jobs]
      /\ place' = Re!View(c) /\ dirty' = [dirty EXCEPT ![c] = Re!NoChange]
      /\ ReType /\ Locked /\ Keyed /\ NoRing /\ Sends(c, u) /\ Heed(c, u)
  BY <1>0, ShapeOf DEF Re!Commit, Steady, ReInv, ReType, ReTreeInv
<1>2. PICK old \in Changes : old = dirty[c]
  BY <1>1 DEF ReType
<1>3. \A r \in ReRow : place'[r] = IF r \in DOMAIN old THEN old[r] ELSE place[r]
  BY <1>1, <1>2, ViewIs
<1>4. /\ DOMAIN old \subseteq ReRow /\ Folder \subseteq ReRow
      /\ \A r \in DOMAIN old : old[r] \in Spot \union {Gone} /\ place[r] \in Spot
  BY <1>1, <1>2, ChangesAre, RePlaces DEF Locked
<1>5. DOMAIN dirty'[c] = {} /\ \A d \in Tab \ {c} : dirty'[d] = dirty[d]
  BY <1>1, NoChangeEmpty DEF ReType
<1>6. PICK w : w = request'[c]
  OBVIOUS
<1>7. w.pc \in {"erase", "drop"}
  BY <1>0, <1>1, <1>6 DEF Re!Commit, Re!Goto
<1>8. Heed(c, w)' /\ Sends(c, w)'
  <2>1. IsPlain(w)
    BY <1>7, PlainSorts
  <2> QED BY <2>1, <1>5 DEF Heed, IsPlain, Sends
<1>9. \A d \in Tab \ {c} : \A r \in DOMAIN dirty[d] : place'[r] = place[r]
  <2>1. ASSUME NEW d \in Tab \ {c}, NEW r \in DOMAIN dirty[d] PROVE r \in ReRow /\ r \notin DOMAIN old
    <3>1. dirty[d] \in Changes
      BY <1>1 DEF ReType
    <3> QED BY <1>1, <1>2, <2>1, <3>1, ChangesAre DEF Locked
  <2> QED BY <1>3, <2>1
<1>10. Keyed'
  <2>1. ASSUME NEW r \in Folder, NEW g \in Folder, place'[r] = g
        PROVE  place'[g] \in Spot /\ \A d \in Tab : Deleted(d, g)' => r \in DOMAIN dirty'[d]
    <3>1. CASE r \in DOMAIN old
      <4>1. old[r] = g
        BY <1>3, <1>4, <2>1, <3>1
      <4>2. place[g] \in Spot /\ \A d \in Tab : ~Deleted(d, g)
        BY <1>1, <1>2, <2>1, <3>1, <4>1 DEF Keyed
      <4>3. place'[g] \in Spot
        BY <1>2, <1>3, <1>4, <4>2 DEF Deleted
      <4>4. \A d \in Tab : ~Deleted(d, g)'
        BY <1>5, <4>2 DEF Deleted
      <4> QED BY <4>3, <4>4
    <3>2. CASE r \notin DOMAIN old
      <4>1. place[r] = g
        BY <1>3, <1>4, <2>1, <3>2
      <4>2. place[g] \in Spot /\ \A d \in Tab : Deleted(d, g) => r \in DOMAIN dirty[d]
        BY <1>1, <2>1, <4>1 DEF Keyed
      <4>3. ~Deleted(c, g)
        BY <1>2, <3>2, <4>2
      <4>4. place'[g] \in Spot
        BY <1>2, <1>3, <1>4, <4>2, <4>3 DEF Deleted
      <4>5. \A d \in Tab : Deleted(d, g)' => r \in DOMAIN dirty'[d]
        BY <1>5, <4>2 DEF Deleted
      <4> QED BY <4>4, <4>5
    <3> QED BY <3>1, <3>2
  <2>2. ASSUME NEW a \in Tab, NEW d \in Tab, NEW r \in Folder, r \in DOMAIN dirty'[a], NEW g \in Folder, dirty'[a][r] = g
        PROVE  place'[g] \in Spot /\ ~Deleted(d, g)'
    <3>1. a # c /\ dirty'[a] = dirty[a]
      BY <1>5, <2>2
    <3>2. place[g] \in Spot /\ \A e \in Tab : ~Deleted(e, g)
      BY <1>1, <2>2, <3>1 DEF Keyed
    <3>3. place'[g] \in Spot
      BY <1>2, <1>3, <1>4, <3>2 DEF Deleted
    <3>4. ~Deleted(d, g)'
      BY <1>5, <3>2 DEF Deleted
    <3> QED BY <3>3, <3>4
  <2> QED BY <2>1, <2>2 DEF Keyed
<1>11. Falls \/ (Mover(c) /\ NoRing')
  <2> DEFINE rows == {r \in Folder : r \in DOMAIN old /\ old[r] \in Folder}
  <2>1. CASE rows = {}
    <3>1. \A r \in Folder : place'[r] = place[r] \/ place'[r] \notin Folder \union {Unborn}
      BY <1>3, <1>4, <2>1, RePlaces
    <3> QED BY <3>1 DEF Falls
  <2>2. CASE rows # {}
    <3>1. PICK f, t : f = u.folder /\ t = u.target
      OBVIOUS
    <3>2. u \in Empties /\ t \in Folder
      BY <1>1, <1>2, <2>2, <3>1 DEF Sends
    <3>3. f \in Folder /\ t # Root
      BY <3>1, <3>2, RePlaces DEF Empties
    <3>4. Mover(c) /\ Clear(f, t, Root)
      BY <1>1, <3>1, <3>2, <3>3 DEF Heed
    <3>5. \A r \in rows : (r = f \/ place[r] = f) /\ place'[r] = t
      BY <1>1, <1>2, <1>3, <1>4, <3>1 DEF Sends
    <3>6. \A r \in Folder \ rows : place'[r] = place[r] \/ place'[r] \notin Folder
      BY <1>3, <1>4
    <3> HIDE DEF rows
    <3>7. PICK some : some = rows
      OBVIOUS
    <3>8. /\ \A r \in some : (r = f \/ place[r] = f) /\ place'[r] = t
          /\ \A r \in Folder \ some : place'[r] = place[r] \/ place'[r] \notin Folder
      BY <3>5, <3>6, <3>7
    <3> QED BY <1>1, <3>3, <3>4, <3>8, MoveKeepsTree
  <2> QED BY <2>1, <2>2
<1> QED BY <1>5, <1>6, <1>8, <1>9, <1>10, <1>11, MoveStep DEF Steady

LEMMA ReTreeStep ==
    ASSUME OneMover, ReInv, ReInv', ReTreeInv, Re!Next
    PROVE  ReTreeInv'
<1>1. PICK c \in Tab : Re!Begin(c) \/ Re!Step(c) \/ Re!Chosen(c) \/ Re!Fails(c)
  BY DEF Re!Next
<1>2. Steady(c)
  <2>1. \A d \in Tab \ {c} : request'[d] = request[d]
    BY <1>1, OtherSteps
  <2> QED BY <2>1 DEF Steady, Re!Next
<1>3. CASE Re!Begin(c)
  <2>1. request[c] = Re!Idle
    BY <1>3 DEF Re!Begin
  <2>2. PICK kind \in May(c) : Re!Begins(c, kind)
    BY <1>3 DEF Re!Begin, May
  <2>3. CASE kind = "upload"
    <3>1. PICK x \in UserFile, p \in Spot : Re!Upload(c, x, p)
      BY <2>2, <2>3 DEF Re!Begins, Spot
    <3> QED BY <1>2, <2>1, <3>1, UploadHeeds
  <2>4. CASE kind # "upload"
    BY <1>2, <2>1, <2>2, <2>4, BeginHeeds
  <2> QED BY <2>3, <2>4
<1>4. CASE Re!Chosen(c)
  <2>1. CASE Re!CloseDialog(c)
    <3>1. ReadStep(c) /\ ~Re!Walk(c)
      BY <2>1 DEF ReadStep, Re!CloseDialog, Re!Walk
    <3> QED BY <1>2, <3>1, ReadHeeds
  <2>2. ASSUME NEW action \in Re!ChildrenActions, NEW target \in Spot, Re!Delete(c, action, target) PROVE ReTreeInv'
    BY <1>2, <2>2, ChoiceHeeds
  <2> QED BY <1>4, <2>1, <2>2 DEF Re!Chosen, Spot
<1>5. CASE Re!Fails(c) \/ Re!TimesOut(c)
  <2>1. Re!Rollback(c) /\ Re!Finish(c)
    BY <1>5 DEF Re!Fails, Re!TimesOut
  <2> QED BY <1>2, <2>1, RollbackHeeds
<1>6. CASE Re!Step(c)
  <2>1. CASE Alone(c)
    BY <1>2, <2>1, AloneKeepsTree
  <2>2. CASE Re!MoveChildren(c) \/ Re!MoveFiles(c)
    BY <1>2, <2>2, ContentHeeds
  <2>3. CASE Re!DeleteFiles(c) \/ Re!DeleteRow(c)
    BY <1>2, <2>3, DeletionHeeds
  <2>4. CASE Re!Commit(c)
    BY <1>2, <2>4, CommitHeeds
  <2>5. CASE Re!Walk(c)
    BY <1>2, <2>5, WalkHeeds
  <2>6. CASE (TreeRead(c) \/ Re!Erase(c) \/ ReadStep(c)) /\ ~Re!Walk(c)
    BY <1>2, <2>6, ReadHeeds
  <2> QED BY <1>5, <1>6, <2>1, <2>2, <2>3, <2>4, <2>5, <2>6 DEF Re!Step, Alone, TreeRead, ReadStep
<1> QED BY <1>1, <1>3, <1>4, <1>5, <1>6

(* Where no folders lead to one another forever, every one hangs together  *)
(* with the root, and the other way round.                                 *)
LEMMA RootedTree ==
    ASSUME ReType, \A r \in Folder : place[r] \in Folder => place[place[r]] \in Spot
    PROVE  Re!Acyclic <=> NoRing
<1>1. ASSUME NoRing, NEW f \in Folder, place[f] \in Spot, \A g \in Re!Chain(f) : place[g] # Root PROVE FALSE
  <2> DEFINE U == {g \in Re!Chain(f) : place[g] \in Spot}
  <2>1. U \in SUBSET Folder /\ f \in U
    BY <1>1, ChainClosed
  <2>2. \A g \in U : place[g] \in U
    <3>1. ASSUME NEW g \in U PROVE place[g] \in U
      <4>1. g \in Folder /\ place[g] \in Folder
        BY <1>1, <2>1, RePlaces
      <4>2. place[g] \in Re!Chain(f)
        BY <4>1, ChainClosed
      <4> QED BY <4>1, <4>2
    <3> QED BY <3>1
  <2> QED BY <1>1, <2>1, <2>2 DEF NoRing
<1>2. ASSUME Re!Acyclic, NEW U \in SUBSET Folder, NEW f \in U, \A g \in U : place[g] \in U PROVE FALSE
  <2>1. Re!ClosedUp(U) /\ {f} \intersect Folder \subseteq U
    BY <1>2 DEF Re!ClosedUp
  <2>2. Re!Chain(f) \subseteq U
    BY <2>1, ChainClosed
  <2>3. place[f] \in Spot
    BY <1>2, RePlaces
  <2>4. f \in Re!Live
    BY <2>3 DEF Re!Live, Spot
  <2>5. PICK g \in Re!Chain(f) : place[g] = Root
    BY <1>2, <2>4 DEF Re!Acyclic, Re!Rooted
  <2> QED BY <1>2, <2>2, <2>5, RePlaces
<1>3. NoRing => Re!Acyclic
  BY <1>1, PlacesAre DEF Re!Acyclic, Re!Rooted
<1>4. Re!Acyclic => NoRing
  BY <1>2 DEF NoRing
<1> QED BY <1>3, <1>4

LEMMA ReTreeStart ==
    ASSUME Re!Init
    PROVE  ReTreeInv
<1>1. ReType
  BY ReStart DEF ReInv
<1>2. /\ \A r \in ReRow : place[r] \in Folder => place[r] \in Re!Live
      /\ Re!Acyclic /\ dirty = [c \in Tab |-> Re!NoChange] /\ request = [c \in Tab |-> Re!Idle]
  BY DEF Re!Init, ReRow
<1>3. \A c \in Tab : DOMAIN dirty[c] = {} /\ request[c] = Re!Idle
  BY <1>2, NoChangeEmpty
<1>4. \A r \in Folder : place[r] \in Folder => place[place[r]] \in Spot
  BY <1>1, <1>2, PlacesAre, RePlaces
<1>5. Keyed
  BY <1>3, <1>4 DEF Keyed, Deleted
<1>6. NoRing
  BY <1>1, <1>2, <1>4, RootedTree
<1>7. ASSUME NEW c \in Tab PROVE Heed(c, request[c]) /\ Sends(c, request[c])
  <2>1. IsPlain(Re!Idle)
    BY IdleJob, PlainSorts
  <2> QED BY <1>3, <2>1, PlainHeeds DEF Sends
<1> QED BY <1>5, <1>6, <1>7 DEF ReTreeInv

(* As long as one tab at a time moves folders below others and no dialog   *)
(* offers a folder what is below it, no folder is ever below itself: the   *)
(* walk that a move takes, and the list that a dialog showed, stay true    *)
(* while others create, delete and empty folders in transactions.          *)
THEOREM ReferenceTree ==
    ASSUME OneMover
    PROVE  Re!Spec => []TreeStays
<1>1. Re!Init => ReInv /\ ReTreeInv
  BY ReStart, ReTreeStart
<1>2. ReInv /\ ReTreeInv /\ [Re!Next]_(Re!vars) => (ReInv /\ ReTreeInv)'
  <2>1. SUFFICES ASSUME ReInv, ReTreeInv, [Re!Next]_(Re!vars) PROVE ReInv' /\ ReTreeInv'
    OBVIOUS
  <2>2. ReInv'
    BY <2>1, ReStep DEF Re!vars, reVars
  <2>3. CASE Re!Next
    BY <2>1, <2>2, <2>3, ReTreeStep
  <2>4. CASE UNCHANGED Re!vars
    <3>1. UNCHANGED <<reScene, place, dirty, request>>
      BY <2>4 DEF Re!vars
    <3>2. \A c \in Tab : Heed(c, request[c])' /\ Sends(c, request[c])'
      <4>1. ASSUME NEW c \in Tab PROVE Heed(c, request[c])' /\ Sends(c, request[c])'
        <5>1. PICK u : u = request[c]
          OBVIOUS
        <5>2. Heed(c, u)' /\ Sends(c, u)'
          BY <2>1, <3>1, <5>1, SameHeeds DEF ReTreeInv, Sends
        <5> QED BY <3>1, <5>1, <5>2
      <4> QED BY <4>1
    <3>3. NoRing'
      BY <2>1, <3>1 DEF ReTreeInv, NoRing
    <3>4. Keyed'
      BY <2>1, <3>1 DEF ReTreeInv, Keyed, Deleted
    <3> QED BY <2>2, <3>2, <3>3, <3>4 DEF ReTreeInv
  <2> QED BY <2>1, <2>2, <2>3, <2>4
<1>3. ReInv /\ ReTreeInv => TreeStays
  <2>1. ReInv /\ ReTreeInv => Re!Acyclic
    BY RootedTree DEF ReInv, ReTreeInv, Keyed
  <2> QED BY <2>1 DEF TreeStays, Re!TreeStays
<1> QED BY <1>1, <1>2, <1>3, PTL DEF Re!Spec
=============================================================================
