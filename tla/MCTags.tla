------------------------------- MODULE MCTags --------------------------------
(***************************************************************************)
(* One tab in which the files of a page are opened, one of them with a     *)
(* tag, and the field of the tags is used.                                 *)
(***************************************************************************)
EXTENDS FileBrowser

CONSTANTS x1, x2, x3, g1, t1

ThreeFiles == <<x1, x2, x3>>
EveryFile == All :> {x1, x2, x3}
Plain == [fav |-> FALSE, folder |-> FALSE, tags |-> {}, limit |-> None]
OneTagged == {[may |-> t1 :> {"open", "tags"},
               rows |-> [f \in {x1, x2, x3} |-> IF f = x2 THEN [Plain EXCEPT !.tags = {g1}] ELSE Plain],
               tags |-> {g1}]}
=============================================================================
