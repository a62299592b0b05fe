------------------------------ MODULE MCImport ------------------------------
(***************************************************************************)
(* Two imports of an export: a small instance of Import.                   *)
(***************************************************************************)
EXTENDS Naturals, TLC

CONSTANTS
    u1, u2, d1, d2, f1, f2, t1, i1,
    User, Folder, File, Tag, Item, Exports, Importer, Hows, Me, Kept, None, MaxEdits

VARIABLES how, export, db, op, edits, raced

Im == INSTANCE Import WITH Op <- Importer

ASSUME ImportAssumption == Im!ImportAssumption

Rows == User \union Folder \union File \union Tag \union Item

(* Two folders of u1, one in the other, a file in the inner one and one in *)
(* the outer one, of u2 or of nobody, a tag of u1 on the first, and one    *)
(* item of u1.                                                             *)
MCExport(kind, owner2, taken, twins) ==
    [kind |-> [i \in Item |-> kind],
     owner |-> (f2 :> owner2) @@ [x \in Rows |-> IF x \in User THEN None ELSE u1],
     up |-> (d2 :> d1) @@ (f1 :> d2) @@ (f2 :> d1) @@ [x \in Folder \union File |-> None],
     tagged |-> [t \in Tag |-> {f1}],
     taken |-> taken, twins |-> twins]

MCExports ==
    {MCExport("oauth", u2, {f1}, {}), MCExport("quota", u2, {u2}, {}), MCExport("quota", u2, {u1}, {}),
     MCExport("passkey", u2, {d1}, {}), MCExport("url", None, {t1}, {}), MCExport("invite", u2, {}, {d1, d2})}

ImportSpec == Im!Spec

(* A row comes over once, and no import puts a folder into itself.         *)
ImportedOnce == Im!UnmergedOnce /\ Im!AcyclicAtRest

(* An import nobody comes between brings each row over whole, unless its   *)
(* name is in use or what it hangs on was left out.                        *)
Delivered == Im!Delivered

Symmetry == Permutations(Importer)
=============================================================================
