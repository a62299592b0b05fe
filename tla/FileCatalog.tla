----------------------------- MODULE FileCatalog -----------------------------
(***************************************************************************)
(* What the file store promises its clients, whatever goroutines, crashes  *)
(* and storage failures do: a file is new, then stored, then gone, once    *)
(* each way; an upload is acknowledged only as the file becomes stored;    *)
(* and an acknowledged file leaves only when somebody is entitled to it.   *)
(***************************************************************************)
CONSTANT File

VARIABLES
    phase,      \* "new", "stored" or "gone"
    acked,      \* files whose uploader was told "stored"
    condemned   \* files that have expired or were asked to be deleted

catalogVars == <<phase, acked, condemned>>

CatalogInit ==
    /\ phase = [f \in File |-> "new"]
    /\ acked = {}
    /\ condemned = {}

(* The upload takes effect; its answer may or may not reach the uploader. *)
Store(f) ==
    /\ phase[f] = "new"
    /\ phase' = [phase EXCEPT ![f] = "stored"]
    /\ acked' \in {acked, acked \union {f}}
    /\ UNCHANGED condemned

(* Uploads come to nothing: one refused, or all those a crash cut short. *)
Abort(F) ==
    /\ \A f \in F : phase[f] = "new"
    /\ phase' = [f \in File |-> IF f \in F THEN "gone" ELSE phase[f]]
    /\ UNCHANGED <<acked, condemned>>

Condemn(f) ==
    /\ phase[f] = "stored"
    /\ condemned' = condemned \union {f}
    /\ UNCHANGED <<phase, acked>>

Remove(f) ==
    /\ phase[f] = "stored"
    /\ f \in condemned \/ f \notin acked
    /\ phase' = [phase EXCEPT ![f] = "gone"]
    /\ UNCHANGED <<acked, condemned>>

CatalogNext ==
    \/ \E f \in File : Store(f) \/ Condemn(f) \/ Remove(f)
    \/ \E F \in SUBSET File : Abort(F)

CatalogSpec == CatalogInit /\ [][CatalogNext]_catalogVars
=============================================================================
