---------------------------- MODULE TokenBuckets ----------------------------
(***************************************************************************)
(* What the rate limiter promises: a bucket for every key.  A request is   *)
(* admitted if its key's bucket holds the price of one, which it takes;    *)
(* time refills the buckets.  An exempt key is always admitted.  If there  *)
(* can be more keys than the limiter has room for it may, as it admits a   *)
(* request, forget what all the others have used; a bucket alone is never  *)
(* forgotten.                                                              *)
(***************************************************************************)
EXTENDS Naturals

CONSTANTS Key, Exempt, Full, Cost, Crowded, NoVerdict

VARIABLES bucket, verdict

Init ==
    /\ bucket = [k \in Key |-> Full]
    /\ verdict = NoVerdict

Refilled(level) == IF level < Full THEN level + 1 ELSE level

Tick ==
    /\ bucket' = [k \in Key |-> Refilled(bucket[k])]
    /\ UNCHANGED verdict

Verdict(k, admitted) == verdict' = [key |-> k, admitted |-> admitted]

Pass(k) ==
    /\ k \in Exempt
    /\ Verdict(k, TRUE)
    /\ UNCHANGED bucket

Admit(k) ==
    /\ bucket[k] >= Cost
    /\ bucket' = [bucket EXCEPT ![k] = @ - Cost]
    /\ Verdict(k, TRUE)

Refuse(k) ==
    /\ k \notin Exempt
    /\ bucket[k] < Cost
    /\ Verdict(k, FALSE)
    /\ UNCHANGED bucket

AdmitAfresh(k) ==
    /\ Crowded
    /\ bucket' = [[j \in Key |-> Full] EXCEPT ![k] = Full - Cost]
    /\ Verdict(k, TRUE)

Next == Tick \/ \E k \in Key : Pass(k) \/ Admit(k) \/ Refuse(k) \/ AdmitAfresh(k)

BucketsSpec == Init /\ [][Next]_<<bucket, verdict>>
=============================================================================
