------------------------------ MODULE SealChain ------------------------------
(***************************************************************************)
(* What the sealed reserve promises: reserve leaves a pool in parcels of    *)
(* Threshold units, one parcel in flight at a time, and a parcel that is    *)
(* minted is appended to a log of blocks.  The log is append-only, every    *)
(* block holds the hash of the block before it, and no hash occurs twice.   *)
(***************************************************************************)
EXTENDS Integers, Sequences

CONSTANTS Threshold, Amounts, None

VARIABLES pool, inflight, log

vars == <<pool, inflight, log>>

TipHash(l) == IF l = <<>> THEN 0 ELSE l[Len(l)].hash

Init == pool = 0 /\ inflight = None /\ log = <<>>

(* A parcel on top of log l is taken out of p units, or p stays pooled.     *)
TakeParcel(p, l) ==
    \/ /\ p >= Threshold
       /\ pool' = p - Threshold
       /\ inflight' # None
       /\ inflight'.prev = TipHash(l)
       /\ \A i \in DOMAIN l : l[i].hash # inflight'.hash
    \/ pool' = p /\ inflight' = None

Fill ==
    /\ \E amount \in Amounts :
          IF inflight = None THEN TakeParcel(pool + amount, log)
          ELSE pool' = pool + amount /\ UNCHANGED inflight
    /\ UNCHANGED log

Take ==
    /\ inflight = None
    /\ TakeParcel(pool, log)
    /\ UNCHANGED log

(* The parcel in flight is decided, and the next one may be taken at once.  *)
Mint ==
    /\ inflight # None
    /\ log' = Append(log, inflight)
    /\ TakeParcel(pool, log')

Hold ==
    /\ inflight # None
    /\ UNCHANGED log
    /\ TakeParcel(pool, log)

Next == Fill \/ Take \/ Mint \/ Hold

Spec == Init /\ [][Next]_vars
=============================================================================
