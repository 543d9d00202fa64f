--------------------------- MODULE DriveAllocation ---------------------------
(***************************************************************************)
(* What ARM promises about its drives, without the processes, rows and      *)
(* locks it keeps the promise with: a drive has at most one job, a job that *)
(* has had its turn never takes a drive again, and a drive that is taken    *)
(* changes hands only by being released first.                              *)
(***************************************************************************)
CONSTANTS
    Jobs,    \* disc jobs
    Drives,  \* optical drives
    Nobody   \* the owner of a free drive

VARIABLES
    owner,   \* the job each drive is ripping for, or Nobody
    served   \* the jobs that have had their turn at a drive

vars == <<owner, served>>

Init ==
    /\ owner = [d \in Drives |-> Nobody]
    /\ served = {}

Acquire(d, j) ==
    /\ owner[d] = Nobody
    /\ j \in Jobs \ served
    /\ owner' = [owner EXCEPT ![d] = j]
    /\ served' = served \cup {j}

(* Drives are released, several at once in a restart; and jobs lose their   *)
(* turn without a drive (the association could not be saved).               *)
Release(S, lost) ==
    /\ owner' = [d \in Drives |-> IF d \in S THEN Nobody ELSE owner[d]]
    /\ served' = served \cup lost

Next ==
    \/ \E d \in Drives, j \in Jobs : Acquire(d, j)
    \/ \E S \in SUBSET Drives, lost \in SUBSET Jobs : Release(S, lost)

Spec == Init /\ [][Next]_vars
=============================================================================
