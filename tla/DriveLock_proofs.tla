-------------------------- MODULE DriveLock_proofs --------------------------
(***************************************************************************)
(* What ARM may rely on of a drive's lock file, for any number of runs,     *)
(* probers and files. flock alone gives one holder per file (OnePerFile);   *)
(* that there is one ripper per drive needs that all runs nobody has        *)
(* undercut have the same file open, the one the name refers to (Named).    *)
(***************************************************************************)
EXTENDS DriveLock, TLAPS

(* The lock of one file has one holder, probers included. *)
OnePerFile ==
    /\ \A p, r \in Procs :
         proc[p] \in Holding /\ proc[r] \in Holding /\ fd[p] = fd[r] => p = r
    /\ \A p \in Procs, q \in Probers :
         proc[p] \in Holding /\ probe[q] = "held" => fd[p] # pfd[q]

(* A run that is past its open and has not been undercut has the file of    *)
(* the name open.                                                           *)
Named ==
    \A p \in Procs :
      proc[p] \in {"opened", "locked", "main"} =>
        fd[p] # NoFile /\ (p \notin undercut => fd[p] = path)

LockInv == TypeOK /\ OnePerFile /\ Named

LEMMA LockInit == Init => LockInv
BY DEF Init, LockInv, TypeOK, OnePerFile, Named, ProcPCs, ProbePCs, Holding

(* A run of the wrapper never joins another lock on its file, and opens the *)
(* file of the name, whoever has it open already.                           *)
LEMMA WrapperKeeps ==
    ASSUME LockInv, NEW p \in Procs, Wrapper(p)
    PROVE  LockInv'
<1> USE DEF LockInv, TypeOK, ProcPCs, Holding
<1>1. CASE Open(p)
  <2>1. TypeOK' /\ OnePerFile'
    BY <1>1 DEF Open, Opened, OnePerFile
  <2>2. Named'
    BY <1>1, DriveLockAssumption DEF Open, Opened, Named
  <2> QED
    BY <2>1, <2>2
<1>2. CASE Lock(p)
  <2>1. TypeOK' /\ Named'
    BY <1>2 DEF Lock, Named
  <2>2. \A r \in Procs : proc[r] \in Holding => fd[r] # fd[p]
    BY <1>2 DEF Lock, Locked
  <2>3. \A q \in Probers : probe[q] = "held" => pfd[q] # fd[p]
    BY <1>2 DEF Lock, Locked
  <2> QED
    BY <1>2, <2>1, <2>2, <2>3 DEF Lock, OnePerFile
<1>3. CASE Skip(p)
  BY <1>3 DEF Skip, OnePerFile, Named
<1>4. CASE Exec(p)
  BY <1>4 DEF Exec, OnePerFile, Named
<1>5. CASE Unlink(p)
  <2>1. TypeOK' /\ OnePerFile'
    BY <1>5 DEF Unlink, RemoveName, OnePerFile
  <2>2. Named'
    BY <1>5 DEF Unlink, RemoveName, Named
  <2> QED
    BY <2>1, <2>2
<1>6. CASE Exit(p)
  BY <1>6 DEF Exit, OnePerFile, Named
<1> QED
  BY <1>1, <1>2, <1>3, <1>4, <1>5, <1>6 DEF Wrapper

(* A prober takes the lock only where nobody holds it; one that removes the *)
(* name undercuts every run that has a file open.                           *)
LEMMA ProberKeeps ==
    ASSUME LockInv, NEW q \in Probers, Prober(q)
    PROVE  LockInv'
<1> USE DEF LockInv, TypeOK, ProbePCs
<1>1. CASE ProbeOpen(q)
  <2>1. TypeOK' /\ OnePerFile'
    BY <1>1 DEF ProbeOpen, Opened, OnePerFile
  <2>2. Named'
    BY <1>1, DriveLockAssumption DEF ProbeOpen, Opened, Named
  <2> QED
    BY <2>1, <2>2
<1>2. CASE ProbeLock(q)
  <2>1. TypeOK' /\ Named'
    BY <1>2 DEF ProbeLock, Named
  <2>2. CASE Locked(pfd[q])
    BY <1>2, <2>1, <2>2 DEF ProbeLock, OnePerFile
  <2>3. CASE ~Locked(pfd[q])
    <3>1. \A p \in Procs : proc[p] \in Holding => fd[p] # pfd[q]
      BY <2>3 DEF Locked
    <3> QED
      BY <1>2, <2>1, <2>3, <3>1 DEF ProbeLock, OnePerFile
  <2> QED
    BY <2>2, <2>3
<1>3. CASE ProbeRelease(q)
  BY <1>3 DEF ProbeRelease, OnePerFile, Named
<1>4. CASE Report(q) \/ Suspect(q)
  BY <1>4 DEF Report, Suspect, OnePerFile, Named
<1>5. CASE Break(q)
  <2>1. TypeOK' /\ OnePerFile'
    BY <1>5 DEF Break, RemoveName, OnePerFile
  <2>2. Named'
    BY <1>5 DEF Break, RemoveName, Named
  <2> QED
    BY <2>1, <2>2
<1> QED
  BY <1>1, <1>2, <1>3, <1>4, <1>5 DEF Prober

LEMMA LockStep ==
    ASSUME LockInv, [Next]_vars
    PROVE  LockInv'
<1>1. CASE UNCHANGED vars
  BY <1>1 DEF vars, LockInv, TypeOK, OnePerFile, Named
<1> QED
  BY <1>1, WrapperKeeps, ProberKeeps DEF Next

(* No kill and no prober lets a second ripper in beside one whose file kept *)
(* its name: both would hold the lock of the one file the name refers to.   *)
THEOREM RippersAlone == Spec => []AloneUnlessUndercut
<1>1. LockInv /\ [Next]_vars => LockInv'
  BY LockStep
<1>2. LockInv => AloneUnlessUndercut
  BY DEF LockInv, OnePerFile, Named, AloneUnlessUndercut, Holding
<1> QED
  BY <1>1, <1>2, LockInit, PTL DEF Spec
=============================================================================
