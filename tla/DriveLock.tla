----------------------------- MODULE DriveLock -----------------------------
(***************************************************************************)
(* The lock file of one optical drive, /home/arm/.arm_<dev>.lock.           *)
(*                                                                          *)
(* docker_arm_wrapper.sh takes a flock on it and becomes main.py, which     *)
(* unlinks it on its way out (arm/ripper/main.py). rescan_drive.sh and the  *)
(* host's arm-drive-watcher.sh try the lock and unlink the file when they   *)
(* believe its holder dead; the drive diagnostic (arm/api/v1/drives.py)     *)
(* tries it only. A flock belongs to the open file, not to its name, so the *)
(* state is who has which inode open and which inode the name refers to.    *)
(***************************************************************************)
EXTENDS Naturals, FiniteSets

CONSTANTS
    Procs,    \* runs of the wrapper for this drive
    Probers,  \* runs of rescan_drive.sh, the watcher or the diagnostic
    Inodes,
    NoFile,   \* the name does not exist; a process has no file open
    Kills     \* processes may be killed

ASSUME DriveLockAssumption ==
    /\ NoFile \notin Inodes
    /\ Kills \in BOOLEAN

VARIABLES
    path,   \* the inode the name refers to
    proc,   \* where each run of the wrapper is
    fd,     \* the inode a run has open
    probe,  \* where each prober is
    pfd,    \* the inode a prober has open
    undercut  \* history: runs whose file lost its name while they had it open

vars == <<path, proc, fd, probe, pfd, undercut>>

(* `locked` is still the shell script, `main` is main.py, `ending` is       *)
(* main.py after it unlinked the file; `skipped` never got the lock.        *)
Holding   == {"locked", "main", "ending"}
ProcPCs   == Holding \cup {"off", "opened", "skipped", "gone"}
ProbePCs  == {"idle", "opened", "held", "busy", "break"}

TypeOK ==
    /\ path \in Inodes \cup {NoFile}
    /\ proc \in [Procs -> ProcPCs]
    /\ fd \in [Procs -> Inodes \cup {NoFile}]
    /\ probe \in [Probers -> ProbePCs]
    /\ pfd \in [Probers -> Inodes \cup {NoFile}]
    /\ undercut \subseteq Procs

(* The container's start removes the files of the previous one.             *)
Init ==
    /\ path = NoFile
    /\ proc = [p \in Procs |-> "off"]
    /\ fd = [p \in Procs |-> NoFile]
    /\ probe = [q \in Probers |-> "idle"]
    /\ pfd = [q \in Probers |-> NoFile]
    /\ undercut = {}

-----------------------------------------------------------------------------
InUse == {path} \cup {fd[p] : p \in Procs} \cup {pfd[q] : q \in Probers}

(* Opening the name for writing: the file behind it, or a new one. *)
Opened(i) ==
    /\ i \in Inodes
    /\ IF path = NoFile THEN i \notin InUse ELSE i = path
    /\ path' = i

(* Whoever removes the name takes it from every run that has a file open    *)
(* and is not yet done with it.                                             *)
RemoveName ==
    /\ path' = NoFile
    /\ undercut' = undercut \cup {p \in Procs : proc[p] \in {"opened", "locked", "main"}}

Locked(i) ==
    \/ \E p \in Procs : fd[p] = i /\ proc[p] \in Holding
    \/ \E q \in Probers : pfd[q] = i /\ probe[q] = "held"

-----------------------------------------------------------------------------
(* The wrapper, then main.py in the same process. *)

Open(p) ==
    /\ proc[p] = "off"
    /\ \E i \in Inodes : Opened(i) /\ fd' = [fd EXCEPT ![p] = i]
    /\ proc' = [proc EXCEPT ![p] = "opened"]
    /\ UNCHANGED <<probe, pfd, undercut>>

(* flock -n 9 *)
Lock(p) ==
    /\ proc[p] = "opened"
    /\ ~Locked(fd[p])
    /\ proc' = [proc EXCEPT ![p] = "locked"]
    /\ UNCHANGED <<path, fd, probe, pfd, undercut>>

Skip(p) ==
    /\ proc[p] = "opened"
    /\ Locked(fd[p])
    /\ proc' = [proc EXCEPT ![p] = "skipped"]
    /\ fd' = [fd EXCEPT ![p] = NoFile]
    /\ UNCHANGED <<path, probe, pfd, undercut>>

(* Faulty variant: the descriptor is closed on exec. *)
Exec_ClosesFile(p) ==
    /\ proc[p] = "locked"
    /\ proc' = [proc EXCEPT ![p] = "main"]
    /\ fd' = [fd EXCEPT ![p] = NoFile]
    /\ UNCHANGED <<path, probe, pfd, undercut>>

(* main.py inherits descriptor 9, and the lock with it. *)
Exec(p) ==
    /\ proc[p] = "locked"
    /\ proc' = [proc EXCEPT ![p] = "main"]
    /\ UNCHANGED <<path, fd, probe, pfd, undercut>>

(* The end of main.py removes the name, whatever file it refers to by now.  *)
Unlink(p) ==
    /\ proc[p] = "main"
    /\ RemoveName
    /\ proc' = [proc EXCEPT ![p] = "ending"]
    /\ UNCHANGED <<fd, probe, pfd>>

(* The process exits: after the unlink, on a phantom device, or killed.     *)
Exit(p) ==
    /\ proc[p] \in {"locked", "ending"} \/ (Kills /\ proc[p] \in Holding)
    /\ proc' = [proc EXCEPT ![p] = "gone"]
    /\ fd' = [fd EXCEPT ![p] = NoFile]
    /\ UNCHANGED <<path, probe, pfd, undercut>>

-----------------------------------------------------------------------------
(* A prober: flock -n <file> true, and if that fails, pgrep for main.py.    *)
(* (The diagnostic opens the file only if it exists; the scripts make it.)  *)

ProbeOpen(q) ==
    /\ probe[q] = "idle"
    /\ \E i \in Inodes : Opened(i) /\ pfd' = [pfd EXCEPT ![q] = i]
    /\ probe' = [probe EXCEPT ![q] = "opened"]
    /\ UNCHANGED <<proc, fd, undercut>>

ProbeLock(q) ==
    /\ probe[q] = "opened"
    /\ IF Locked(pfd[q])
         THEN probe' = [probe EXCEPT ![q] = "busy"] /\ pfd' = [pfd EXCEPT ![q] = NoFile]
         ELSE probe' = [probe EXCEPT ![q] = "held"] /\ UNCHANGED pfd
    /\ UNCHANGED <<path, proc, fd, undercut>>

ProbeRelease(q) ==
    /\ probe[q] = "held"
    /\ probe' = [probe EXCEPT ![q] = "idle"]
    /\ pfd' = [pfd EXCEPT ![q] = NoFile]
    /\ UNCHANGED <<path, proc, fd, undercut>>

(* The diagnostic stops at "held by someone"; the scripts look for main.py. *)
Report(q) ==
    /\ probe[q] = "busy"
    /\ probe' = [probe EXCEPT ![q] = "idle"]
    /\ UNCHANGED <<path, proc, fd, pfd, undercut>>

Suspect(q) ==
    /\ probe[q] = "busy"
    /\ \A p \in Procs : proc[p] \notin {"main", "ending"}
    /\ probe' = [probe EXCEPT ![q] = "break"]
    /\ UNCHANGED <<path, proc, fd, pfd, undercut>>

Break(q) ==
    /\ probe[q] = "break"
    /\ probe' = [probe EXCEPT ![q] = "idle"]
    /\ RemoveName
    /\ UNCHANGED <<proc, fd, pfd>>

-----------------------------------------------------------------------------
Wrapper(p) == Open(p) \/ Lock(p) \/ Skip(p) \/ Exec(p) \/ Unlink(p) \/ Exit(p)

Prober(q) ==
    \/ ProbeOpen(q) \/ ProbeLock(q) \/ ProbeRelease(q)
    \/ Report(q) \/ Suspect(q) \/ Break(q)

Next == (\E p \in Procs : Wrapper(p)) \/ (\E q \in Probers : Prober(q))

Spec == Init /\ [][Next]_vars

-----------------------------------------------------------------------------
(* One ripper at a time on a drive is what the wrapper's header promises.   *)
(* Removing the name lets others in (main.py's unlink at its end, the       *)
(* scripts' rm of a lock they take for stale), but only beside a run that   *)
(* had its file open at that moment: of any two rippers one has been        *)
(* undercut, however often wrappers are killed, leave a phantom device or   *)
(* find the name removed and made again, and whatever probers hold.         *)
AloneUnlessUndercut ==
    \A p, r \in Procs :
      proc[p] = "main" /\ proc[r] = "main" /\ p # r => {p, r} \cap undercut # {}
=============================================================================
