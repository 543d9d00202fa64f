------------------------------ MODULE JobTable ------------------------------
(***************************************************************************)
(* The two tables every part of ARM meets in, and what the code does to    *)
(* them: the `job` row of a disc (arm/models/job.py) and the two job        *)
(* references of a `system_drives` row (arm/models/system_drives.py).       *)
(*                                                                          *)
(* There is no lock around a row. A session loads it, decides, and commits  *)
(* the columns it assigned; whatever another session committed to the same  *)
(* columns in between is overwritten. Actions that decide on an earlier     *)
(* read are therefore split at the read in the modules that use this one.   *)
(***************************************************************************)
EXTENDS Naturals, FiniteSets

CONSTANTS
    Jobs,      \* job ids: one per run of the ripper for a disc
    Drives,    \* optical drives, by the mount the ripper looks them up with
    NoJob,     \* NULL in system_drives.job_id_current / job_id_previous
    AutoEject  \* AUTO_EJECT of arm.yaml

ASSUME JobTableAssumption ==
    /\ NoJob \notin Jobs
    /\ AutoEject \in BOOLEAN

VARIABLES
    status,       \* job.status, or NoRow while the table has no such row
    manualStart,  \* job.manual_start: the user pressed "start"
    ejected,      \* job.ejected
    cur,          \* system_drives.job_id_current
    prev          \* system_drives.job_id_previous

jobVars   == <<status, manualStart, ejected>>
driveVars == <<cur, prev>>

-----------------------------------------------------------------------------
NoRow == "no row"

Finished    == {"SUCCESS", "FAILURE"}
Transcoding == {"TRANSCODE_ACTIVE", "TRANSCODE_WAITING"}
Ripping     == {"AUDIO_RIPPING", "VIDEO_RIPPING", "MANUAL_PAUSED",
                "MAKEMKV_THROTTLED", "VIDEO_INFO", "COPYING", "EJECTING"}
Scanning    == {"IDENTIFYING"}
JobState    == Finished \cup Transcoding \cup Ripping \cup Scanning \cup {"IDLE"}

HasRow(j) == status[j] # NoRow

TablesTypeOK ==
    /\ status \in [Jobs -> JobState \cup {NoRow}]
    /\ manualStart \in [Jobs -> BOOLEAN]
    /\ ejected \in [Jobs -> BOOLEAN]
    /\ cur \in [Drives -> Jobs \cup {NoJob}]
    /\ prev \in [Drives -> Jobs \cup {NoJob}]

TablesInit ==
    /\ status = [j \in Jobs |-> NoRow]
    /\ manualStart = [j \in Jobs |-> FALSE]
    /\ ejected = [j \in Jobs |-> FALSE]
    /\ cur = [d \in Drives |-> NoJob]
    /\ prev = [d \in Drives |-> NoJob]

-----------------------------------------------------------------------------
(* Writing one status, in a commit of its own. *)
SetStatus(j, s) == status' = [status EXCEPT ![j] = s]

(* A reference to a deleted row loads as None, so it does not count. *)
Processing(d) == cur[d] # NoJob /\ HasRow(cur[d])

(* job.drive is the row whose job_id_current is the job. *)
HoldsDrive(j) == \E d \in Drives : cur[d] = j

(* job.drive.release_current_job() *)
ReleaseDriveOf(j) ==
    /\ cur'  = [d \in Drives |-> IF cur[d] = j THEN NoJob ELSE cur[d]]
    /\ prev' = [d \in Drives |-> IF cur[d] = j THEN j ELSE prev[d]]

(* drive.new_job(j): release whatever is there, then take the drive. *)
NewJob(d, j) ==
    /\ cur'  = [cur EXCEPT ![d] = j]
    /\ prev' = [prev EXCEPT ![d] = IF cur[d] = NoJob THEN @ ELSE cur[d]]

(* Faulty variant: no AUTO_EJECT, no release. *)
EjectJob_KeepsDrive(j) ==
    IF ejected[j] \/ ~HoldsDrive(j) \/ ~AutoEject
      THEN UNCHANGED <<cur, prev, ejected>>
      ELSE ReleaseDriveOf(j) /\ ejected' = [ejected EXCEPT ![j] = TRUE]

(* Job.eject(): once per job, and only while the job still has its drive.   *)
(* Without AUTO_EJECT the drive is released and `ejected` stays false.      *)
EjectJob(j) ==
    IF ejected[j] \/ ~HoldsDrive(j)
      THEN UNCHANGED <<cur, prev, ejected>>
      ELSE ReleaseDriveOf(j) /\ ejected' = [ejected EXCEPT ![j] = AutoEject]
=============================================================================
