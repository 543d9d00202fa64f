------------------------------ MODULE ImportJobs ------------------------------
(***************************************************************************)
(* Imports of folders and disc images (arm/api/v1/folder.py and iso.py): a    *)
(* call creates the job and starts a thread that scans the source and leaves *)
(* the job for review; another call starts the thread that rips it. The       *)
(* threads run in the API server, have no pid, and know the job by its id:    *)
(* nobody can stop them but a restart of the container.                       *)
(*                                                                          *)
(* A call or a thread under way is where it is, and for which job or source;  *)
(* `busy` says how many are there. What happens to titles and files is in     *)
(* TrackFiles, what the transcoder does with a job in JobLifecycle.           *)
(***************************************************************************)
EXTENDS Naturals, FiniteSetsExt, Functions

CONSTANTS
    Folders, Images,   \* what can be imported
    MaxId,             \* bound: ids of rows are 1..MaxId
    MaxJobs,           \* bound: jobs created
    MaxBusy,           \* bound: calls and threads under way at once
    MaxRestarts        \* bound: restarts of the container

Sources == Folders \cup Images
Ids     == 1..MaxId

ASSUME ImportAssumption ==
    /\ Folders \cap Images = {}
    /\ {MaxId, MaxJobs, MaxBusy, MaxRestarts} \subseteq Nat

VARIABLES
    job,        \* the rows: NoRow, or a record
    disk,       \* what the folders are: a disc, something else, or gone
    busy,       \* how many calls and threads are where
    created, restarts,
    excused,    \* history: sources that two unfinished jobs may have ...
    forsaken,   \* ... jobs left as they were by a thread that could not write them ...
    twice       \* ... and jobs that a second call starts before the first has written

vars == <<job, disk, busy, created, restarts, excused, forsaken, twice>>
counters == <<created, restarts>>
history == <<excused, forsaken, twice>>

-----------------------------------------------------------------------------
NoRow    == [status |-> "no row"]
Finished == {"SUCCESS", "FAILURE"}
Waiting  == {"TRANSCODE_WAITING"}
Working  == {"IDENTIFYING", "VIDEO_RIPPING"}
Status   == Finished \cup Waiting \cup Working \cup {"MANUAL_PAUSED"}

Rows == [status : Status, source : Sources, scanned : BOOLEAN, ripped : BOOLEAN,
         reused : BOOLEAN]

HasRow(i)     == job[i] # NoRow
Unfinished(i) == HasRow(i) /\ job[i].status \notin Finished

Calls   == {"start", "cancel", "begin scan", "begin rip"}
Threads == {"scan load", "scan", "park", "rip load", "prepare", "rip", "hand off"}

Ripping == {"start", "begin rip", "rip load", "prepare", "rip", "hand off"}

Workers == Threads \cup {"begin scan", "begin rip"}

Activities == ({"create"} \X Sources) \cup ((Calls \cup Threads) \X Ids)

(* Somebody is at work for job i, or about to be. *)
Doing(i, places) == \E p \in places : busy[<<p, i>>] > 0

Room         == FoldFunction(+, 0, busy) < MaxBusy
Begin(what)  == Room /\ busy' = [busy EXCEPT ![what] = @ + 1]
End(what)    == busy[what] > 0 /\ busy' = [busy EXCEPT ![what] = @ - 1]
Move(what, to) == busy[what] > 0 /\ busy' = [busy EXCEPT ![what] = @ - 1, ![to] = @ + 1]

(* Nobody looks at the status of the row again before writing it. *)
Write(i, s) ==
    /\ job' = [job EXCEPT ![i].status = s]
    /\ excused' = IF ~Unfinished(i) /\ s \notin Finished
                    THEN excused \cup {job[i].source} ELSE excused
    /\ forsaken' = forsaken \ {i}
    /\ twice' = twice

Init ==
    /\ job = [i \in Ids |-> NoRow]
    /\ disk = [s \in Folders |-> "disc"]
    /\ busy = [a \in Activities |-> 0]
    /\ created = 0 /\ restarts = 0
    /\ excused = {} /\ forsaken = {} /\ twice = {}

(* Somebody moves a folder away, or takes its disc structure apart. *)
Touch(s) ==
    /\ disk[s] = "disc"
    /\ \E new \in {"no disc", "gone"} : disk' = [disk EXCEPT ![s] = new]
    /\ UNCHANGED <<job, busy, counters, history>>

-----------------------------------------------------------------------------
(* validate_ingress_path, validate_iso_path: there is something there; that it *)
(* is a disc, a scan may have told before, but is not asked again.             *)
Valid(s) == s \in Folders => disk[s] # "gone"

(* Faulty variant: a job left for review does not count as active. *)
Active_Working(s) ==
    \E i \in Ids : HasRow(i) /\ job[i].source = s /\ job[i].status \in Working

Active(s) == \E i \in Ids : Unfinished(i) /\ job[i].source = s

(* detect_disc_type: the folder is still there, and has a disc's structure. Of *)
(* an image nothing is known before MakeMKV reads it.                          *)
IsDisc(s) == s \in Folders => disk[s] = "disc"

(* create_folder_job, create_iso_job: two calls that have both seen no job of *)
(* the source go on, both.                                                    *)
CheckSource(s) ==
    /\ created < MaxJobs /\ created' = created + 1
    /\ Valid(s) /\ ~Active(s)
    /\ Begin(<<"create", s>>)
    /\ excused' = IF busy[<<"create", s>>] > 0 THEN excused \cup {s} ELSE excused
    /\ UNCHANGED <<job, disk, restarts, forsaken, twice>>

(* The id of a row that was the last one and has been deleted is given again. *)
NextId == Max({i \in Ids : HasRow(i)} \cup {0}) + 1

CreateJob(s) ==
    /\ \E i \in Ids :
         /\ i = NextId
         /\ Move(<<"create", s>>, <<"begin scan", i>>)
         /\ job' = [job EXCEPT ![i] =
                      [status |-> "IDENTIFYING", source |-> s, scanned |-> FALSE,
                       ripped |-> FALSE, reused |-> Doing(i, Calls \cup Threads)]]
         /\ forsaken' = forsaken \ {i} /\ twice' = twice \ {i}
    /\ UNCHANGED <<disk, counters, excused>>

BeginScan(i) ==
    /\ Move(<<"begin scan", i>>, <<"scan load", i>>)
    /\ UNCHANGED <<job, disk, counters, history>>

-----------------------------------------------------------------------------
(* prescan_and_wait. *)

(* The job is loaded by its id, and its log file's name committed. *)
LoadForScan(i) ==
    /\ HasRow(i) /\ Move(<<"scan load", i>>, <<"scan", i>>)
    /\ UNCHANGED <<job, disk, counters, history>>

(* prep_mkv and prescan_track_info, which may fail at any point. *)
Scan(i) ==
    /\ HasRow(i) /\ Move(<<"scan", i>>, <<"park", i>>)
    /\ \E found \in {FALSE, IsDisc(job[i].source)} :
         job' = [job EXCEPT ![i].scanned = @ \/ found]
    /\ UNCHANGED <<disk, counters, history>>

(* The job is left for review, with an error if the scan has failed. *)
Park(i) ==
    /\ HasRow(i) /\ End(<<"park", i>>)
    /\ Write(i, "MANUAL_PAUSED")
    /\ UNCHANGED <<disk, counters>>

-----------------------------------------------------------------------------
(* start_waiting_job and cancel_waiting_job of an import: the status they ask *)
(* for may have changed when they write theirs.                               *)

Ask(i, call) ==
    /\ HasRow(i) /\ job[i].status = "MANUAL_PAUSED"
    /\ Begin(<<call, i>>)
    /\ twice' = IF call = "start" /\ busy[<<call, i>>] > 0 THEN twice \cup {i} ELSE twice
    /\ UNCHANGED <<job, disk, counters, excused, forsaken>>

(* Faulty variant: the job waits for review until its thread has begun. *)
StartJob_Unwritten(i) ==
    /\ HasRow(i) /\ Move(<<"start", i>>, <<"begin rip", i>>)
    /\ UNCHANGED <<job, disk, counters, history>>

StartJob(i) ==
    /\ HasRow(i) /\ Move(<<"start", i>>, <<"begin rip", i>>)
    /\ Write(i, "VIDEO_RIPPING")
    /\ UNCHANGED <<disk, counters>>

BeginRip(i) ==
    /\ Move(<<"begin rip", i>>, <<"rip load", i>>)
    /\ UNCHANGED <<job, disk, counters, history>>

CancelJob(i) ==
    /\ HasRow(i) /\ End(<<"cancel", i>>)
    /\ Write(i, "FAILURE")
    /\ UNCHANGED <<disk, counters>>

(* abandon_job: there is no pid to terminate, and the threads go on. *)
AbandonJob(i) ==
    /\ HasRow(i) /\ Write(i, "FAILURE")
    /\ UNCHANGED <<disk, busy, counters>>

(* delete_job; the threads go on. *)
DeleteJob(i) ==
    /\ HasRow(i) /\ job' = [job EXCEPT ![i] = NoRow]
    /\ UNCHANGED <<disk, busy, counters, history>>

(* A call or thread that finds no row of its job, or whose write of the row  *)
(* finds none, ends with an error in the log.                                *)
RowGone(i) ==
    /\ ~HasRow(i)
    /\ \E p \in Threads \cup {"start", "cancel"} : End(<<p, i>>)
    /\ UNCHANGED <<job, disk, counters, history>>

(* No thread can be started when a call has saved the job, or the thread ends  *)
(* because the database refuses it: what loads the job for a scan, leaves it   *)
(* for review or fails it. Its row stays as it is.                            *)
Forsake(i) ==
    /\ HasRow(i)
    /\ \E p \in Workers \ {"scan"} : End(<<p, i>>)
    /\ forsaken' = forsaken \cup {i}
    /\ UNCHANGED <<job, disk, counters, excused, twice>>

-----------------------------------------------------------------------------
(* rip_folder, rip_iso and kick_off_import_rip. *)

LoadForRip(i) ==
    /\ HasRow(i) /\ Move(<<"rip load", i>>, <<"prepare", i>>)
    /\ IsDisc(job[i].source)
    /\ UNCHANGED <<job, disk, counters, history>>

(* A folder that is gone, or no disc any more, fails before the pipeline; what *)
(* raises in it - no key, no directory, no titles, MakeMKV's error, the         *)
(* hand-off - fails it there.                                                  *)
RipFails(i) ==
    /\ HasRow(i)
    /\ \/ ~IsDisc(job[i].source) /\ End(<<"rip load", i>>)
       \/ \E p \in {"prepare", "rip", "hand off"} : End(<<p, i>>)
    /\ Write(i, "FAILURE")
    /\ UNCHANGED <<disk, counters>>

Prepare(i) ==
    /\ HasRow(i) /\ Move(<<"prepare", i>>, <<"rip", i>>)
    /\ Write(i, "VIDEO_RIPPING")
    /\ UNCHANGED <<disk, counters>>

(* Faulty variant: an error while ripping is logged, and the pipeline goes on. *)
Rip_Swallows(i) ==
    /\ HasRow(i) /\ Move(<<"rip", i>>, <<"hand off", i>>)
    /\ \E all \in BOOLEAN : job' = [job EXCEPT ![i].scanned = TRUE, ![i].ripped = @ \/ all]
    /\ UNCHANGED <<disk, counters, history>>

(* The source is scanned if the review has left no rows, and ripped. *)
Rip(i) ==
    /\ HasRow(i) /\ IsDisc(job[i].source) /\ Move(<<"rip", i>>, <<"hand off", i>>)
    /\ job' = [job EXCEPT ![i].scanned = TRUE, ![i].ripped = TRUE]
    /\ UNCHANGED <<disk, counters, history>>

(* _post_rip_handoff: finalized here, taken by the transcoder, or refused. *)
HandOff(i) ==
    /\ HasRow(i) /\ End(<<"hand off", i>>)
    /\ \E s \in {"SUCCESS", "TRANSCODE_WAITING", "FAILURE"} : Write(i, s)
    /\ UNCHANGED <<disk, counters>>

(* The transcoder's callback, for a job it has. *)
Transcoded(i) ==
    /\ HasRow(i) /\ job[i].status \in Waiting
    /\ \E s \in Finished : Write(i, s)
    /\ UNCHANGED <<disk, busy, counters>>

-----------------------------------------------------------------------------
(* Faulty variant: only the jobs of dead processes are failed. *)
Orphans_PidOnly == {}

(* cleanup_orphaned_jobs: clean_old_jobs skips jobs without a pid; the second  *)
(* pass takes whatever is neither finished nor the transcoder's.               *)
Orphans == {i \in Ids : Unfinished(i) /\ job[i].status \notin Waiting}

Restart ==
    /\ restarts < MaxRestarts /\ restarts' = restarts + 1
    /\ busy' = [a \in Activities |-> 0]
    /\ job' = [i \in Ids |-> IF i \in Orphans THEN [job[i] EXCEPT !.status = "FAILURE"]
                                              ELSE job[i]]
    /\ forsaken' = {} /\ twice' = {}
    /\ UNCHANGED <<disk, created, excused>>

User ==
    \/ \E s \in Folders : Touch(s)
    \/ \E s \in Sources : CheckSource(s)
    \/ \E i \in Ids, call \in {"start", "cancel"} : Ask(i, call)
    \/ \E i \in Ids : AbandonJob(i)
    \/ \E i \in Ids : DeleteJob(i)

Server ==
    \/ \E s \in Sources : CreateJob(s)
    \/ \E i \in Ids : BeginScan(i)
    \/ \E i \in Ids : BeginRip(i)
    \/ \E i \in Ids : StartJob(i)
    \/ \E i \in Ids : CancelJob(i)
    \/ \E i \in Ids : RowGone(i)
    \/ \E i \in Ids : Forsake(i)

Thread ==
    \/ \E i \in Ids : LoadForScan(i)
    \/ \E i \in Ids : Scan(i)
    \/ \E i \in Ids : Park(i)
    \/ \E i \in Ids : LoadForRip(i)
    \/ \E i \in Ids : RipFails(i)
    \/ \E i \in Ids : Prepare(i)
    \/ \E i \in Ids : Rip(i)
    \/ \E i \in Ids : HandOff(i)

Next == User \/ Server \/ Thread \/ Restart \/ \E i \in Ids : Transcoded(i)

Spec == Init /\ [][Next]_vars

-----------------------------------------------------------------------------
TypeOK ==
    /\ disk \in [Folders -> {"disc", "no disc", "gone"}]
    /\ job \in [Ids -> Rows \cup {NoRow}]
    /\ busy \in [Activities -> Nat]
    /\ forsaken \subseteq Ids /\ twice \subseteq Ids

(* A job that is being scanned or ripped by its status is by a thread, or is  *)
(* about to be: none is left so by calls that race, by a thread whose scan or  *)
(* rip fails, or by a restart, but only by a thread that could not be started *)
(* or not write the job, and of these none survives a restart                 *)
(* (import_prescan.py 45-117, job_cleanup.py 36-50).                          *)
Attended ==
    \A i \in Ids : HasRow(i) /\ job[i].status \in Working =>
        Doing(i, Workers) \/ i \in forsaken

(* A job is ripped, or about to be, by one thread at a time: it is not started *)
(* again while a rip goes on, whatever is cancelled, abandoned, parked or has  *)
(* failed meanwhile; unless two calls both saw it wait, or a thread of a       *)
(* deleted job has got its id (api/v1/jobs.py 350-367).                       *)
RippedOnce ==
    \A i \in Ids : HasRow(i) /\ ~job[i].reused /\ i \notin twice =>
        \A p, q \in Ripping : busy[<<p, i>>] > 0 /\ busy[<<q, i>>] > 0 =>
            p = q /\ busy[<<p, i>>] = 1

(* A source has one unfinished job, unless two calls for it overlapped, or a *)
(* call or thread has overwritten a job's verdict (folder.py 115-123).        *)
OnePerSource ==
    \A i, k \in Ids :
        Unfinished(i) /\ Unfinished(k) /\ i # k /\ job[i].source = job[k].source
            => job[i].source \in excused

(* A job that succeeded, or waits for the transcoder, was ripped; its row may *)
(* only say so wrongly if a thread of a deleted job has got its id            *)
(* (folder_ripper.py 193-313, arm_ripper.py 52-105).                           *)
RippedFirst ==
    \A i \in Ids : HasRow(i) /\ job[i].status \in {"SUCCESS", "TRANSCODE_WAITING"} =>
        job[i].ripped \/ job[i].reused
=============================================================================
