---------------------------- MODULE JobLifecycle ----------------------------
(***************************************************************************)
(* The life of a disc job: the ripper process udev starts for a disc        *)
(* (arm/ripper/main.py), the API calls users make on its row                *)
(* (arm/api/v1/jobs.py, arm/services/jobs.py), the external transcoder and  *)
(* its callbacks, the sweeps that fail the jobs of dead rippers, and the    *)
(* death of a ripper or of the whole container at any step.                 *)
(*                                                                          *)
(* A ripper's step is what lies between two of its commits. A step that     *)
(* acts on an earlier read is split at the read.                            *)
(*                                                                          *)
(* Abstractions: durations (a timeout may elapse at any moment), the        *)
(* content of the disc (any disc type may turn out), what a rip produces,   *)
(* and the wording of errors and notifications. The flock of the wrapper    *)
(* script is taken as exclusive here; DriveLock models it in detail.        *)
(***************************************************************************)
EXTENDS JobTable

CONSTANTS
    NoDrive,  \* the drive of a ripper that has not started
    Workers,  \* API threads, each serving one call at a time
    Calls,    \* the calls that users make: a subset of AllCalls
    Faults    \* processes may die and commits may fail

VARIABLES
    pc,      \* where each ripper is
    on,      \* the drive a ripper was started for
    final,   \* final_status of main.py's `finally`
    todo,    \* clean_old_jobs: rows it loaded and has not handled
    victim,  \* clean_old_jobs: the job it failed and has yet to release
    sig,     \* SIGTERM: "none"; "sent"; "due" once the current commit is over
    unsaid,  \* history: rippers that ended, or are ending, without having
             \* written their FAILURE
    tx,      \* the transcoder's view of a job
    mail,    \* the callback of a job that is on its way to the API
    api      \* what each API thread is doing

ripVars  == <<pc, on, final, todo, victim, sig, unsaid>>
txVars   == <<tx, mail>>
vars     == <<jobVars, driveVars, ripVars, txVars, api>>

-----------------------------------------------------------------------------
(* `off` no process; `done` ended through main.py's last commit; `dead`      *)
(* ended anywhere else.                                                      *)
Setup  == {"setup", "adopt"}
Body   == {"assign", "sweep", "sweeping", "sweepRelease", "identify", "ready",
           "waiting", "started", "expired", "rip", "makemkv", "info", "scan",
           "scanned", "unwind", "titles", "manual", "ripping", "ripped",
           "handoff", "posted", "rejected", "audio", "audioBad", "audioDone",
           "handed", "failing"}
Ending == {"exit", "eject", "close"}
PCs    == Setup \cup Body \cup Ending \cup {"off", "done", "dead"}

AllCalls == {"start", "cancel", "skip", "abandon", "delete", "force", "eject"}
Callback == {"transcoding", "completed", "failed"}
Idle     == [call |-> "idle"]
Request  == [call : {"start", "cancel", "skip", "abandon", "delete"}, job : Jobs]
                \cup [call : {"eject"}, drive : Drives] \cup {Idle}

ASSUME JobLifecycleAssumption ==
    /\ NoDrive \notin Drives
    /\ Calls \subseteq AllCalls
    /\ Faults \in BOOLEAN

Alive(j)  == pc[j] \notin {"off", "done", "dead"}

(* The wrapper's flock on the drive: held by the process until it exits. *)
LockFree(d) == \A j \in Jobs : Alive(j) => on[j] # d

TypeOK ==
    /\ TablesTypeOK
    /\ pc \in [Jobs -> PCs]
    /\ on \in [Jobs -> Drives \cup {NoDrive}]
    /\ final \in [Jobs -> JobState]
    /\ todo \in [Jobs -> SUBSET Jobs]
    /\ victim \in [Jobs -> Jobs \cup {NoJob}]
    /\ sig \in [Jobs -> {"none", "sent", "due"}]
    /\ unsaid \subseteq Jobs
    /\ tx \in [Jobs -> {"idle", "queued", "active", "done"}]
    /\ mail \in [Jobs -> Callback \cup {"none"}]
    /\ api \in [Workers -> Request]

Init ==
    /\ TablesInit
    /\ pc = [j \in Jobs |-> "off"]
    /\ on = [j \in Jobs |-> NoDrive]
    /\ final = [j \in Jobs |-> "IDLE"]
    /\ todo = [j \in Jobs |-> {}]
    /\ victim = [j \in Jobs |-> NoJob]
    /\ sig = [j \in Jobs |-> "none"]
    /\ unsaid = {}
    /\ tx = [j \in Jobs |-> "idle"]
    /\ mail = [j \in Jobs |-> "none"]
    /\ api = [w \in Workers |-> Idle]

-----------------------------------------------------------------------------
(* One step of the ripper of j. SIGTERM raises RipperException between two  *)
(* bytecodes: a commit already waiting in SQLite completes, nothing else.   *)
Move(j, from, to) ==
    /\ pc[j] = from
    /\ sig[j] # "due"
    /\ pc' = [pc EXCEPT ![j] = to]
    /\ sig' = [sig EXCEPT ![j] = IF @ = "sent" THEN "due" ELSE @]

OnlyMoves == UNCHANGED <<on, final, todo, victim, unsaid>>

(* A step that commits one status and nothing else. *)
Commit(j, from, to, s) ==
    /\ Move(j, from, to)
    /\ HasRow(j)
    /\ SetStatus(j, s)
    /\ OnlyMoves
    /\ UNCHANGED <<manualStart, ejected, driveVars, txVars, api>>

(* A step that commits nothing. *)
Silent(j, from, to) ==
    /\ Move(j, from, to)
    /\ OnlyMoves
    /\ UNCHANGED <<jobVars, driveVars, txVars, api>>

(* The process ends: its local state is gone, and the drive's lock is free. *)
Exit(j, to) ==
    /\ pc' = [pc EXCEPT ![j] = to]
    /\ on' = [on EXCEPT ![j] = NoDrive]
    /\ final' = [final EXCEPT ![j] = "IDLE"]
    /\ todo' = [todo EXCEPT ![j] = {}]
    /\ victim' = [victim EXCEPT ![j] = NoJob]
    /\ sig' = [sig EXCEPT ![j] = "none"]
    /\ unsaid' = IF to = "done" THEN unsaid ELSE unsaid \ {j}

(* The process ends without a trace in the database. *)
Vanish(j, to) ==
    /\ Exit(j, to)
    /\ UNCHANGED <<jobVars, driveVars, txVars, api>>

-----------------------------------------------------------------------------
(* setup()                                                                  *)

(* Faulty variant: the wrapper without its flock. *)
Start_NoLock(j, d) ==
    /\ pc[j] = "off"
    /\ pc' = [pc EXCEPT ![j] = "setup"]
    /\ on' = [on EXCEPT ![j] = d]
    /\ UNCHANGED <<jobVars, driveVars, final, todo, victim, sig, unsaid, txVars, api>>

(* udev (or a rescan) runs the wrapper, which gets the drive's lock. A run  *)
(* that finds the lock taken exits without a trace.                         *)
Start(j, d) ==
    /\ pc[j] = "off"
    /\ LockFree(d)
    /\ pc' = [pc EXCEPT ![j] = "setup"]
    /\ on' = [on EXCEPT ![j] = d]
    /\ UNCHANGED <<jobVars, driveVars, final, todo, victim, sig, unsaid, txVars, api>>

(* No database or drive record to work with, no disc, or a drive that never *)
(* got ready.                                                               *)
NotReady(j) == pc[j] = "setup" /\ Vanish(j, "off")

(* duplicate_run_check raises: the Job object was never added to the        *)
(* session, so the ending of main.py writes nothing.                        *)
Refuse(j) ==
    /\ pc[j] = "setup"
    /\ \/ Processing(on[j])
       \/ LET p == prev[on[j]] IN p # NoJob /\ HasRow(p) /\ pc[p] = "done"
    /\ Vanish(j, "off")

(* Faulty variant: no look at the drive's current job. *)
Accept_NoCheck(j) == Silent(j, "setup", "adopt")

(* duplicate_run_check passes: no job on the drive, grace period over. *)
Accept(j) ==
    /\ Silent(j, "setup", "adopt")
    /\ ~Processing(on[j])

(* The row exists from here on. *)
Adopt(j) ==
    /\ Move(j, "adopt", "assign")
    /\ SetStatus(j, "IDENTIFYING")
    /\ OnlyMoves
    /\ UNCHANGED <<manualStart, ejected, driveVars, txVars, api>>

(* update_drive_job; the config row follows. *)
Assign(j) ==
    /\ Move(j, "assign", "sweep")
    /\ HasRow(j)
    /\ NewJob(on[j], j)
    /\ OnlyMoves
    /\ UNCHANGED <<jobVars, txVars, api>>

(* update_drive_job logs a failed commit and carries on without a drive. *)
AssignLost(j) ==
    /\ Faults
    /\ Silent(j, "assign", "sweep")

(* clean_old_jobs loads every row in a state a ripper owns ... *)
SweepLoad(j) ==
    /\ Move(j, "sweep", "sweeping")
    /\ HasRow(j)
    /\ todo' = [todo EXCEPT ![j] =
                  {k \in Jobs : HasRow(k) /\ status[k] \notin Finished \cup Transcoding}]
    /\ UNCHANGED <<on, final, victim, unsaid, jobVars, driveVars, txVars, api>>

(* ... and asks of each whether its pid exists now. A dead ripper's pid may *)
(* belong to another process by then.                                       *)
SweepKeep(j, k) ==
    /\ Move(j, "sweeping", "sweeping")
    /\ k \in todo[j]
    /\ Alive(k) \/ Faults
    /\ todo' = [todo EXCEPT ![j] = @ \ {k}]
    /\ UNCHANGED <<on, final, victim, unsaid, jobVars, driveVars, txVars, api>>

SweepFail(j, k) ==
    /\ Move(j, "sweeping", "sweepRelease")
    /\ k \in todo[j]
    /\ ~Alive(k)
    /\ HasRow(k)
    /\ SetStatus(k, "FAILURE")
    /\ todo' = [todo EXCEPT ![j] = @ \ {k}]
    /\ victim' = [victim EXCEPT ![j] = k]
    /\ UNCHANGED <<on, final, unsaid, manualStart, ejected, driveVars, txVars, api>>

(* A row deleted since it was loaded makes the update raise. *)
SweepRaises(j, k) ==
    /\ Move(j, "sweeping", "failing")
    /\ k \in todo[j]
    /\ ~HasRow(k)
    /\ todo' = [todo EXCEPT ![j] = {}]
    /\ UNCHANGED <<on, final, victim, unsaid, jobVars, driveVars, txVars, api>>

SweepRelease(j) ==
    /\ Move(j, "sweepRelease", "sweeping")
    /\ ReleaseDriveOf(victim[j])
    /\ victim' = [victim EXCEPT ![j] = NoJob]
    /\ UNCHANGED <<on, final, todo, unsaid, jobVars, txVars, api>>

SweepEnd(j) ==
    /\ todo[j] = {}
    /\ Silent(j, "sweeping", "identify")

-----------------------------------------------------------------------------
(* main() up to the rip: identification and prescan commit no status, then  *)
(* the job waits for the user if MANUAL_WAIT or the global pause says so.   *)

Identify(j) == Commit(j, "identify", "ready", "IDLE")
NoWait(j)   == Silent(j, "ready", "rip")
Wait(j)     == Commit(j, "ready", "waiting", "MANUAL_PAUSED")

(* One round of _poll_manual_wait: refresh the row, then decide. *)
PollCancelled(j) ==
    /\ HasRow(j) /\ status[j] # "MANUAL_PAUSED"
    /\ Silent(j, "waiting", "failing")

PollStarted(j) ==
    /\ status[j] = "MANUAL_PAUSED" /\ manualStart[j]
    /\ Silent(j, "waiting", "started")

(* The title was overridden: a commit, so the row is loaded again before    *)
(* Resume writes it.                                                        *)
PollOverride(j) ==
    /\ status[j] = "MANUAL_PAUSED" /\ ~manualStart[j]
    /\ Silent(j, "waiting", "started")

PollExpired(j) ==
    /\ status[j] = "MANUAL_PAUSED" /\ ~manualStart[j]
    /\ Silent(j, "waiting", "expired")

(* check_for_wait after the poll: the status is not looked at again.        *)
(* SQLAlchemy writes changed columns only, so a manual_start that was false *)
(* when the wait expired is not written.                                    *)
Resume(j) ==
    /\ \/ Move(j, "started", "rip") /\ manualStart' = [manualStart EXCEPT ![j] = FALSE]
       \/ Move(j, "expired", "rip") /\ UNCHANGED manualStart
    /\ HasRow(j)
    /\ SetStatus(j, "IDLE")
    /\ OnlyMoves
    /\ UNCHANGED <<ejected, driveVars, txVars, api>>

-----------------------------------------------------------------------------
(* The rip, by disc type. *)

RipVideo(j) == Commit(j, "rip", "makemkv", "VIDEO_RIPPING")
RipMusic(j) == Commit(j, "rip", "audio", "AUDIO_RIPPING")

(* rip_data: success leaves the status as it is. *)
RipData(j)       == HasRow(j) /\ Silent(j, "rip", "handed")
RipDataFailed(j) == Commit(j, "rip", "handed", "FAILURE")

AudioFailed(j) == Commit(j, "audio", "audioBad", "FAILURE")
AudioBad(j)    == Commit(j, "audioBad", "handed", "FAILURE")
AudioDone(j)   == Commit(j, "audio", "audioDone", "IDLE")
AudioGood(j)   == Commit(j, "audioDone", "handed", "SUCCESS")

(* makemkv_info: throttle, scan, throttle, and back to ripping; the last    *)
(* two run in a `finally`, so also when the scan raises. Skipped when the   *)
(* disc number and the tracks are known already. (The scan for the number   *)
(* and the one for the tracks are taken together.)                          *)
NoScan(j)     == HoldsDrive(j) /\ Silent(j, "makemkv", "titles")
Throttle(j)   == Commit(j, "makemkv", "info", "MAKEMKV_THROTTLED")
Scan(j)       == Commit(j, "info", "scan", "VIDEO_INFO")
Scanned(j)    == Commit(j, "scan", "scanned", "MAKEMKV_THROTTLED")
ScanFailed(j) == Commit(j, "scan", "unwind", "MAKEMKV_THROTTLED")
Unthrottle(j) == Commit(j, "scanned", "titles", "VIDEO_RIPPING")
Unwind(j)     == Commit(j, "unwind", "failing", "VIDEO_RIPPING")

(* The job must still have its drive. In manual drive mode the user is      *)
(* asked for the titles first: manual_wait looks at manual_start only.      *)
DriveGone(j)   == ~HoldsDrive(j) /\ Silent(j, "titles", "failing")
AutoRip(j)     == HoldsDrive(j) /\ Silent(j, "titles", "ripping")
AskUser(j)     == HoldsDrive(j) /\ Commit(j, "titles", "manual", "MANUAL_PAUSED")
UserReady(j)   == manualStart[j] /\ Commit(j, "manual", "ripping", "VIDEO_RIPPING")
UserTimeout(j) == ~manualStart[j] /\ Silent(j, "manual", "failing")

(* All titles are on disk: eject, reconcile the file names, save raw_path. *)
RipDone(j) ==
    /\ Move(j, "ripping", "ripped")
    /\ HasRow(j)
    /\ EjectJob(j)
    /\ OnlyMoves
    /\ UNCHANGED <<status, manualStart, txVars, api>>

-----------------------------------------------------------------------------
(* rip_visual_media after the rip, and _post_rip_handoff. *)

EmptyRip(j)     == Commit(j, "ripped", "handed", "FAILURE")
HandoffLocal(j) == Commit(j, "ripped", "handed", "SUCCESS")
HandoffCopy(j)  == Commit(j, "ripped", "handoff", "COPYING")
HandoffInPlace(j) == Silent(j, "ripped", "handoff")

(* The webhook: accepted; refused or unreachable; accepted with the answer  *)
(* lost, which the ripper cannot tell from unreachable.                     *)
Webhook(j, reaches, to) ==
    /\ Move(j, "handoff", to)
    /\ HasRow(j)
    /\ tx' = [tx EXCEPT ![j] = IF reaches THEN "queued" ELSE @]
    /\ OnlyMoves
    /\ UNCHANGED <<jobVars, driveVars, mail, api>>

WebhookAccepted(j) == Webhook(j, TRUE, "posted")
WebhookFailed(j)   == Webhook(j, FALSE, "rejected")
WebhookUnheard(j)  == Faults /\ Webhook(j, TRUE, "rejected")

(* Faulty variant: waiting for the transcoder, whatever the webhook said. *)
Rejected_Waits(j) == Commit(j, "rejected", "handed", "TRANSCODE_WAITING")

Posted(j)   == Commit(j, "posted", "handed", "TRANSCODE_WAITING")
Rejected(j) == Commit(j, "rejected", "handed", "FAILURE")

-----------------------------------------------------------------------------
(* The end of main.py. *)

(* Any exception of the body. A scan unwinds through its own `finally`.     *)
Raise(j) ==
    /\ Faults
    /\ \E from \in Body \ {"scan", "unwind", "failing"} :
         Silent(j, from, "failing")

(* FAILURE is assigned and waits for the commit of publish_event. When that *)
(* commit fails the session is rolled back, and the exception is logged:    *)
(* `finally` finds the status the body left.                                *)
Failing(j) == Commit(j, "failing", "exit", "FAILURE")

FailingLost(j) ==
    /\ Faults
    /\ Move(j, "failing", "exit")
    /\ unsaid' = unsaid \cup {j}
    /\ UNCHANGED <<on, final, todo, victim, jobVars, driveVars, txVars, api>>

MainEnds(j) ==
    /\ Move(j, "handed", "exit")
    /\ HasRow(j)
    /\ OnlyMoves
    /\ UNCHANGED <<jobVars, driveVars, txVars, api>>

(* final_status = job.status, then EJECTING in a commit of its own, then    *)
(* final_status again, with the release of the drive.                       *)
ReadFinal(j) ==
    /\ Move(j, "exit", "eject")
    /\ HasRow(j)
    /\ final' = [final EXCEPT ![j] = status[j]]
    /\ UNCHANGED <<on, todo, victim, unsaid, jobVars, driveVars, txVars, api>>

Ejecting(j) == Commit(j, "eject", "close", "EJECTING")

(* Faulty variants: the ending without job.eject(), and without writing the *)
(* saved status back.                                                       *)
Close_NoEject(j) ==
    /\ pc[j] = "close"
    /\ sig[j] # "due"
    /\ HasRow(j)
    /\ SetStatus(j, final[j])
    /\ Exit(j, "done")
    /\ UNCHANGED <<manualStart, ejected, driveVars, txVars, api>>

Close_NoRestore(j) ==
    /\ pc[j] = "close"
    /\ sig[j] # "due"
    /\ HasRow(j)
    /\ EjectJob(j)
    /\ Exit(j, "done")
    /\ UNCHANGED <<status, manualStart, txVars, api>>

Close(j) ==
    /\ pc[j] = "close"
    /\ sig[j] # "due"
    /\ HasRow(j)
    /\ EjectJob(j)
    /\ SetStatus(j, final[j])
    /\ Exit(j, "done")
    /\ UNCHANGED <<manualStart, txVars, api>>

(* SIGTERM raises in the ripper: the body fails, unless one of the broad     *)
(* `except Exception` of setup, identify, the prescan or the webhook takes  *)
(* it for a fault of its own; a scan unwinds through its `finally`; the     *)
(* error path goes straight to the ending; the ending itself is cut short.  *)
Lands(p, to) ==
    \/ p \in {"assign", "sweep", "identify", "ready"} /\ to = p
    \/ p = "handoff" /\ to = "rejected"
    \/ p \in {"scan", "unwind"} /\ to = "unwind"
    \/ p = "failing" /\ to \in {"failing", "exit"}
    \/ p \in Body \ {"scan", "unwind", "failing"} /\ to = "failing"

Interrupted(j) ==
    /\ sig[j] # "none"
    /\ \E to \in Body \cup {"exit"} :
         /\ Lands(pc[j], to)
         /\ pc' = [pc EXCEPT ![j] = to]
         /\ unsaid' = IF to = "exit" THEN unsaid \cup {j} ELSE unsaid
    /\ sig' = [sig EXCEPT ![j] = "none"]
    /\ todo' = [todo EXCEPT ![j] = {}]
    /\ victim' = [victim EXCEPT ![j] = NoJob]
    /\ UNCHANGED <<on, final, jobVars, driveVars, txVars, api>>

CutShort(j) ==
    /\ sig[j] # "none"
    /\ pc[j] \in Ending
    /\ Vanish(j, "dead")

(* The row was deleted: the next access raises, and so does every write of  *)
(* the ending.                                                              *)
RowGone(j) ==
    /\ pc[j] \in Body \cup Ending
    /\ ~HasRow(j)
    /\ Vanish(j, "dead")

(* A run that had no row yet leaves nothing: the disc may be tried again. *)
Remains(j) == IF pc[j] \in Setup THEN "off" ELSE IF Alive(j) THEN "dead" ELSE pc[j]

(* SIGKILL, or an exception inside main.py's `finally`. *)
Die(j) ==
    /\ Faults
    /\ Alive(j)
    /\ Vanish(j, Remains(j))

Sweep(j) ==
    \/ SweepLoad(j) \/ SweepRelease(j) \/ SweepEnd(j)
    \/ \E k \in Jobs : SweepKeep(j, k) \/ SweepFail(j, k) \/ SweepRaises(j, k)

Prepare(j) ==
    \/ NotReady(j) \/ Refuse(j) \/ Accept(j) \/ Adopt(j)
    \/ Assign(j) \/ AssignLost(j) \/ Sweep(j)
    \/ Identify(j) \/ NoWait(j) \/ Wait(j)
    \/ PollCancelled(j) \/ PollStarted(j) \/ Resume(j)

Rip(j) ==
    \/ RipVideo(j) \/ RipMusic(j) \/ RipData(j) \/ RipDataFailed(j)
    \/ AudioFailed(j) \/ AudioBad(j) \/ AudioDone(j) \/ AudioGood(j)
    \/ NoScan(j) \/ Throttle(j) \/ Scan(j) \/ Scanned(j) \/ ScanFailed(j)
    \/ Unthrottle(j) \/ Unwind(j) \/ DriveGone(j) \/ AutoRip(j)
    \/ AskUser(j) \/ UserReady(j) \/ UserTimeout(j) \/ RipDone(j)

Handoff(j) ==
    \/ EmptyRip(j) \/ HandoffLocal(j) \/ HandoffCopy(j) \/ HandoffInPlace(j)
    \/ WebhookAccepted(j) \/ WebhookFailed(j) \/ WebhookUnheard(j)
    \/ Posted(j) \/ Rejected(j)

Leave(j) ==
    \/ Failing(j) \/ FailingLost(j) \/ MainEnds(j)
    \/ ReadFinal(j) \/ Ejecting(j) \/ Close(j)
    \/ Interrupted(j) \/ CutShort(j) \/ RowGone(j)

(* What a ripper does by itself: everything but the end of a wait the user  *)
(* may hold open (a paused job or a global pause), and death.               *)
Ripper(j) == Prepare(j) \/ Rip(j) \/ Handoff(j) \/ Leave(j)

-----------------------------------------------------------------------------
(* The transcoder: a queue of its own, and one callback per job at a time   *)
(* (the final one replaces a "transcoding" nobody received).                *)

TxStart(j) ==
    /\ tx[j] = "queued"
    /\ tx' = [tx EXCEPT ![j] = "active"]
    /\ mail' = [mail EXCEPT ![j] = "transcoding"]
    /\ UNCHANGED <<jobVars, driveVars, ripVars, api>>

TxEnd(j) ==
    /\ tx[j] = "active"
    /\ tx' = [tx EXCEPT ![j] = "done"]
    /\ \E outcome \in {"completed", "failed"} : mail' = [mail EXCEPT ![j] = outcome]
    /\ UNCHANGED <<jobVars, driveVars, ripVars, api>>

(* Faulty variant: the transcoder's word for it becomes the status. *)
Outcome_Verbatim(c) == c

Outcome(c) == IF c = "transcoding" THEN "TRANSCODE_ACTIVE"
              ELSE IF c = "completed" THEN "SUCCESS" ELSE "FAILURE"

(* transcode_callback: whatever the row says, it is overwritten; no row, no *)
(* effect (404).                                                            *)
Deliver(j) ==
    /\ mail[j] # "none"
    /\ mail' = [mail EXCEPT ![j] = "none"]
    /\ IF HasRow(j) THEN SetStatus(j, Outcome(mail[j])) ELSE UNCHANGED status
    /\ UNCHANGED <<manualStart, ejected, driveVars, ripVars, tx, api>>

Lose(j) ==
    /\ Faults
    /\ mail[j] # "none"
    /\ mail' = [mail EXCEPT ![j] = "none"]
    /\ UNCHANGED <<jobVars, driveVars, ripVars, tx, api>>

-----------------------------------------------------------------------------
(* The API. A call is served in two steps, what it reads and what it        *)
(* commits; between the two, anyone else may commit.                        *)

Serve(w, c, j) ==
    /\ c \in Calls
    /\ api[w] = Idle
    /\ api' = [api EXCEPT ![w] = [call |-> c, job |-> j]]

Serving(w, c, j) ==
    /\ api[w] = [call |-> c, job |-> j]
    /\ api' = [api EXCEPT ![w] = Idle]

(* The guards of start, cancel and skip-and-finalize: 409 otherwise. *)
Expected(c) == IF c = "skip" THEN "TRANSCODE_WAITING" ELSE "MANUAL_PAUSED"

Ask(w, c, j) ==
    /\ Serve(w, c, j)
    /\ c \in {"start", "cancel", "skip"}
    /\ status[j] = Expected(c)
    /\ UNCHANGED <<jobVars, driveVars, ripVars, txVars>>

StartCommit(w, j) ==
    /\ Serving(w, "start", j)
    /\ HasRow(j)
    /\ manualStart' = [manualStart EXCEPT ![j] = TRUE]
    /\ UNCHANGED <<status, ejected, driveVars, ripVars, txVars>>

CancelCommit(w, j) ==
    /\ Serving(w, "cancel", j)
    /\ HasRow(j)
    /\ SetStatus(j, "FAILURE")
    /\ UNCHANGED <<manualStart, ejected, driveVars, ripVars, txVars>>

(* finalize_output moves the files, then the status says so. *)
SkipCommit(w, j) ==
    /\ Serving(w, "skip", j)
    /\ HasRow(j)
    /\ SetStatus(j, "SUCCESS")
    /\ UNCHANGED <<manualStart, ejected, driveVars, ripVars, txVars>>

(* abandon: SIGTERM first; the status and the release go in one commit,     *)
(* after the physical eject.                                                *)
Abandon(w, j) ==
    /\ Serve(w, "abandon", j)
    /\ HasRow(j)
    /\ sig' = [sig EXCEPT ![j] = IF Alive(j) /\ @ = "none" THEN "sent" ELSE @]
    /\ UNCHANGED <<jobVars, driveVars, pc, on, final, todo, victim, unsaid, txVars>>

(* Faulty variant: the drive is left to the ripper that was just stopped. *)
AbandonCommit_NoEject(w, j) ==
    /\ Serving(w, "abandon", j)
    /\ HasRow(j)
    /\ SetStatus(j, "FAILURE")
    /\ UNCHANGED <<manualStart, ejected, driveVars, ripVars, txVars>>

AbandonCommit(w, j) ==
    /\ Serving(w, "abandon", j)
    /\ HasRow(j)
    /\ SetStatus(j, "FAILURE")
    /\ EjectJob(j)
    /\ UNCHANGED <<manualStart, ripVars, txVars>>

(* delete: job_cleanup commits first, then the row goes. No guard looks at  *)
(* the status.                                                              *)
Delete(w, j) ==
    /\ Serve(w, "delete", j)
    /\ HasRow(j)
    /\ cur'  = [d \in Drives |-> IF cur[d] = j THEN NoJob ELSE cur[d]]
    /\ prev' = [d \in Drives |-> IF prev[d] = j THEN NoJob ELSE prev[d]]
    /\ UNCHANGED <<jobVars, ripVars, txVars>>

DeleteCommit(w, j) ==
    /\ Serving(w, "delete", j)
    /\ SetStatus(j, NoRow)
    /\ UNCHANGED <<manualStart, ejected, driveVars, ripVars, txVars>>

(* force-complete does not depend on what it read. *)
ForceComplete(j) ==
    /\ "force" \in Calls
    /\ HasRow(j)
    /\ SetStatus(j, "SUCCESS")
    /\ UNCHANGED <<manualStart, ejected, driveVars, ripVars, txVars, api>>

(* The eject button of a drive: the tray moves, the current job is released *)
(* in the session ...                                                       *)
Eject(w, d) ==
    /\ "eject" \in Calls
    /\ api[w] = Idle
    /\ api' = [api EXCEPT ![w] = [call |-> "eject", drive |-> d]]
    /\ UNCHANGED <<jobVars, driveVars, ripVars, txVars>>

(* ... and the session is rolled back at the end of the request.            *)
EjectReturn(w, d) ==
    /\ api[w] = [call |-> "eject", drive |-> d]
    /\ api' = [api EXCEPT ![w] = Idle]
    /\ UNCHANGED <<jobVars, driveVars, ripVars, txVars>>

(* The call ends in an error: the row is gone, or the commit failed. *)
ApiFails(w) ==
    /\ api[w] # Idle
    /\ api[w].call # "eject"
    /\ Faults \/ (api[w].call # "delete" /\ ~HasRow(api[w].job))
    /\ api' = [api EXCEPT ![w] = Idle]
    /\ UNCHANGED <<jobVars, driveVars, ripVars, txVars>>

ApiCommit(w) ==
    \/ \E j \in Jobs : \/ StartCommit(w, j) \/ CancelCommit(w, j) \/ SkipCommit(w, j)
                       \/ AbandonCommit(w, j) \/ DeleteCommit(w, j)
    \/ \E d \in Drives : EjectReturn(w, d)

Api(w) ==
    \/ \E j \in Jobs : \/ \E c \in Calls : Ask(w, c, j)
                       \/ Abandon(w, j) \/ Delete(w, j)
    \/ \E d \in Drives : Eject(w, d)
    \/ ApiFails(w)
    \/ ApiCommit(w)

-----------------------------------------------------------------------------
(* The container restarts: every process is gone, and before udev and the   *)
(* API come back cleanup_orphaned_jobs fails what a ripper left behind.     *)
Restart ==
    /\ Faults
    /\ LET orphans == {j \in Jobs : HasRow(j) /\ status[j] \notin Finished \cup Transcoding}
       IN /\ status' = [j \in Jobs |-> IF j \in orphans THEN "FAILURE" ELSE status[j]]
          /\ cur'  = [d \in Drives |-> IF cur[d] \in orphans THEN NoJob ELSE cur[d]]
          /\ prev' = [d \in Drives |-> IF cur[d] \in orphans THEN cur[d] ELSE prev[d]]
    /\ pc' = [j \in Jobs |-> Remains(j)]
    /\ on' = [j \in Jobs |-> NoDrive]
    /\ final' = [j \in Jobs |-> "IDLE"]
    /\ todo' = [j \in Jobs |-> {}]
    /\ victim' = [j \in Jobs |-> NoJob]
    /\ sig' = [j \in Jobs |-> "none"]
    /\ api' = [w \in Workers |-> Idle]
    /\ unsaid' = {j \in unsaid : pc[j] = "done"}
    /\ UNCHANGED <<manualStart, ejected, txVars>>

Next ==
    \/ \E j \in Jobs : \/ \E d \in Drives : Start(j, d)
                       \/ Ripper(j) \/ PollOverride(j) \/ PollExpired(j)
                       \/ Raise(j) \/ Die(j)
                       \/ TxStart(j) \/ TxEnd(j) \/ Deliver(j) \/ Lose(j)
                       \/ ForceComplete(j)
    \/ \E w \in Workers : Api(w)
    \/ Restart

Spec == Init /\ [][Next]_vars

(* What the scheduler owes: a live ripper is scheduled, a call that was      *)
(* accepted is carried out. Nobody owes the end of a wait (the user may     *)
(* pause it), a new disc, or an answer of the transcoder.                   *)
FairSpec ==
    /\ Spec
    /\ \A j \in Jobs : WF_vars(Ripper(j))
    /\ \A w \in Workers : WF_vars(ApiCommit(w) \/ ApiFails(w))

-----------------------------------------------------------------------------
(* A ripper past the duplicate check works on a drive whose record, as long *)
(* as it names a job at all, names this ripper's job. (The check and the    *)
(* association are two transactions, seconds apart, and the association     *)
(* overwrites whatever is there: main.py 413 and 428.)                      *)
DriveExclusive ==
    \A j \in Jobs :
        /\ pc[j] \in {"adopt", "assign"} => ~Processing(on[j])
        /\ pc[j] \in (Body \cup Ending) \ {"assign"} /\ Processing(on[j]) => cur[on[j]] = j

(* A job is shown as waiting for the transcoder only if the transcoder was  *)
(* given it: not when the webhook failed, nor when `finally` writes back    *)
(* the status it saved (arm_ripper.py 92-99, main.py 498-508).              *)
HandoffAgrees ==
    \A j \in Jobs :
        status[j] \in Transcoding \/ final[j] \in Transcoding => tx[j] # "idle"

(* A ripper that got to the end of main.py has left its drive, whoever      *)
(* released or failed to release it before (job.eject runs up to three      *)
(* times, from two processes, and each relies on `ejected`).                *)
DoneReleased ==
    \A j \in Jobs : pc[j] = "done" => ~HoldsDrive(j)

(* A ripper that got to the end leaves a status no ripper owns: EJECTING    *)
(* and the rip's own states outlive it only if its FAILURE was not written, *)
(* because that commit failed (main.py 471-487) or a SIGTERM hit the error  *)
(* path before it; `finally` then writes the status of the rip back. IDLE   *)
(* is left by a data disc (main.py 285-299).                                *)
Settled == Finished \cup Transcoding \cup {"IDLE", NoRow}

DoneSettled ==
    \A j \in Jobs : pc[j] = "done" => status[j] \in Settled \/ j \in unsaid

(* As long as nothing crashes, a drive that is taken has someone who will   *)
(* release it: its ripper, or the abandon call that stopped the ripper.     *)
HolderAlive ==
    ~Faults =>
        \A d \in Drives :
            Processing(d) => \/ Alive(cur[d])
                             \/ \E w \in Workers : api[w] = [call |-> "abandon", job |-> cur[d]]

(* The drives are allocated as DriveAllocation says. *)
Owner  == [d \in Drives |-> IF Processing(d) THEN cur[d] ELSE NoJob]
Served == {j \in Jobs : pc[j] \notin Setup \cup {"off", "assign"}}

Allocation == INSTANCE DriveAllocation
                  WITH Nobody <- NoJob, owner <- Owner, served <- Served

AllocatesDrives == Allocation!Spec

(* As long as nothing crashes, a taken drive becomes free again, or its     *)
(* ripper is waiting for the user.                                          *)
DriveFreed ==
    \A d \in Drives :
        []<>(Processing(d) => pc[cur[d]] = "waiting")
=============================================================================
