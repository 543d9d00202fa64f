# Automatic Ripping Machine: a TLA+ model

Modules, model-checking configurations and proofs for the Automatic Ripping
Machine (ARM). A disc is inserted, udev starts a ripper process for the drive,
the ripper identifies the disc, waits for the user, rips it and hands the result
to an external transcoder. An API server lets users steer the jobs, takes the
transcoder's callbacks, imports folders and disc images, and sends
notifications.

Every definition is translated from the source; `PROJECT.json` names the lines.

    tlasany JobLifecycle.tla
    tlc -workers 2 -config lifecycle_crash.cfg MCJobLifecycle.tla
    tlapm JobLifecycle_proofs.tla

## 1. Inventory

| component | state | operations | what makes it correct |
|---|---|---|---|
| job and drive tables (`models/job.py`, `models/system_drives.py`) | `job.status`, `manual_start`, `ejected`; `system_drives.job_id_current`, `job_id_previous` | `new_job`, `release_current_job`, `Job.eject`, commits of single columns | a drive has one job; a release reaches the drive of that job |
| ripper process (`ripper/main.py`, `arm_ripper.py`, `utils.py`, `makemkv.py`) | where it is, the status it saved, the SIGTERM it got | setup, sweep, identify, wait, rip, hand over, error path, `finally` | a finished ripper leaves a truthful final status and a free drive |
| job API (`api/v1/jobs.py`, `services/jobs.py`) | the call each thread serves | start, cancel, abandon, delete, skip, force-complete, transcoder callback, edits of titles and tracks | a call that was answered is not undone |
| sweeps (`utils.clean_old_jobs`, `services/job_cleanup.py`) | the list loaded at their start | fail the jobs of dead rippers, release their drives | only dead rippers' jobs, and no settled one |
| drive lock (`docker_arm_wrapper.sh`, `rescan_drive.sh`, `arm-drive-watcher.sh`, drive diagnostic, end of `main.py`) | the lock file's name, inodes and locks | open, lock, exec, unlink; probe, break | one ripper per drive |
| drive registry (`services/drives.py`, `api/v1/drives.py`) | the `system_drives` rows and their marks | detect, match by serial, port and name, resolve conflicts, clean up, delete | a row follows its device, and not under a rip |
| tracks and files (`makemkv.py`, `folder_ripper.py`, `import_prescan.py`, `naming.py`) | `track` rows, the raw and the final directory | scan, retry, edit, rip, reconcile, remove, finalize | no wanted title lost, each row names its own file |
| identification (`identify.py`, `metadata.py`, `arm_matcher.py`) | the job's title columns, the mount | wait for the drive, mount, type, label, lookups, search, score | the best title found stays; ends unmounted |
| episode matching (`services/matching`, `tvdb_sync.py`) | episode numbers on tracks | window, greedy, best season, exclusion | in order, no episode twice, also across discs |
| music discs (`music_brainz.py`, `utils.rip_music`) | track rows, abcde's process | look up, put rows, spawn, read lines, verdict | rows of one source, true phases and verdict |
| folder and image imports (`folder.py`, `iso.py`, `folder_ripper.py`, `import_prescan.py`) | threads of the API server | create, prescan, review, start, rip, hand over | one job per source, none left behind |
| notification outbox and senders (`notifications/*`) | outbox rows with status, tries and due time; the dispatcher's batch | publish, dequeue, render, send, record, reap, clean up; channel calls | every row gets a truthful verdict; nothing is sent again unaccounted |
| database layer (`database/__init__.py`) | pending changes of a session | commit with snapshot and retry | a commit that returns has written what was pending |
| progress, log parser, disk usage cache | caches | read, refresh | never stale beyond the interval |
| files, maintenance, preflight, settings, migrations, loggers, helpers | files | I/O | not considered |

How they interact. The ripper processes, the API threads, the sweeps and the
container's start script meet in the database and nowhere else: there are no row
locks and no version columns, each session loads rows, decides and commits the
columns it assigned. The API reaches a ripper by SIGTERM only. The ripper
reaches the transcoder by one HTTP call and the transcoder reaches the API by
callbacks. Processes of one drive exclude each other by a lock file. Imports
have no process: threads of the API server that know their job by its id. Titles
meet files by name. Whoever has something to tell calls `publish_event`, which
writes outbox rows.

What is hard: decisions taken on rows that have changed since (manual wait,
`finally`, sweep, skip, scans of drives, matches, a copy of the job during
identification), two commits where one is meant (sweep, delete, create), signals
that raise anywhere, processes and containers that die anywhere, callbacks that
are late or lost, an unlink of a lock file that others have open, an outbox that
must survive the death of its dispatcher between send and record, files that
MakeMKV numbers in its own way, and searches with limits on every side. The
`hazards` of `PROJECT.json` list them at their lines.

## 2. Modules

| module | models |
|---|---|
| `JobTable` | the two tables and their methods, shared vocabulary of the lifecycle |
| `DriveAllocation` | abstract: free drive, acquire, release, one turn per job; implemented by `JobLifecycle` |
| `JobLifecycle` | rippers, job API, sweeps, restart, transcoder |
| `DriveLock` | the lock file of one drive |
| `DriveRegistry` | the table of drives, overlapping scans, devices that move |
| `TrackFiles` | the titles of one job from the scan to the final directory |
| `Identification` | what a disc is and what it is called |
| `EpisodeMatching` | which episode is on which track, for the discs of a set |
| `MusicRip` | lookup (rows, title, art), rows, abcde and verdict of music discs |
| `ImportJobs` | imports: calls, threads, restarts and ids that are used again |
| `NotificationOutbox` | outbox, dispatcher, senders, channels |
| `MC*` | instances for TLC: definitions for constants, symmetry sets |
| `*_proofs` | theorems |

### JobLifecycle

`pc[j]` is where the ripper of job `j` is, and its values follow the code from
top to bottom: `setup` and `adopt` before the row exists, the states of the
body, `failing` for `except`, `exit`/`eject`/`close` for `finally`. One action
is what lies between two commits; where the code decides on an earlier read the
action is split at the read (`Accept` and `Assign`, `SweepLoad` and `SweepFail`,
the polls and `Resume`, `ReadFinal` and `Close`, `Ask` and the commits of the
API). `final` is `final_status`, `todo` and `victim` are the sweep's list and
the job it is releasing.

- *SIGTERM.* The handler raises in the main thread between two bytecodes. `sig =
  "sent"` lets the commit in progress complete; after it, `Interrupted` or
  `CutShort` is the only step left. `Lands` says where the exception is caught:
  the broad `except Exception` of setup, identification and webhook take it for
  a fault of their own, the scan unwinds through its `finally`, the ending is
  cut short.
- *Death.* `Die` (SIGKILL, or an exception in `finally`) and `Restart` (the
  container, followed by `cleanup_orphaned_jobs` before anything else starts)
  are possible at any step when `Faults` holds.
- *Failure.* `except` only assigns FAILURE; the commit of the event behind it
  writes it. When that commit fails the session is rolled back, the exception is
  logged and `finally` restores what the body left (`FailingLost`). `unsaid` are
  the rippers this has happened to, a history variable.
- *Columns.* SQLAlchemy writes changed columns only. A stale session therefore
  overwrites the status it assigns and leaves the columns it did not touch.
- *Transcoder.* External: a queue, and one callback in flight per job, which may
  be late or lost. It is modelled from what the callback handler accepts.
- *Lock.* `LockFree` takes the flock as exclusive. `DriveLock` shows when it is
  not; the drive properties here are about what the tables add to it.

Abstractions: durations (every timeout may elapse at once), the disc (any type,
any outcome), titles and files, the two scans of MakeMKV as one, logging and
notifications, and job ids, which are not used twice here (in `ImportJobs` they
are).

### DriveLock

`path` is the inode the name refers to, `fd` and `pfd` the inodes processes have
open. A lock belongs to the inode. The runs of the wrapper go through `opened`,
`locked`, `main`, `ending`; a prober tries the lock and, when it is busy and no
`main.py` runs, removes the name. The scripts create the file when they probe;
the diagnostic only opens an existing one, which is a special case. `undercut`
are the runs whose file lost its name while they had it open, a history variable
that no guard reads.

### DriveRegistry

`row[r]` is a drive's row, `scan[s]` one call of `drives_update`: where it is,
what it detected, and the row it has loaded. A scan marks rows, writes one row
per device, takes the name from rows in conflict, and blanks the rows still
marked; each of these is a loop of commits here as in the code, so that scans,
rips and deletions come between any two. `Replug` is the kernel's. `calm` are
the rips that began while no scan was under way, `alone` the scans nothing came
between; both are history.

### TrackFiles

`row[t]` is the row of title `t`, `file` and `final` say which title is in which
file of the raw and the final directory. A file name is the segment prefix and
the number in `_tNN`, which MakeMKV counts anew; a final path is folder, title
and the number in ` - Track n`. The scan may fail before or between its rows
(`PrepFails`, `ScanBreaks`) and is tried again (`Retry`); a rip may fail with
files on disk, and after a title error MakeMKV goes on unseen (`TitleError`,
`SaveUnseen`, `RunFails`). `Matching` is the four passes of
`_reconcile_filenames`; its sorted lists are ranks (`Rank`, `FileRank`), since
all the code does with them is to pair their entries by position. Three ways of
ripping are told apart: an import, a disc in one go, a disc title by title.
Names are compared before `clean_for_filename` and used after it: a name is its
text with the number the code appends, and `Cleanings` are the ways in which the
cleaning may map them, the ones that merge names included. `clashed` are the
titles whose final path was made equal to that of another, after their names
were found different: a history variable.

### Identification

`row` is the job's row, `mine` the ripper's copy of it, which is read again
after a commit only. A query is a sequence of `-` and `+`, since that is all the
search loop looks at; `asked` are the queries already made. A work the providers
know is how well its name fits, how far its year is off, and its type.
`OmdbAnswers` and `TmdbAnswers` are what each may return for the works there
are, `Score` and `Best` the matcher. Waits and mounts are counted. Any step may
raise (`Raise`: a query, the matcher, a commit), and `Handler` says who catches
it; a umount may be refused. `broke` says where, and `MaxBreaks` bounds how
often.

### EpisodeMatching

`run[d]` is a match under way for disc `d`: what it read when it began, and what
it found. `Windowed` and `Greedy` are the two assignments, as in the code with
their fallbacks. The lookup of the other discs may fail, which excludes nothing
(`Excluded`); `heard` says that it did not. Lengths are in units of 30 s.
Matches of the ripper and of the user write at some later step, so matches of
two discs overlap.

### MusicRip

`rows[j]` are the track rows in the order they were put, `abcde[j]` the process,
`phase[j]` what it has printed of each track. Writes of rows and of the job's
failure that the code lets fail (`Refused`) are counted by `faults`. abcde may
go quiet where the limit applies (`hung`) or where none does (`stuck`: in the
middle of a line, or with a limit of 0). What comes between the rows' success
and the job's may raise (`Upset`). The removal of other discs' work directories
is seen as an abcde that ends badly, which it may at any time.

### ImportJobs

`job[i]` is the row with id `i`, `busy[<<place, i>>]` how many calls or threads
are at that place for that id. A row that was deleted leaves its id to the next
one. A thread that cannot be started, or that the database refuses, leaves its
job as it is (`Forsake`). `reused`, `excused`, `twice` and `forsaken` are
history, set where a thread of a deleted job, two overlapping creates, two
overlapping starts or such a thread have done what a property cannot hold
against.

### NotificationOutbox

`row`, `attempts` and `at` are the columns of a row, the last as `later`, `due`
or `stale` (more than five minutes past). `disp`, `batch`, `at_hand` and
`answer` are the dispatcher's loop and its locals. Each kind of channel has its
send action, with every answer its service may cause, and what was received is
recorded apart from what was answered. The send is a step of its own, so that
the server can die between it and the record. `delivered`, `garbled` and
`received` are history. `MaxBoots` bounds the starts of the server; the last one
stays up.

## 3. Runs

| run | instance | shows |
|---|---|---|
| `lifecycle_crash` | 2 jobs, 2 drives, faults, no calls; symmetric; 332k states | `TypeOK`, `DriveExclusive`, `HandoffAgrees`, `DoneReleased`, `DoneSettled`, refinement of `DriveAllocation` |
| `lifecycle_races` | 1 job, 1 drive, 2 API threads, all calls, faults, no AUTO_EJECT; 398k states | `HandoffAgrees`, `DoneReleased` |
| `lifecycle_liveness` | 2 jobs, 1 drive, abandon calls, no faults, fair; 299k states | `HolderAlive`, `DriveFreed` |
| `lock_files` | 3 wrappers, 2 probers, kills; symmetric; 13k states | `AloneUnlessUndercut` |
| `drive_registry` | 2 devices, 2 names, 1 port, 1 rip, 2 scans at a time; symmetric | `RipKeepsName`, `ScanTruthful` |
| `track_files` | 3 titles of 3 lengths, 2 attempts, 2 calls of the user, cleanings that merge names; 1.6M states | `TypeOK`, `KeptSurvive`, `RowsFindTheirFiles`, `EmptyRipTrue` |
| `episode_matching` | 2 discs of 3 tracks, 2 seasons; 86k states | `InOrder`, `SplitsSeason`, `SiblingsRespected` |
| `identification` | any disc, 6 queries, 4 works, 1 edit, 1 failure; 2.0M states, fair | `ExpectedAgrees`, `ExactWins`, `NotLeftMounted`, `TitleKept`, `GivesUpLast`, `Finishes` |
| `music_rip` | 1 disc of 2 tracks, 2 edits, 2 refused writes; 471k states, fair | `OneSource`, `ShownTruly`, `VerdictTrue`, `Finishes` |
| `imports` | 1 folder, 1 image, 2 ids, 2 things under way, 1 restart; 1.6M states | `Attended`, `RippedOnce`, `OnePerSource`, `RippedFirst` |
| `outbox_faults` | 1 event, a webhook and a script, 3 starts, everything fails; 780k states | `TypeOK`, `Accounted`, `ScriptsOnce`, `OutcomeTrue`, `FinalStays` |
| `outbox_settles` | 2 events, 1 apprise service, batches of 1, undisturbed, fair; 27k states | `Settles` |

Bounds. Two jobs give every pair of actors in the tables: a ripper and the sweep
of another, a ripper and its successor on the drive, a dead job and the
duplicate check. A third would only add a third independent ripper. One job with
two API threads gives every pair of calls against the ripper and each other;
`lifecycle_crash` has the drives, `lifecycle_races` the calls, and the theorems
of `JobLifecycle_proofs` are for both together. The lock needs three runs for
its failure (one that exits, one that has the file open, one that comes later).
Inodes suffice for all processes to have different files open. Two devices and
two names are enough for a swap of names, with a scan that has seen one half of
it; three titles for one that is skipped between two that are kept, and the
lengths for every order of them around MINLENGTH; two calls for a deselected
title and a renamed one. Two discs of a set share one season, with a second
season to choose from. The queries have each separator first and last, and both
twice. One failure of identification suffices, since the run goes straight to
its end after it. Two ids and two threads give a thread of a deleted job on a
new one, and two calls that start one job. The outbox needs two rows in a batch
for one to be lost behind the other, and three starts for a row to be rescued
and lost again. `CHECK_DEADLOCK FALSE` is said everywhere because discs, runs,
calls and events are finite: an instance stops when they run out.

Fairness. `FairSpec` of the lifecycle: a live ripper is scheduled, and a call
that was accepted is carried out. Nothing is assumed of users, discs, the
transcoder or the end of a wait, which the user may hold open. `FairSpec` of the
outbox: the loop runs, the server is started while `MaxBoots` allows, time
passes; nothing is assumed of publishing, of channels or of a stop.
`Identification` and `MusicRip`: the ripper goes on whenever it can. Polls and
mounts are counted in the code. `mount`, `umount`, `lsdvd` and `blkid` run
without a timeout: that the kernel ends them is assumed. The limit on abcde
applies where a line is to begin, and only there is a silence assumed to be
noticed; one that is `stuck` is let off. Nothing is assumed of a drive that gets
ready, of steps that raise, of what abcde does, or of the user, who may never
start a rip.

## 4. Proofs

| theorem | statement |
|---|---|
| `JobLifecycle_proofs!TypeCorrect` | `Spec => []TypeOK` |
| `JobLifecycle_proofs!DrivesExclusive` | `Spec => []DriveExclusive` |
| `JobLifecycle_proofs!DrivesAllocated` | `Spec => AllocatesDrives`, that is `Allocation!Spec` |
| `JobLifecycle_proofs!HandoffTrue` | `Spec => []HandoffAgrees` |
| `JobLifecycle_proofs!EndedWithoutDrive` | `Spec => []DoneReleased` |
| `JobLifecycle_proofs!EndsSettled` | `Spec => []DoneSettled` |
| `JobLifecycle_proofs!DrivesHaveHolders` | `Spec => []HolderAlive` |
| `DriveLock_proofs!RippersAlone` | `Spec => []AloneUnlessUndercut` |
| `DriveRegistry_proofs!RipsKeepNames` | `Spec => []RipKeepsName` |
| `DriveRegistry_proofs!ScansTellTheTruth` | `Spec => []ScanTruthful` |
| `TrackFiles_proofs!TracksTypeCorrect` | `Spec => []TypeOK` |
| `TrackFiles_proofs!TitlesSurvive` | `Spec => []KeptSurvive` |
| `TrackFiles_proofs!RowsFindFiles` | `Spec => []RowsFindTheirFiles` |
| `TrackFiles_proofs!EmptyRipsTold` | `Spec => EmptyRipTrue`, an action property |
| `Identification_proofs!ExactWorkTaken` | `Spec => []ExactWins` |
| `Identification_proofs!ExpectedTitleTrue` | `Spec => []ExpectedAgrees` |
| `Identification_proofs!DiscUnmounted` | `Spec => []NotLeftMounted` |
| `Identification_proofs!FoundTitleKept` | `Spec => TitleKept`, an action property |
| `Identification_proofs!SearchExhausted` | `Spec => GivesUpLast`, an action property |
| `MusicRip_proofs!RowsShownTruly` | `Spec => []ShownTruly` |
| `MusicRip_proofs!MusicVerdictTrue` | `Spec => []VerdictTrue` |
| `MusicRip_proofs!RowsOfOneSource` | `Spec => []OneSource` |
| `ImportJobs_proofs!NobodyForgotten` | `Spec => []Attended` |
| `ImportJobs_proofs!NeverRippedTwice` | `Spec => []RippedOnce` |
| `ImportJobs_proofs!HandedOverRipped` | `Spec => []RippedFirst` |
| `ImportJobs_proofs!SourcesOnce` | `Spec => []OnePerSource` |
| `NotificationOutbox_proofs!OutboxTypeCorrect` | `Spec => []TypeOK` |
| `NotificationOutbox_proofs!DeliveriesAccounted` | `Spec => []Accounted` |
| `NotificationOutbox_proofs!ScriptsRunOnce` | `Spec => []ScriptsOnce` |
| `NotificationOutbox_proofs!OutcomesTrue` | `Spec => []OutcomeTrue` |
| `NotificationOutbox_proofs!FinalRowsStay` | `Spec => FinalStays`, an action property |

They hold for all values of the constants under the named assumptions of the
modules (`JobTableAssumption`, `JobLifecycleAssumption`, `DriveLockAssumption`,
`RegistryAssumption`, `TracksAssumption`, `CleaningAssumption`,
`IdentificationAssumption`, `MusicRipAssumption`, `ImportAssumption`,
`OutboxAssumption`), which TLC evaluates in the runs. They say no more than the
types of the constants and that special values are not ordinary ones, and of the
cleaning that it keeps the number at the end of a name and leaves a bare name
bare.

*DrivesExclusive.* `DriveExclusive` is not inductive: it says nothing of two
rippers on one drive, nor of a reference to a job whose row comes later.
`DriveInv` adds that live rippers have different drives (`LockHeld`, from the
flock), that a live ripper has a drive (`OnADrive`), and that no drive names a
job whose ripper has not got to the association (`NotYetNamed`). Most actions
touch neither drives nor the part of `pc` these depend on; lemma `QuietKeeps`
says so once, each `...Quiet` lemma shows it of one group of actions, and only
`Start`, `Accept`, `Adopt` and `Assign` need an argument of their own.

*DrivesAllocated.* The same split serves the refinement. A quiet step releases
drives or leaves them (`QuietReleases`), the three early actions are stutters
(`EarlyStutters`), and `Assign` is the acquisition (`AssignAcquires`: with
`DriveInv` the drive is free and the job has had no turn). `AllocationStep`
combines them.

*HandoffTrue, EndedWithoutDrive, EndsSettled, DrivesHaveHolders.* One invariant,
`OutcomeInv`, with a part for each. `HandedOver`: a ripper past the webhook and
a callback in flight have a transcoder that was asked. `EjectedOnce`: the flag
`ejected`, on which three releases in two processes rely, is set only with the
drive released, and only after the association, so that no later association
gives it the lie. `Settling`: without abandon calls no signal arrives, and both
the status and `final` are settled where the code no longer decides them, unless
the failure was lost (`unsaid`). `Watched`: a job that has a drive and a row is
alive or about to be released by the abandon call that stopped it. The lemmas
`...Keeps` prove all of it action by action.

*RippersAlone.* A lock is only added where nobody holds one, so that a file has
one lock (`OnePerFile`). `Named` adds that the file of a run that is not
undercut is the one the name refers to, so that two such runs have one file. It
is kept by everybody who removes the name, since that undercuts all who have a
file open, and by everybody who makes it anew.

*RipsKeepNames.* A scan acts on what it has loaded, so `RegistryInv` says two
things more. While a scan is past its marking no row of a calm rip is marked
(`Unmarked`), so that neither serial nor port leads to it, only its own name;
and what a scan has in hand in each of its places agrees with that (`InHand`). A
rip becomes calm only while no scan is under way, so nothing in hand can be
overtaken by it.

*ScansTellTheTruth.* `TruthInv` adds to `RegistryInv` what holds of a scan that
is alone (`Solo`), loop by loop: the devices it has dealt with each have an
unmarked row (`Claimed`), an unmarked free row is that of a device it has dealt
with (`Accounted`), two free rows of one name are never that of a handled device
(`Apart`), and the row it has loaded is still the one in the table (`Loaded`,
`Taken`, `Cleaning`). That last part is what an overlapping scan breaks. The
devices' own names differ (`NamesDiffer`), which the kernel sees to.

*TitlesSurvive, RowsFindFiles, EmptyRipsTold.* The heart is how a file's name
comes about: its number is the rank of the title among those that were saved, or
its own number when titles are ripped singly (`OwnFile`, `InOwnFiles`). The
titles an import saves are those up to where MakeMKV has got and not shorter
than its cutoff (`SavedSoFar`). The sets of titles above two cutoffs are nested,
so a guessed cutoff that counts as many titles as there are files gives the very
titles that were saved, and ranks among them are the files' numbers. Hence each
pass of the matching pairs a row with the file of its own title, or with none.
`ScannedNames` says what the names were before, `MarkedRipped` which rows the
single rips and the marking by messages have marked. That nothing is lost at the
end (`KeptLate`) needs that two files are never moved to one place: the final
names of two titles differ in their track number whenever they agree in folder
and title, and a cleaning keeps that number. What is left are names that were
different, and `clashed` has their titles.

*Identification.* `Kept` relates the row, the ripper's copy and the place in the
code, so that a title once found is replaced by the user only; `Picked` says
that the matcher's choice is among the best of what was offered, and a work that
fits exactly, with the year, beats every other; `Expects` and `Mounted` follow
`expected` and the mount through the places where a failure may end the run.
`Searched` says of the search loop that every query down to the present one has
been asked in each of the ways the year allows. It speaks of some query length
in `Nat`, so TLC cannot evaluate it as it stands; the other parts were checked
first. `Raises` says that a step that raises keeps all of this: it changes the
place, forgets what was offered, and is remembered in `broke`.

*MusicRip.* The discs are independent but for the cap on faults and edits, so
the invariants are of one disc (`ShownOf`, `VerdictOf`, `SourceOf`) and what a
step of another disc leaves alone is said once (`Others`). `SourceOf` counts:
while rows are put, the ones still listed are those after the ones already
there, so that a put never meets a row of another origin. `VerdictOf` follows a
verdict from the rows to the job; a job failed after its rows had succeeded is
no success, and one whose failure could not be written is `late`.

*NobodyForgotten, HandedOverRipped.* Whatever is under way for a job either goes
on and still works for it, ends by writing a status that is not a working one,
or forsakes it, which only the next write of the status undoes: with the types
`Attended` is inductive. `RippedFirst` needs what a thread that is about to hand
over has done before (`HandsOverRipped`). `MoveKeeps`, `EndKeeps` and
`BeginKeeps` say once how the counts in `busy` change.

*NeverRippedTwice.* A job that waits for review has no thread, and one that has
any has one only (`OnceOf`), unless it is excused. Hence a single call that
finds a job waiting becomes its single thread. `OnceSame`, `OnceMoved` and
`OnceEnded` say this of a step that leaves the job's threads alone, moves one
on, or ends one; `Single` counts the start call as a thread.

*SourcesOnce.* A call that has looked for a job of its source and found none
creates one later. `Vouched` says that for a source that is not excused at most
one such call is under way, and what it saw still holds. Every other action
leaves the unfinished jobs of a source as they are, ends them, or excuses the
source (`JobsStay`).

*DeliveriesAccounted, ScriptsRunOnce.* A row that may still be sent must have
room for one more delivery, so `OutboxInv` follows a row: while it is pending,
in the batch, about to be sent, or the dispatcher is not past its reaper
(`Sendable`), its deliveries are strictly below its counted tries and the
server's starts, the coming one included (`Room`). A delivery uses the room up;
counting the try or starting the server makes it again. For scripts the room is
made by starts and unreadable output only. `Held` says that the rows the
dispatcher has taken are in flight or deleted, and in one place only; `Fresh` is
the beginning of a row.

*OutcomesTrue, FinalRowsStay.* An answer is recorded one step after the send, so
`Heard` carries the truth over that step: an `ok` in hand is the answer of the
one row in hand, which was delivered. That a finished row stays follows from
`Held`: no row the dispatcher still has to write is finished.

Only model-checked:

- `DriveFreed`, `Settles` and the two `Finishes`: liveness under fairness, which
  needs ENABLED.
- `InOrder`, `SplitsSeason` and `SiblingsRespected` of `EpisodeMatching`. They
  are about what folds over sequences compute; for every input that is an
  induction over data. The run checks them over all inputs of its bounds.

## 5. What was met on the way

The properties are stated so that they hold of the code. Where a comment or a
plain expectation says more, this is where the two part.

*Lifecycle.* A cancel is undone when it commits after the last poll of the wait
(`utils.py:1441`). The transcoder's verdict is overwritten by the ripper's
ending (`main.py:498`, against `arm_ripper.py:58`). A sweep fails a job that
finished after its list was loaded (`utils.py:1053`, against `utils.py:1033`).
The eject button's release is rolled back (`api/v1/drives.py:510`, against
`services/drives.py:351`). The unlink at the end of `main.py` lets two rippers
run (`main.py:521`). skip-and-finalize checks the status and commits without
another look (`api/v1/jobs.py:1251-1280`). The duplicate check refuses every run
while a dead job has the drive, before the sweep that would release it
(`main.py:413`, `449`); the startup cleanup skips finished jobs that still have
a drive (`job_cleanup.py:33-40`). A data disc is left IDLE (`main.py:285-299`).
`services/drives.py:338-361` (`update_job_status`) is called by nobody. When the
commit of the event that tells of a failure fails, the FAILURE is rolled back
with it, and the job ends with the status the body left (`main.py:471-508`;
hence `unsaid`).

*Tracks.* Rows of the last failed attempt at a scan stay and count as
pre-scanned, although `main.py:238` says the rip will scan again (hence
`Scanned` in the properties). The row of a title an import skipped keeps its
scanned name, which may be another's new one, and is marked ripped
(`folder_ripper.py:281-286`). In one go, marking by prefix marks skipped titles
too. Clearing a title's name sets the file name to the job's title
(`api/v1/jobs.py:799`; hence `Basename`). Equal names are told apart before
`clean_for_filename` makes more of them equal, and then one file is moved over
another (`naming.py:373`, `468`, against `359-364`; hence `clashed`). A backup
rip leaves no file a row could name, and is given up as empty. Manual drive mode
never rips, because nothing sets `process`.

*Identification.* What the user sets during identification is overwritten by a
title that is found; a good match by the duplicate check. An HD DVD and a disc
that has become a music disc stay mounted (`identify.py:421`), and so does one
whose umount is refused, which is logged (`423`), or whose type cannot be
committed, before the part that is protected (`379`, `389`; hence `broke`). An
exception in one query ends the whole search (`300`). A title that is cut at
dashes alone is not searched for without the year. TMDb is not asked for series
once it knows any film. The matcher is never told the type, so its weight
decides nothing.

*Episodes.* The first match of a disc knows no series and excludes nothing
(hence `knew`), and neither does one whose lookup of the other discs fails
(`cross_disc.py:67-69`; hence `heard`); a preview stores the number of the disc;
a partial match leaves older numbers.

*Music.* Work directories of other drives' discs are removed (`utils.py:755`).
Errors in reading the lookup's answer fail the job, although the documentation
promises the table of contents. A connection that fails while the library is
scanned, or an event that cannot be written, fails the job after all its rows
succeeded (`main.py:265-278`, `463-472`; `scan_emby` catches HTTP errors only,
`utils.py:364-370`). CD_RIP_TIMEOUT is only looked at where a line begins: an
abcde that stops in the middle of one is waited for without end, and with a
limit of 0 any (`utils.py:525-560`; hence `stuck`).

*Imports.* Two calls that overlap create two jobs (hence `excused`); a job
abandoned during its scan comes back for review; threads of deleted jobs act on
new ones (hence `reused`). Two starts that overlap rip a job twice, since both
may see it wait (`jobs.py:350-366`; hence `twice`). A job stays IDENTIFYING or
VIDEO_RIPPING until the next restart when its thread cannot be started after the
call has saved it (`folder.py:136-144`, `jobs.py:360-366`), or when the database
refuses what its thread does first or last (`import_prescan.py:59-69`,
`101-109`, against `45-50`; `folder_ripper.py:298-303`; hence `forsaken`).

*Notifications.* A deleted channel strands the rest of the batch in flight
(`dispatcher.py:261`). A script whose output is not text is run again, although
failures of scripts are said to be final (`dispatcher.py:220`; hence `garbled`).
The reaper rescues only rows older than five minutes, once per start
(`outbox.py:92-110`, against `models.py:51`). A webhook whose name does not
resolve fails for good.

## 6. Not modelled, and plan

- `database/__init__.py`: RetrySession's snapshot takes what is dirty at the
  time of the failure, which is nothing when the flush itself failed; a module
  of its own (`CommitRetry`) is next.
- Backup rips, manual drive mode, the rip of one main feature
  (`makemkv.py:629-665`, `1346-1375`) and the process limit (`utils.py:325`).
- The countdown of the manual wait with its pauses (`utils.py:1391`); to the
  lifecycle it may end at any poll.
- Proofs still to do: `SiblingsRespected` of `EpisodeMatching`, which depends on
  what a match read and wrote rather than on the order of its folds, and perhaps
  `SplitsSeason`; the two assignments would first be put as recursive functions.
- Web UI, settings, migrations, loggers, log parsers, file browser and preflight
  are I/O or formatting without state the others share.
