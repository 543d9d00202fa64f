------------------------ MODULE JobLifecycle_proofs ------------------------
(***************************************************************************)
(* Proofs about JobLifecycle, for any number of jobs, drives and API        *)
(* threads, any set of calls, with and without faults.                      *)
(*                                                                          *)
(* DriveExclusive is not inductive. It needs to be known that two live      *)
(* rippers are never on the same drive (the wrapper's lock), and that a     *)
(* drive never names a job whose ripper has not got to the association.     *)
(*                                                                          *)
(* First the types and the drives, then that the drives are allocated as    *)
(* DriveAllocation says, and last how a job ends: what its row says of the  *)
(* transcoder, that its drive is given back, and the status that is left.   *)
(***************************************************************************)
EXTENDS JobLifecycle, TLAPS

Past == (Body \cup Ending) \ {"assign"}

LockHeld ==
    \A j, k \in Jobs : Alive(j) /\ Alive(k) /\ on[j] = on[k] => j = k

OnADrive ==
    \A j \in Jobs : Alive(j) => on[j] \in Drives

NotYetNamed ==
    \A d \in Drives, j \in Jobs :
        cur[d] = j => pc[j] \notin Setup \cup {"off", "assign"}

DriveInv ==
    /\ TypeOK
    /\ LockHeld
    /\ OnADrive
    /\ NotYetNamed
    /\ DriveExclusive

(* What nearly every step is, as far as drives are concerned: rippers move  *)
(* past the association or end, drives are released, rows are deleted.      *)
Stays(k) == on'[k] = on[k] /\ (pc'[k] = pc[k] \/ (pc[k] \in Body \cup Ending /\ pc'[k] \in Past))
Ends(k)  == \/ pc'[k] = "off" /\ pc[k] \in Setup \cup {"off"}
            \/ pc'[k] = "dead" /\ pc[k] \notin Setup \cup {"off"}
            \/ pc'[k] = "done" /\ pc[k] \in Past \cup {"done"}

Quiet ==
    /\ \A d \in Drives : cur'[d] \in {cur[d], NoJob}
    /\ \A k \in Jobs : HasRow(k)' => HasRow(k)
    /\ \A k \in Jobs : Stays(k) \/ Ends(k)

-----------------------------------------------------------------------------
(* A quiet step keeps the drives exclusive. *)
LEMMA QuietKeeps ==
    ASSUME DriveInv, Quiet, TypeOK'
    PROVE  DriveInv'
<1> USE DEF DriveInv, PCs, Setup, Body, Ending, Past, Alive
<1>1. \A k \in Jobs : Alive(k)' => Alive(k) /\ on'[k] = on[k]
  BY DEF Quiet, Stays, Ends, TypeOK
<1>2. LockHeld' /\ OnADrive'
  BY <1>1 DEF LockHeld, OnADrive
<1>3. NotYetNamed'
  BY JobTableAssumption DEF NotYetNamed, Quiet, Stays, Ends
<1>4. \A d \in Drives : Processing(d)' => Processing(d) /\ cur'[d] = cur[d]
  BY DEF Quiet, Processing, TypeOK, TablesTypeOK
<1>5. DriveExclusive'
  BY <1>1, <1>4 DEF DriveExclusive, OnADrive, Quiet, Stays, Ends
<1> QED
  BY <1>2, <1>3, <1>5

-----------------------------------------------------------------------------
(* The building blocks of the actions are type-correct and quiet. *)

LEMMA CommitQuiet ==
    ASSUME TypeOK, NEW j \in Jobs, NEW from \in Body \cup Ending, NEW to \in Past,
           NEW s \in JobState, Commit(j, from, to, s)
    PROVE  TypeOK' /\ Quiet
BY DEF TypeOK, TablesTypeOK, Commit, Move, OnlyMoves, SetStatus, HasRow, NoRow, JobState, 
       Quiet, Stays, Ends, PCs, Past, driveVars, txVars

LEMMA SilentQuiet ==
    ASSUME TypeOK, NEW j \in Jobs, NEW from \in Body \cup Ending, NEW to \in Past,
           Silent(j, from, to)
    PROVE  TypeOK' /\ Quiet
BY DEF TypeOK, TablesTypeOK, Silent, Move, OnlyMoves, HasRow,
       Quiet, Stays, Ends, PCs, Past, driveVars, txVars, jobVars

LEMMA VanishQuiet ==
    ASSUME TypeOK, NEW j \in Jobs, NEW to \in {"off", "dead"}, Vanish(j, to),
           to = "off" => pc[j] \in Setup \cup {"off"},
           to = "dead" => pc[j] \notin Setup \cup {"off"}
    PROVE  TypeOK' /\ Quiet
BY DEF TypeOK, TablesTypeOK, Vanish, Exit, HasRow, JobState,
       Quiet, Stays, Ends, PCs, driveVars, txVars, jobVars

LEMMA ReleaseTyped ==
    ASSUME TablesTypeOK, NEW j \in Jobs, ReleaseDriveOf(j)
    PROVE  /\ cur' \in [Drives -> Jobs \cup {NoJob}]
           /\ prev' \in [Drives -> Jobs \cup {NoJob}]
           /\ \A d \in Drives : cur'[d] \in {cur[d], NoJob}
BY DEF TablesTypeOK, ReleaseDriveOf

LEMMA EjectTyped ==
    ASSUME TablesTypeOK, NEW j \in Jobs, EjectJob(j)
    PROVE  /\ cur' \in [Drives -> Jobs \cup {NoJob}]
           /\ prev' \in [Drives -> Jobs \cup {NoJob}]
           /\ ejected' \in [Jobs -> BOOLEAN]
           /\ \A d \in Drives : cur'[d] \in {cur[d], NoJob}
BY ReleaseTyped, JobTableAssumption DEF TablesTypeOK, EjectJob

-----------------------------------------------------------------------------
(* Every step of the body is one of them, between two places of the body.   *)

LEMMA RipQuiet ==
    ASSUME TypeOK, NEW j \in Jobs, Rip(j)
    PROVE  TypeOK' /\ Quiet
<1> USE DEF Past, Body, Ending, JobState, Finished, Transcoding, Ripping, Scanning
<1>1. CASE RipVideo(j)
  BY <1>1, CommitQuiet DEF RipVideo
<1>2. CASE RipMusic(j)
  BY <1>2, CommitQuiet DEF RipMusic
<1>3. CASE RipDataFailed(j)
  BY <1>3, CommitQuiet DEF RipDataFailed
<1>4. CASE AudioFailed(j)
  BY <1>4, CommitQuiet DEF AudioFailed
<1>5. CASE AudioBad(j)
  BY <1>5, CommitQuiet DEF AudioBad
<1>6. CASE AudioDone(j)
  BY <1>6, CommitQuiet DEF AudioDone
<1>7. CASE AudioGood(j)
  BY <1>7, CommitQuiet DEF AudioGood
<1>8. CASE Throttle(j)
  BY <1>8, CommitQuiet DEF Throttle
<1>9. CASE Scan(j)
  BY <1>9, CommitQuiet DEF Scan
<1>10. CASE Scanned(j)
  BY <1>10, CommitQuiet DEF Scanned
<1>11. CASE ScanFailed(j)
  BY <1>11, CommitQuiet DEF ScanFailed
<1>12. CASE Unthrottle(j)
  BY <1>12, CommitQuiet DEF Unthrottle
<1>13. CASE Unwind(j)
  BY <1>13, CommitQuiet DEF Unwind
<1>14. CASE AskUser(j)
  BY <1>14, CommitQuiet DEF AskUser
<1>15. CASE UserReady(j)
  BY <1>15, CommitQuiet DEF UserReady
<1>16. CASE RipData(j)
  BY <1>16, SilentQuiet DEF RipData
<1>17. CASE NoScan(j)
  BY <1>17, SilentQuiet DEF NoScan
<1>18. CASE DriveGone(j)
  BY <1>18, SilentQuiet DEF DriveGone
<1>19. CASE AutoRip(j)
  BY <1>19, SilentQuiet DEF AutoRip
<1>20. CASE UserTimeout(j)
  BY <1>20, SilentQuiet DEF UserTimeout
<1>21. CASE RipDone(j)
  <2>1. /\ cur' \in [Drives -> Jobs \cup {NoJob}]
        /\ prev' \in [Drives -> Jobs \cup {NoJob}]
        /\ ejected' \in [Jobs -> BOOLEAN]
        /\ \A d \in Drives : cur'[d] \in {cur[d], NoJob}
    BY <1>21, EjectTyped DEF RipDone, TypeOK
  <2>2. TypeOK'
    BY <1>21, <2>1 DEF RipDone, Move, OnlyMoves, TypeOK, TablesTypeOK, txVars, PCs
  <2>3. Quiet
    BY <1>21, <2>1 DEF RipDone, Move, OnlyMoves, TypeOK, Quiet, Stays, HasRow
  <2> QED
    BY <2>2, <2>3
<1> QED
  BY <1>1, <1>2, <1>3, <1>4, <1>5, <1>6, <1>7, <1>8, <1>9, <1>10, <1>11, <1>12, <1>13, <1>14, <1>15, <1>16, <1>17, <1>18, <1>19, <1>20, <1>21 DEF Rip

LEMMA WebhookQuiet ==
    ASSUME TypeOK, NEW j \in Jobs, NEW reaches, NEW to \in Past, Webhook(j, reaches, to)
    PROVE  TypeOK' /\ Quiet
BY DEF Webhook, TypeOK, TablesTypeOK, Move, OnlyMoves, PCs, Past, Body, Ending,
       jobVars, driveVars, Quiet, Stays, HasRow

LEMMA HandoffQuiet ==
    ASSUME TypeOK, NEW j \in Jobs, Handoff(j)
    PROVE  TypeOK' /\ Quiet
<1> USE DEF Past, Body, Ending, JobState, Finished, Transcoding, Ripping, Scanning
<1>1. CASE EmptyRip(j)
  BY <1>1, CommitQuiet DEF EmptyRip
<1>2. CASE HandoffLocal(j)
  BY <1>2, CommitQuiet DEF HandoffLocal
<1>3. CASE HandoffCopy(j)
  BY <1>3, CommitQuiet DEF HandoffCopy
<1>4. CASE HandoffInPlace(j)
  BY <1>4, SilentQuiet DEF HandoffInPlace
<1>5. CASE WebhookAccepted(j)
  BY <1>5, WebhookQuiet DEF WebhookAccepted
<1>6. CASE WebhookFailed(j)
  BY <1>6, WebhookQuiet DEF WebhookFailed
<1>7. CASE WebhookUnheard(j)
  BY <1>7, WebhookQuiet DEF WebhookUnheard
<1>8. CASE Posted(j)
  BY <1>8, CommitQuiet DEF Posted
<1>9. CASE Rejected(j)
  BY <1>9, CommitQuiet DEF Rejected
<1> QED
  BY <1>1, <1>2, <1>3, <1>4, <1>5, <1>6, <1>7, <1>8, <1>9 DEF Handoff

LEMMA CloseQuiet ==
    ASSUME TypeOK, NEW j \in Jobs, Close(j)
    PROVE  TypeOK' /\ Quiet
<1>1. /\ cur' \in [Drives -> Jobs \cup {NoJob}]
      /\ prev' \in [Drives -> Jobs \cup {NoJob}]
      /\ ejected' \in [Jobs -> BOOLEAN]
      /\ \A d \in Drives : cur'[d] \in {cur[d], NoJob}
  BY EjectTyped DEF Close, TypeOK
<1>2. TypeOK'
  BY <1>1 DEF Close, Exit, SetStatus, TypeOK, TablesTypeOK, txVars, PCs, JobState
<1>3. \A k \in Jobs : HasRow(k)' => HasRow(k)
  BY DEF Close, SetStatus, HasRow, TypeOK, TablesTypeOK
<1>4. pc[j] = "close" /\ pc' = [pc EXCEPT ![j] = "done"] /\ on' = [on EXCEPT ![j] = NoDrive]
  BY DEF Close, Exit
<1>5. \A k \in Jobs : Stays(k) \/ Ends(k)
  BY <1>4 DEF Stays, Ends, Past, Ending, TypeOK
<1>6. Quiet
  BY <1>1, <1>3, <1>5 DEF Quiet
<1> QED
  BY <1>2, <1>6

LEMMA LeaveQuiet ==
    ASSUME TypeOK, NEW j \in Jobs, Leave(j)
    PROVE  TypeOK' /\ Quiet
<1> USE DEF Past, Body, Ending, JobState, Finished, Transcoding, Ripping, Scanning
<1>1. CASE Failing(j)
  BY <1>1, CommitQuiet DEF Failing
<1>2. CASE MainEnds(j)
  <2>1. TypeOK'
    BY <1>2 DEF MainEnds, TypeOK, TablesTypeOK, Move, OnlyMoves, PCs, jobVars, driveVars, txVars
  <2>2. Quiet
    BY <1>2 DEF MainEnds, TypeOK, TablesTypeOK, Move, OnlyMoves, Quiet, Stays, HasRow, jobVars, driveVars, txVars
  <2> QED
    BY <2>1, <2>2
<1>3. CASE ReadFinal(j)
  <2>1. TypeOK'
    BY <1>3 DEF ReadFinal, NoRow, HasRow, TypeOK, TablesTypeOK, Move, OnlyMoves, PCs, jobVars, driveVars, txVars
  <2>2. Quiet
    BY <1>3 DEF ReadFinal, TypeOK, TablesTypeOK, Move, OnlyMoves, Quiet, Stays, HasRow, jobVars, driveVars, txVars
  <2> QED
    BY <2>1, <2>2
<1>4. CASE Ejecting(j)
  BY <1>4, CommitQuiet DEF Ejecting
<1>5. CASE Close(j)
  BY <1>5, CloseQuiet
<1>6. CASE Interrupted(j)
  <2>1. PICK to \in Body \cup {"exit"} :
            Lands(pc[j], to) /\ pc' = [pc EXCEPT ![j] = to]
    BY <1>6 DEF Interrupted
  <2>2. to \in PCs /\ (to = pc[j] \/ (pc[j] \in Body \cup Ending /\ to \in Past))
    BY <2>1 DEF Lands, PCs
  <2>3. TypeOK'
    BY <1>6, <2>1, <2>2 DEF Interrupted, TypeOK, TablesTypeOK, jobVars, driveVars, txVars
  <2>4. Quiet
    BY <1>6, <2>1, <2>2 DEF Interrupted, TypeOK, TablesTypeOK, Quiet, Stays, HasRow, jobVars, driveVars
  <2> QED
    BY <2>3, <2>4
<1>7. CASE CutShort(j)
  BY <1>7, VanishQuiet DEF CutShort, Setup
<1>8. CASE RowGone(j)
  BY <1>8, VanishQuiet DEF RowGone, Setup
<1>9. CASE FailingLost(j)
  <2>1. TypeOK'
    BY <1>9 DEF FailingLost, TypeOK, TablesTypeOK, Move, PCs, jobVars, driveVars, txVars
  <2>2. Quiet
    BY <1>9 DEF FailingLost, TypeOK, TablesTypeOK, Move, Quiet, Stays, HasRow, jobVars, driveVars
  <2> QED
    BY <2>1, <2>2
<1> QED
  BY <1>1, <1>2, <1>3, <1>4, <1>5, <1>6, <1>7, <1>8, <1>9 DEF Leave

LEMMA SweepQuiet ==
    ASSUME TypeOK, NEW j \in Jobs, Sweep(j)
    PROVE  TypeOK' /\ Quiet
<1> USE DEF Past, Body, Ending, JobState, Finished, Transcoding, Ripping, Scanning
<1>1. CASE SweepLoad(j)
  <2>1. TypeOK'
    BY <1>1 DEF SweepLoad, TypeOK, TablesTypeOK, Move, OnlyMoves, PCs, jobVars, driveVars, txVars
  <2>2. Quiet
    BY <1>1 DEF SweepLoad, TypeOK, TablesTypeOK, Move, OnlyMoves, Quiet, Stays, HasRow, jobVars, driveVars, txVars
  <2> QED
    BY <2>1, <2>2
<1>2. CASE SweepRelease(j)
  <2>1. CASE victim[j] = NoJob
    BY <1>2, <2>1, JobTableAssumption DEF SweepRelease, ReleaseDriveOf, TypeOK, TablesTypeOK, Move, OnlyMoves, PCs, jobVars, txVars, Quiet, Stays, HasRow
  <2>2. CASE victim[j] \in Jobs
    <3>1. /\ cur' \in [Drives -> Jobs \cup {NoJob}]
          /\ prev' \in [Drives -> Jobs \cup {NoJob}]
          /\ \A d \in Drives : cur'[d] \in {cur[d], NoJob}
      BY <1>2, <2>2, ReleaseTyped DEF SweepRelease, TypeOK
    <3> QED
      BY <1>2, <3>1 DEF SweepRelease, TypeOK, TablesTypeOK, Move, PCs, jobVars, txVars, Quiet, Stays, HasRow
  <2> QED
    BY <2>1, <2>2 DEF TypeOK
<1>3. CASE SweepEnd(j)
  BY <1>3, SilentQuiet DEF SweepEnd
<1>4. CASE \E k \in Jobs : SweepKeep(j, k)
  BY <1>4 DEF SweepKeep, Quiet, Stays, HasRow, TypeOK, TablesTypeOK, Move, OnlyMoves, PCs, jobVars, driveVars, txVars
<1>5. CASE \E k \in Jobs : SweepFail(j, k)
  <2>1. PICK k \in Jobs : SweepFail(j, k)
    BY <1>5
  <2>2. TypeOK'
    BY <2>1 DEF SweepFail, SetStatus, TypeOK, TablesTypeOK, Move, PCs, driveVars, txVars
  <2>3. Quiet
    BY <2>1 DEF SweepFail, SetStatus, TypeOK, TablesTypeOK, Move, Quiet, Stays, HasRow, NoRow, driveVars
  <2> QED
    BY <2>2, <2>3
<1>6. CASE \E k \in Jobs : SweepRaises(j, k)
  BY <1>6 DEF SweepRaises, Quiet, Stays, HasRow, TypeOK, TablesTypeOK, Move, OnlyMoves, PCs, jobVars, driveVars, txVars
<1> QED
  BY <1>1, <1>2, <1>3, <1>4, <1>5, <1>6 DEF Sweep

LEMMA PrepareQuiet ==
    ASSUME TypeOK, NEW j \in Jobs, Prepare(j) \/ PollOverride(j) \/ PollExpired(j) \/ Raise(j) \/ Die(j),
           ~Accept(j), ~Adopt(j), ~Assign(j)
    PROVE  TypeOK' /\ Quiet
<1> USE DEF Past, Body, Ending, JobState, Finished, Transcoding, Ripping, Scanning
<1>1. CASE NotReady(j)
  BY <1>1, VanishQuiet DEF NotReady, Setup
<1>2. CASE Refuse(j)
  BY <1>2, VanishQuiet DEF Refuse, Setup
<1>3. CASE AssignLost(j)
  BY <1>3, SilentQuiet DEF AssignLost
<1>4. CASE Sweep(j)
  BY <1>4, SweepQuiet
<1>5. CASE Identify(j)
  BY <1>5, CommitQuiet DEF Identify
<1>6. CASE NoWait(j)
  BY <1>6, SilentQuiet DEF NoWait
<1>7. CASE Wait(j)
  BY <1>7, CommitQuiet DEF Wait
<1>8. CASE PollCancelled(j)
  BY <1>8, SilentQuiet DEF PollCancelled
<1>9. CASE PollStarted(j)
  BY <1>9, SilentQuiet DEF PollStarted
<1>10. CASE PollOverride(j)
  BY <1>10, SilentQuiet DEF PollOverride
<1>11. CASE PollExpired(j)
  BY <1>11, SilentQuiet DEF PollExpired
<1>12. CASE Resume(j)
  <2>1. PICK from \in {"started", "expired"} : Move(j, from, "rip")
    BY <1>12 DEF Resume
  <2>2. manualStart' \in [Jobs -> BOOLEAN]
    BY <1>12 DEF Resume, TypeOK, TablesTypeOK
  <2>3. /\ status' = [status EXCEPT ![j] = "IDLE"]
        /\ HasRow(j)
        /\ UNCHANGED <<ejected, cur, prev, on, final, todo, victim, unsaid, tx, mail, api>>
    BY <1>12 DEF Resume, SetStatus, OnlyMoves, driveVars, txVars
  <2>4. TypeOK'
    BY <2>1, <2>2, <2>3 DEF TypeOK, TablesTypeOK, Move, PCs
  <2>5. Quiet
    BY <2>1, <2>3 DEF TypeOK, TablesTypeOK, Move, Quiet, Stays, HasRow, NoRow
  <2> QED
    BY <2>4, <2>5
<1>13. CASE Raise(j)
  BY <1>13, SilentQuiet DEF Raise
<1>14. CASE Die(j)
  BY <1>14, VanishQuiet DEF Die, Remains, Alive, Setup
<1> QED
  BY <1>1, <1>2, <1>3, <1>4, <1>5, <1>6, <1>7, <1>8, <1>9, <1>10, <1>11, <1>12, <1>13, <1>14 DEF Prepare

-----------------------------------------------------------------------------
(* The transcoder, the API and a restart move no ripper past the            *)
(* association either.                                                      *)

LEMMA TranscoderQuiet ==
    ASSUME TypeOK, NEW j \in Jobs, TxStart(j) \/ TxEnd(j) \/ Deliver(j) \/ Lose(j) \/ ForceComplete(j)
    PROVE  TypeOK' /\ Quiet
<1> USE DEF Past, Body, Ending, JobState, Finished, Transcoding, Ripping, Scanning
<1>1. CASE TxStart(j)
  <2>1. TypeOK'
    BY <1>1 DEF TxStart, TypeOK, TablesTypeOK, Move, OnlyMoves, PCs, jobVars, driveVars, txVars, ripVars, Callback
  <2>2. Quiet
    BY <1>1 DEF TxStart, TypeOK, TablesTypeOK, Move, OnlyMoves, Quiet, Stays, HasRow, jobVars, driveVars, txVars, ripVars, Callback
  <2> QED
    BY <2>1, <2>2
<1>2. CASE TxEnd(j)
  <2>1. TypeOK'
    BY <1>2 DEF TxEnd, TypeOK, TablesTypeOK, Move, OnlyMoves, PCs, jobVars, driveVars, txVars, ripVars, Callback
  <2>2. Quiet
    BY <1>2 DEF TxEnd, TypeOK, TablesTypeOK, Move, OnlyMoves, Quiet, Stays, HasRow, jobVars, driveVars, txVars, ripVars, Callback
  <2> QED
    BY <2>1, <2>2
<1>3. CASE Deliver(j)
  <2>1. Outcome(mail[j]) \in JobState
    BY DEF Outcome, JobState, Finished, Transcoding
  <2>2. /\ status' \in [Jobs -> JobState \cup {NoRow}]
        /\ \A k \in Jobs : HasRow(k)' => HasRow(k)
    BY <1>3, <2>1 DEF Deliver, SetStatus, TypeOK, TablesTypeOK, HasRow
  <2>3. mail' \in [Jobs -> Callback \cup {"none"}]
    BY <1>3 DEF Deliver, TypeOK
  <2>4. UNCHANGED <<manualStart, ejected, cur, prev, pc, on, final, todo, victim, sig, unsaid, tx, api>>
    BY <1>3 DEF Deliver, driveVars, ripVars
  <2>5. TypeOK'
    BY <2>2, <2>3, <2>4 DEF TypeOK, TablesTypeOK
  <2>6. Quiet
    BY <2>2, <2>4 DEF Quiet, Stays
  <2> QED
    BY <2>5, <2>6
<1>4. CASE Lose(j)
  <2>1. TypeOK'
    BY <1>4 DEF Lose, TypeOK, TablesTypeOK, Move, OnlyMoves, PCs, jobVars, driveVars, txVars, ripVars
  <2>2. Quiet
    BY <1>4 DEF Lose, TypeOK, TablesTypeOK, Move, OnlyMoves, Quiet, Stays, HasRow, jobVars, driveVars, txVars, ripVars
  <2> QED
    BY <2>1, <2>2
<1>5. CASE ForceComplete(j)
  <2>1. TypeOK'
    BY <1>5 DEF ForceComplete, TypeOK, TablesTypeOK, Move, OnlyMoves, PCs, jobVars, driveVars, txVars, ripVars, SetStatus, NoRow
  <2>2. Quiet
    BY <1>5 DEF ForceComplete, TypeOK, TablesTypeOK, Move, OnlyMoves, Quiet, Stays, HasRow, jobVars, driveVars, txVars, ripVars, SetStatus, NoRow
  <2> QED
    BY <2>1, <2>2
<1> QED
  BY <1>1, <1>2, <1>3, <1>4, <1>5 DEF TypeOK

LEMMA ServeTyped ==
    ASSUME TypeOK, NEW w \in Workers, NEW j \in Jobs,
           NEW c \in {"start", "cancel", "skip", "abandon", "delete"}, Serve(w, c, j)
    PROVE  api' \in [Workers -> Request]
BY DEF Serve, TypeOK, Request

LEMMA ServingTyped ==
    ASSUME TypeOK, NEW w \in Workers, NEW j \in Jobs, NEW c, Serving(w, c, j)
    PROVE  api' \in [Workers -> Request]
BY DEF Serving, TypeOK, Request

LEMMA AbandonCommitQuiet ==
    ASSUME TypeOK, NEW w \in Workers, NEW j \in Jobs, AbandonCommit(w, j)
    PROVE  TypeOK' /\ Quiet
<1>1. /\ cur' \in [Drives -> Jobs \cup {NoJob}]
      /\ prev' \in [Drives -> Jobs \cup {NoJob}]
      /\ ejected' \in [Jobs -> BOOLEAN]
      /\ \A d \in Drives : cur'[d] \in {cur[d], NoJob}
  BY EjectTyped DEF AbandonCommit, TypeOK
<1>2. api' \in [Workers -> Request]
  BY ServingTyped DEF AbandonCommit
<1>3. TypeOK'
  BY <1>1, <1>2 DEF AbandonCommit, SetStatus, TypeOK, TablesTypeOK, ripVars, txVars, JobState, Finished
<1>4. Quiet
  BY <1>1 DEF AbandonCommit, SetStatus, TypeOK, TablesTypeOK, Quiet, Stays, HasRow, NoRow, ripVars
<1> QED
  BY <1>3, <1>4

LEMMA ApiQuiet ==
    ASSUME TypeOK, NEW w \in Workers, Api(w)
    PROVE  TypeOK' /\ Quiet
<1> USE DEF Past, Body, Ending, JobState, Finished, Transcoding, Ripping, Scanning
<1>1. CASE \E j \in Jobs, c \in Calls : Ask(w, c, j)
  <2>1. PICK j \in Jobs, c \in {"start", "cancel", "skip"} : Ask(w, c, j)
    BY <1>1 DEF Ask
  <2>2. api' \in [Workers -> Request]
    BY <2>1, ServeTyped DEF Ask
  <2> QED
    BY <2>1, <2>2 DEF Ask, TypeOK, TablesTypeOK, SetStatus, HasRow, NoRow, Quiet, Stays, jobVars, driveVars, ripVars, txVars
<1>2. CASE \E j \in Jobs : Abandon(w, j)
  <2>1. PICK j \in Jobs : Abandon(w, j)
    BY <1>2
  <2>2. api' \in [Workers -> Request]
    BY <2>1, ServeTyped DEF Abandon
  <2> QED
    BY <2>1, <2>2 DEF Abandon, TypeOK, TablesTypeOK, SetStatus, HasRow, NoRow, Quiet, Stays, jobVars, driveVars, ripVars, txVars
<1>3. CASE \E j \in Jobs : Delete(w, j)
  <2>1. PICK j \in Jobs : Delete(w, j)
    BY <1>3
  <2>2. api' \in [Workers -> Request]
    BY <2>1, ServeTyped DEF Delete
  <2> QED
    BY <2>1, <2>2 DEF Delete, TypeOK, TablesTypeOK, SetStatus, HasRow, NoRow, Quiet, Stays, jobVars, driveVars, ripVars, txVars
<1>4. CASE \E j \in Jobs : StartCommit(w, j)
  <2>1. PICK j \in Jobs : StartCommit(w, j)
    BY <1>4
  <2>2. api' \in [Workers -> Request]
    BY <2>1, ServingTyped DEF StartCommit
  <2> QED
    BY <2>1, <2>2 DEF StartCommit, TypeOK, TablesTypeOK, SetStatus, HasRow, NoRow, Quiet, Stays, jobVars, driveVars, ripVars, txVars
<1>5. CASE \E j \in Jobs : CancelCommit(w, j)
  <2>1. PICK j \in Jobs : CancelCommit(w, j)
    BY <1>5
  <2>2. api' \in [Workers -> Request]
    BY <2>1, ServingTyped DEF CancelCommit
  <2> QED
    BY <2>1, <2>2 DEF CancelCommit, TypeOK, TablesTypeOK, SetStatus, HasRow, NoRow, Quiet, Stays, jobVars, driveVars, ripVars, txVars
<1>6. CASE \E j \in Jobs : SkipCommit(w, j)
  <2>1. PICK j \in Jobs : SkipCommit(w, j)
    BY <1>6
  <2>2. api' \in [Workers -> Request]
    BY <2>1, ServingTyped DEF SkipCommit
  <2> QED
    BY <2>1, <2>2 DEF SkipCommit, TypeOK, TablesTypeOK, SetStatus, HasRow, NoRow, Quiet, Stays, jobVars, driveVars, ripVars, txVars
<1>7. CASE \E j \in Jobs : AbandonCommit(w, j)
  BY <1>7, AbandonCommitQuiet
<1>8. CASE \E j \in Jobs : DeleteCommit(w, j)
  <2>1. PICK j \in Jobs : DeleteCommit(w, j)
    BY <1>8
  <2>2. api' \in [Workers -> Request]
    BY <2>1, ServingTyped DEF DeleteCommit
  <2> QED
    BY <2>1, <2>2 DEF DeleteCommit, TypeOK, TablesTypeOK, SetStatus, HasRow, NoRow, Quiet, Stays, jobVars, driveVars, ripVars, txVars
<1>9. CASE \E d \in Drives : Eject(w, d)
  <2>1. PICK d \in Drives : Eject(w, d)
    BY <1>9
  <2>2. api' \in [Workers -> Request]
    BY <2>1 DEF Eject, Request, TypeOK
  <2> QED
    BY <2>1, <2>2 DEF Eject, TypeOK, TablesTypeOK, SetStatus, HasRow, NoRow, Quiet, Stays, jobVars, driveVars, ripVars, txVars
<1>10. CASE \E d \in Drives : EjectReturn(w, d)
  <2>1. PICK d \in Drives : EjectReturn(w, d)
    BY <1>10
  <2>2. api' \in [Workers -> Request]
    BY <2>1 DEF EjectReturn, Request, TypeOK
  <2> QED
    BY <2>1, <2>2 DEF EjectReturn, TypeOK, TablesTypeOK, SetStatus, HasRow, NoRow, Quiet, Stays, jobVars, driveVars, ripVars, txVars
<1>11. CASE ApiFails(w)
  BY <1>11 DEF ApiFails, Request, TypeOK, TablesTypeOK, SetStatus, HasRow, NoRow, Quiet, Stays, jobVars, driveVars, ripVars, txVars
<1> QED
  BY <1>1, <1>2, <1>3, <1>4, <1>5, <1>6, <1>7, <1>8, <1>9, <1>10, <1>11 DEF Api, ApiCommit

LEMMA RestartQuiet ==
    ASSUME TypeOK, Restart
    PROVE  TypeOK' /\ Quiet
<1> DEFINE orphans == {j \in Jobs : HasRow(j) /\ status[j] \notin Finished \cup Transcoding}
<1>1. /\ status' = [j \in Jobs |-> IF j \in orphans THEN "FAILURE" ELSE status[j]]
      /\ cur'  = [d \in Drives |-> IF cur[d] \in orphans THEN NoJob ELSE cur[d]]
      /\ prev' = [d \in Drives |-> IF cur[d] \in orphans THEN cur[d] ELSE prev[d]]
  BY DEF Restart
<1>2. /\ status' \in [Jobs -> JobState \cup {NoRow}]
      /\ cur' \in [Drives -> Jobs \cup {NoJob}]
      /\ prev' \in [Drives -> Jobs \cup {NoJob}]
  BY <1>1 DEF TypeOK, TablesTypeOK, JobState, Finished
<1>3. TypeOK'
  BY <1>2 DEF Restart, TypeOK, TablesTypeOK, txVars, Remains, PCs, JobState, Request
<1>4. \A k \in Jobs : HasRow(k)' => HasRow(k)
  BY <1>1 DEF TypeOK, TablesTypeOK, HasRow
<1>5. \A k \in Jobs : Ends(k)
  BY DEF Restart, Remains, Ends, TypeOK, PCs, Alive, Setup, Body, Ending, Past
<1>6. \A d \in Drives : cur'[d] \in {cur[d], NoJob}
  BY <1>1
<1> QED
  BY <1>3, <1>4, <1>5, <1>6 DEF Quiet

-----------------------------------------------------------------------------
(* The four steps that take a lock, pass the duplicate check, create the    *)
(* row and take the drive.                                                  *)

LEMMA StartKeeps ==
    ASSUME DriveInv, NEW j \in Jobs, NEW d \in Drives, Start(j, d)
    PROVE  DriveInv'
<1> USE DEF DriveInv
<1>1. TypeOK'
  BY DEF Start, TypeOK, TablesTypeOK, PCs, Setup, jobVars, driveVars, txVars
<1>2. \A k \in Jobs \ {j} : pc'[k] = pc[k] /\ on'[k] = on[k]
  BY DEF Start, TypeOK
<1>3. pc[j] = "off" /\ pc'[j] = "setup" /\ on'[j] = d
  BY DEF Start, TypeOK
<1>4. LockHeld' /\ OnADrive'
  BY <1>2, <1>3 DEF Start, LockFree, LockHeld, OnADrive, Alive
<1>5. NotYetNamed'
  BY <1>2, <1>3 DEF Start, NotYetNamed, driveVars, Setup
<1>6. DriveExclusive'
  BY <1>2, <1>3 DEF Start, DriveExclusive, Processing, HasRow, jobVars, driveVars, Body, Ending
<1> QED
  BY <1>1, <1>4, <1>5, <1>6

LEMMA AcceptKeeps ==
    ASSUME DriveInv, NEW j \in Jobs, Accept(j)
    PROVE  DriveInv'
<1> USE DEF DriveInv, Accept, Silent, Move, OnlyMoves
<1>1. TypeOK'
  BY DEF TypeOK, TablesTypeOK, PCs, Setup, jobVars, driveVars, txVars
<1>2. \A k \in Jobs \ {j} : pc'[k] = pc[k]
  BY DEF TypeOK
<1>3. pc[j] = "setup" /\ pc'[j] = "adopt" /\ on' = on
  BY DEF TypeOK
<1>4. LockHeld' /\ OnADrive'
  BY <1>2, <1>3 DEF LockHeld, OnADrive, Alive
<1>5. NotYetNamed'
  BY <1>2, <1>3 DEF NotYetNamed, driveVars, Setup
<1>6. DriveExclusive'
  BY <1>2, <1>3 DEF DriveExclusive, Processing, HasRow, jobVars, driveVars, Body, Ending
<1> QED
  BY <1>1, <1>4, <1>5, <1>6

(* A drive that named the job before its row existed would count as busy    *)
(* from now on: NotYetNamed excludes it.                                    *)
LEMMA AdoptKeeps ==
    ASSUME DriveInv, NEW j \in Jobs, Adopt(j)
    PROVE  DriveInv'
<1> USE DEF DriveInv, Adopt, Move, OnlyMoves, SetStatus
<1>1. TypeOK'
  BY DEF TypeOK, TablesTypeOK, PCs, Body, JobState, Scanning, driveVars, txVars
<1>2. \A k \in Jobs \ {j} : pc'[k] = pc[k]
  BY DEF TypeOK
<1>3. pc[j] = "adopt" /\ pc'[j] = "assign" /\ on' = on /\ cur' = cur
  BY DEF TypeOK, driveVars
<1>4. LockHeld' /\ OnADrive'
  BY <1>2, <1>3 DEF LockHeld, OnADrive, Alive
<1>5. NotYetNamed'
  BY <1>2, <1>3 DEF NotYetNamed, Setup
<1>6. \A d \in Drives : cur[d] # j
  BY <1>3 DEF NotYetNamed, Setup
<1>7. \A d \in Drives : Processing(d)' <=> Processing(d)
  BY <1>3, <1>6 DEF Processing, HasRow, TypeOK, TablesTypeOK
<1>8. DriveExclusive'
  BY <1>2, <1>3, <1>7 DEF DriveExclusive, OnADrive, Alive, Body, Ending
<1> QED
  BY <1>1, <1>4, <1>5, <1>8

(* The association overwrites: nobody else is on the drive, so nobody else  *)
(* is robbed of it.                                                         *)
LEMMA AssignKeeps ==
    ASSUME DriveInv, NEW j \in Jobs, Assign(j)
    PROVE  DriveInv'
<1> USE DEF DriveInv, Assign, Move, OnlyMoves, NewJob
<1>1. TypeOK'
  BY DEF TypeOK, TablesTypeOK, PCs, Body, jobVars, txVars
<1>2. \A k \in Jobs \ {j} : pc'[k] = pc[k]
  BY DEF TypeOK
<1>3. pc[j] = "assign" /\ pc'[j] = "sweep" /\ on' = on /\ status' = status
  BY DEF TypeOK, jobVars
<1>4. on[j] \in Drives /\ Alive(j)
  BY <1>3 DEF OnADrive, Alive
<1>5. LockHeld' /\ OnADrive'
  BY <1>2, <1>3 DEF LockHeld, OnADrive, Alive
<1>6. /\ cur'[on[j]] = j
      /\ \A d \in Drives \ {on[j]} : cur'[d] = cur[d]
  BY <1>4 DEF TypeOK, TablesTypeOK
<1>7. NotYetNamed'
  BY <1>2, <1>3, <1>6 DEF NotYetNamed, Setup
<1>8. \A k \in Jobs \ {j} : Alive(k) => on[k] \in Drives \ {on[j]}
  BY <1>4 DEF LockHeld, OnADrive
<1>9. \A d \in Drives \ {on[j]} : Processing(d)' <=> Processing(d)
  BY <1>3, <1>6 DEF Processing, HasRow
<1>10. DriveExclusive'
  BY <1>2, <1>3, <1>4, <1>6, <1>8, <1>9 DEF DriveExclusive, Alive, Body, Ending
<1> QED
  BY <1>1, <1>5, <1>7, <1>10

-----------------------------------------------------------------------------
LEMMA DriveInit == Init => DriveInv
<1> SUFFICES ASSUME Init PROVE DriveInv
  OBVIOUS
<1> USE DEF Init, TablesInit
<1>1. TablesTypeOK
  BY DEF TablesTypeOK
<1>2. Idle \in Request
  BY DEF Request
<1>3. "off" \in PCs /\ "IDLE" \in JobState
  BY DEF PCs, JobState
<1>4. TypeOK
  BY <1>1, <1>2, <1>3 DEF TypeOK
<1>5. \A j \in Jobs : ~Alive(j) /\ pc[j] = "off"
  BY DEF Alive
<1>6. LockHeld /\ OnADrive
  BY <1>5 DEF LockHeld, OnADrive
<1>7. NotYetNamed
  BY JobTableAssumption DEF NotYetNamed
<1>8. DriveExclusive
  BY <1>5 DEF DriveExclusive, Body, Ending
<1> QED
  BY <1>4, <1>6, <1>7, <1>8 DEF DriveInv

(* All the other steps are quiet. *)
TakesDrive(j) == (\E d \in Drives : Start(j, d)) \/ Accept(j) \/ Adopt(j) \/ Assign(j)

LEMMA OtherStepsQuiet ==
    ASSUME TypeOK, [Next]_vars, \A j \in Jobs : ~TakesDrive(j)
    PROVE  TypeOK' /\ Quiet
<1>1. ASSUME NEW j \in Jobs,
             Prepare(j) \/ PollOverride(j) \/ PollExpired(j) \/ Raise(j) \/ Die(j)
      PROVE  TypeOK' /\ Quiet
  BY <1>1, PrepareQuiet DEF TakesDrive
<1>2. ASSUME NEW j \in Jobs, Rip(j) \/ Handoff(j) \/ Leave(j)
      PROVE  TypeOK' /\ Quiet
  BY <1>2, RipQuiet, HandoffQuiet, LeaveQuiet
<1>3. ASSUME NEW j \in Jobs,
             TxStart(j) \/ TxEnd(j) \/ Deliver(j) \/ Lose(j) \/ ForceComplete(j)
      PROVE  TypeOK' /\ Quiet
  BY <1>3, TranscoderQuiet
<1>4. ASSUME NEW w \in Workers, Api(w) PROVE TypeOK' /\ Quiet
  BY <1>4, ApiQuiet
<1>5. CASE Restart
  BY <1>5, RestartQuiet
<1>6. CASE UNCHANGED vars
  <2>1. TypeOK'
    BY <1>6 DEF vars, jobVars, driveVars, ripVars, txVars, TypeOK, TablesTypeOK
  <2>2. Quiet
    BY <1>6 DEF vars, jobVars, driveVars, ripVars, txVars, Quiet, Stays, HasRow
  <2> QED
    BY <2>1, <2>2
<1> QED
  BY <1>1, <1>2, <1>3, <1>4, <1>5, <1>6 DEF Next, Ripper, TakesDrive

LEMMA DriveStep == DriveInv /\ [Next]_vars => DriveInv'
<1> SUFFICES ASSUME DriveInv, [Next]_vars PROVE DriveInv'
  OBVIOUS
<1>1. CASE \E j \in Jobs : TakesDrive(j)
  BY <1>1, StartKeeps, AcceptKeeps, AdoptKeeps, AssignKeeps DEF TakesDrive
<1>2. CASE \A j \in Jobs : ~TakesDrive(j)
  BY <1>2, OtherStepsQuiet, QuietKeeps DEF DriveInv
<1> QED
  BY <1>1, <1>2

-----------------------------------------------------------------------------
(* Every variable stays within its type: in particular no status outside    *)
(* JobState is ever written, and `final` never holds the status of a row    *)
(* that is gone.                                                            *)
THEOREM TypeCorrect == Spec => []TypeOK
<1>1. DriveInv => TypeOK
  BY DEF DriveInv
<1> QED
  BY <1>1, DriveInit, DriveStep, PTL DEF Spec

(* A ripper works on a drive that names no other ripper's job, whatever     *)
(* crashes, restarts, sweeps and API calls come between.                    *)
THEOREM DrivesExclusive == Spec => []DriveExclusive
<1>1. DriveInv => DriveExclusive
  BY DEF DriveInv
<1> QED
  BY <1>1, DriveInit, DriveStep, PTL DEF Spec

-----------------------------------------------------------------------------
(* The refinement of DriveAllocation. A drive's owner is the job its record *)
(* names, as long as that job has a row; a job has had its turn once its    *)
(* ripper is past the association, whether the association was saved or     *)
(* not. Assign is Acquire, every quiet step is a Release.                   *)

LEMMA AllocationInit == Init => Allocation!Init
BY JobTableAssumption DEF Init, TablesInit, Allocation!Init, Owner, Served, Processing, Setup

LEMMA QuietReleases ==
    ASSUME DriveInv, Quiet, TypeOK'
    PROVE  Allocation!Next
<1> DEFINE S == {d \in Drives : Owner'[d] = NoJob}
<1>1. \A d \in Drives : Processing(d)' => Processing(d) /\ cur'[d] = cur[d]
  BY DEF Quiet, Processing, TypeOK, TablesTypeOK, DriveInv
<1>2. \A d \in Drives : Owner'[d] \in {Owner[d], NoJob}
  BY <1>1 DEF Owner
<1>3. Owner' = [d \in Drives |-> IF d \in S THEN NoJob ELSE Owner[d]]
  BY <1>2 DEF Owner
<1>4. Served \subseteq Served'
  BY DEF Served, Quiet, Stays, Ends, Past, Setup, Body, Ending
<1>5. Served' = Served \cup Served' /\ Served' \in SUBSET Jobs
  BY <1>4 DEF Served
<1>6. Allocation!Release(S, Served')
  BY <1>3, <1>5 DEF Allocation!Release
<1> QED
  BY <1>5, <1>6 DEF Allocation!Next

(* DriveExclusive gives the guard of Acquire: the drive is free.            *)
LEMMA AssignAcquires ==
    ASSUME DriveInv, NEW j \in Jobs, Assign(j)
    PROVE  Allocation!Next
<1> USE DEF DriveInv, Assign, Move, OnlyMoves, NewJob
<1>1. \A k \in Jobs \ {j} : pc'[k] = pc[k]
  BY DEF TypeOK
<1>2. pc[j] = "assign" /\ pc'[j] = "sweep" /\ status' = status /\ HasRow(j)
  BY DEF TypeOK, jobVars
<1>3. on[j] \in Drives
  BY <1>2 DEF OnADrive, Alive
<1>4. cur' = [cur EXCEPT ![on[j]] = j]
  OBVIOUS
<1>5. Owner[on[j]] = NoJob
  BY <1>2, <1>3 DEF DriveExclusive, Owner
<1>6. Owner' = [Owner EXCEPT ![on[j]] = j]
  BY <1>2, <1>3, <1>4, JobTableAssumption DEF Owner, Processing, HasRow, TypeOK, TablesTypeOK
<1>7. j \notin Served /\ Served' = Served \cup {j}
  BY <1>1, <1>2 DEF Served, Setup
<1>8. Allocation!Acquire(on[j], j)
  BY <1>5, <1>6, <1>7 DEF Allocation!Acquire
<1> QED
  BY <1>3, <1>8 DEF Allocation!Next

(* Taking the lock, passing the check and creating the row are invisible:   *)
(* no drive names the job yet.                                              *)
LEMMA EarlyStutters ==
    ASSUME DriveInv, NEW j \in Jobs,
           (\E d \in Drives : Start(j, d)) \/ Accept(j) \/ Adopt(j)
    PROVE  UNCHANGED <<Owner, Served>>
<1> USE DEF DriveInv
<1>1. /\ pc[j] \in Setup \cup {"off"} /\ pc'[j] \in Setup \cup {"assign"}
      /\ \A k \in Jobs \ {j} : pc'[k] = pc[k]
      /\ cur' = cur
  BY DEF Start, Accept, Adopt, Silent, Move, TypeOK, Setup, driveVars
<1>2. \A k \in Jobs \ {j} : status'[k] = status[k]
  BY DEF Start, Accept, Adopt, Silent, SetStatus, TypeOK, TablesTypeOK, jobVars
<1>3. \A d \in Drives : cur[d] # j
  BY <1>1 DEF NotYetNamed
<1>4. \A d \in Drives : Processing(d)' <=> Processing(d)
  BY <1>1, <1>2, <1>3 DEF Processing, HasRow, TypeOK, TablesTypeOK
<1>5. UNCHANGED Owner
  BY <1>1, <1>4 DEF Owner
<1>6. UNCHANGED Served
  BY <1>1 DEF Served, Setup
<1> QED
  BY <1>5, <1>6

LEMMA AllocationStep ==
    DriveInv /\ [Next]_vars => [Allocation!Next]_<<Owner, Served>>
<1> SUFFICES ASSUME DriveInv, [Next]_vars PROVE [Allocation!Next]_<<Owner, Served>>
  OBVIOUS
<1>1. CASE \E j \in Jobs : TakesDrive(j)
  BY <1>1, AssignAcquires, EarlyStutters DEF TakesDrive
<1>2. CASE \A j \in Jobs : ~TakesDrive(j)
  BY <1>2, OtherStepsQuiet, QuietReleases DEF DriveInv
<1> QED
  BY <1>1, <1>2

(* A drive has at most one job, changes hands only by being released first, *)
(* and is never taken twice for one job: the life of a disc job implements  *)
(* the allocation the rest of ARM relies on.                                *)
THEOREM DrivesAllocated == Spec => AllocatesDrives
<1>1. Init => Allocation!Init
  BY AllocationInit
<1>2. DriveInv /\ [Next]_vars => [Allocation!Next]_Allocation!vars
  BY AllocationStep DEF Allocation!vars
<1> QED
  BY <1>1, <1>2, DriveInit, DriveStep, PTL DEF Spec, AllocatesDrives, Allocation!Spec

-----------------------------------------------------------------------------
(* How a job ends. None of these properties is inductive by itself. What     *)
(* they need to know is listed first, one definition per theorem.           *)

(* HandoffAgrees: the ripper writes TRANSCODE_WAITING after an accepted     *)
(* webhook, the API writes what a callback says.                            *)
HandedOver ==
    /\ HandoffAgrees
    /\ \A j \in Jobs : pc[j] = "posted" \/ mail[j] # "none" => tx[j] # "idle"

(* DoneReleased: `ejected` is what stops the last eject, so it must not be  *)
(* set on a job that has a drive or has yet to get one.                     *)
EjectedOnce ==
    \A j \in Jobs :
        /\ ejected[j] => ~HoldsDrive(j)
        /\ pc[j] \in Setup \cup {"off", "assign"} => ~ejected[j]

(* DoneSettled: `finally` writes back the status it saved, so what counts   *)
(* is the status on the way into it.                                        *)
SettledAt == {"ready", "rip", "handed", "exit", "done"}

Settling ==
    \A j \in Jobs :
        /\ pc[j] \in SettledAt => status[j] \in Settled \/ j \in unsaid
        /\ pc[j] \in {"eject", "close"} => final[j] \in Settled \/ j \in unsaid

(* HolderAlive: the SIGTERM of an abandon call may end the ripper that has  *)
(* the drive, so somebody must still be about to release it. A ripper       *)
(* stopped right at the association outlives the signal.                    *)
Abandoned(j) == \E w \in Workers : api[w] = [call |-> "abandon", job |-> j]

Watched ==
    ~Faults =>
        \A j \in Jobs :
            HoldsDrive(j) /\ HasRow(j) =>
                /\ Alive(j) \/ Abandoned(j)
                /\ sig[j] # "none" => Abandoned(j) \/ (pc[j] = "sweep" /\ sig[j] = "due")

OutcomeInv ==
    /\ HandedOver
    /\ EjectedOnce
    /\ DoneReleased
    /\ Settling
    /\ Watched

-----------------------------------------------------------------------------
(* The building blocks of the ripper's steps keep the invariant. *)

LEMMA CommitKeeps ==
    ASSUME DriveInv, OutcomeInv, NEW j \in Jobs, NEW from \in Body \cup Ending,
           NEW to \in Past, NEW s \in JobState, Commit(j, from, to, s),
           s \in Transcoding => tx[j] # "idle",
           to \in SettledAt => s \in Settled,
           to \notin {"posted", "eject"}, to = "close" => from = "eject"
    PROVE  OutcomeInv'
<1> USE DEF OutcomeInv, DriveInv, TypeOK, TablesTypeOK
<1>1. /\ pc' = [pc EXCEPT ![j] = to] /\ status' = [status EXCEPT ![j] = s]
      /\ sig' = [sig EXCEPT ![j] = IF @ = "sent" THEN "due" ELSE @]
      /\ pc[j] = from /\ sig[j] # "due" /\ HasRow(j)
      /\ UNCHANGED <<final, unsaid, tx, mail, ejected, cur, api>>
  BY DEF Commit, Move, OnlyMoves, SetStatus, driveVars, txVars
<1>2. HandedOver'
  BY <1>1 DEF HandedOver, HandoffAgrees
<1>3. EjectedOnce' /\ DoneReleased'
  BY <1>1 DEF EjectedOnce, DoneReleased, HoldsDrive, Past, Body, Ending, Setup
<1>4. Settling'
  BY <1>1 DEF Settling, SettledAt
<1>5. Watched'
  BY <1>1 DEF Watched, Abandoned, HoldsDrive, HasRow, Alive, Past, Body, Ending
<1> QED
  BY <1>2, <1>3, <1>4, <1>5

LEMMA SilentKeeps ==
    ASSUME DriveInv, OutcomeInv, NEW j \in Jobs, NEW from \in Body \cup Ending,
           NEW to \in Past, Silent(j, from, to),
           to \in SettledAt => from \in SettledAt,
           to \notin {"posted", "eject", "close"}
    PROVE  OutcomeInv'
<1> USE DEF OutcomeInv, DriveInv, TypeOK, TablesTypeOK
<1>1. /\ pc' = [pc EXCEPT ![j] = to]
      /\ sig' = [sig EXCEPT ![j] = IF @ = "sent" THEN "due" ELSE @]
      /\ pc[j] = from /\ sig[j] # "due"
      /\ UNCHANGED <<status, final, unsaid, tx, mail, ejected, cur, api>>
  BY DEF Silent, Move, OnlyMoves, jobVars, driveVars, txVars
<1>2. HandedOver'
  BY <1>1 DEF HandedOver, HandoffAgrees
<1>3. EjectedOnce' /\ DoneReleased'
  BY <1>1 DEF EjectedOnce, DoneReleased, HoldsDrive, Past, Body, Ending, Setup
<1>4. Settling'
  BY <1>1 DEF Settling, SettledAt
<1>5. Watched'
  BY <1>1 DEF Watched, Abandoned, HoldsDrive, HasRow, Alive, Past, Body, Ending
<1> QED
  BY <1>2, <1>3, <1>4, <1>5

LEMMA VanishKeeps ==
    ASSUME DriveInv, OutcomeInv, NEW j \in Jobs, NEW to \in {"off", "dead"}, Vanish(j, to),
           to = "off" => pc[j] \in Setup \cup {"off"},
           to = "dead" => Faults \/ ~HasRow(j) \/ ~HoldsDrive(j) \/ Abandoned(j)
    PROVE  OutcomeInv'
<1> USE DEF OutcomeInv, DriveInv, TypeOK, TablesTypeOK
<1>1. /\ pc' = [pc EXCEPT ![j] = to]
      /\ sig' = [sig EXCEPT ![j] = "none"]
      /\ final' = [final EXCEPT ![j] = "IDLE"]
      /\ unsaid' = unsaid \ {j}
      /\ UNCHANGED <<status, tx, mail, ejected, cur, api>>
  BY DEF Vanish, Exit, jobVars, driveVars, txVars
<1>2. HandedOver'
  BY <1>1 DEF HandedOver, HandoffAgrees, Transcoding
<1>3. EjectedOnce' /\ DoneReleased'
  BY <1>1 DEF EjectedOnce, DoneReleased, HoldsDrive, Setup
<1>4. Settling'
  BY <1>1 DEF Settling, SettledAt
<1>5. to = "off" => ~HoldsDrive(j)
  BY DEF NotYetNamed, HoldsDrive
<1>6. Watched'
  BY <1>1, <1>5 DEF Watched, Abandoned, HoldsDrive, HasRow, Alive
<1> QED
  BY <1>2, <1>3, <1>4, <1>6

(* Job.eject leaves no drive behind, and marks the job only then.           *)
LEMMA EjectLeaves ==
    ASSUME DriveInv, OutcomeInv, NEW j \in Jobs, EjectJob(j)
    PROVE  /\ ~HoldsDrive(j)'
           /\ \A k \in Jobs : HoldsDrive(k)' => HoldsDrive(k)
           /\ \A k \in Jobs : ejected'[k] => ejected[k] \/ (HoldsDrive(k) /\ ~HoldsDrive(k)')
<1> USE DEF OutcomeInv, DriveInv, TypeOK, TablesTypeOK
<1>1. CASE ejected[j] \/ ~HoldsDrive(j)
  BY <1>1 DEF EjectJob, EjectedOnce, HoldsDrive
<1>2. CASE ~(ejected[j] \/ ~HoldsDrive(j))
  <2>1. ReleaseDriveOf(j) /\ ejected' = [ejected EXCEPT ![j] = AutoEject]
    BY <1>2 DEF EjectJob
  <2>2. ~HoldsDrive(j)' /\ \A k \in Jobs : HoldsDrive(k)' => HoldsDrive(k)
    BY <2>1, JobTableAssumption DEF ReleaseDriveOf, HoldsDrive
  <2> QED
    BY <1>2, <2>1, <2>2
<1> QED
  BY <1>1, <1>2

-----------------------------------------------------------------------------
(* The rip: the statuses it commits say nothing of the transcoder.          *)

LEMMA RipKeeps ==
    ASSUME DriveInv, OutcomeInv, NEW j \in Jobs, Rip(j)
    PROVE  OutcomeInv'
<1> USE DEF Past, Body, Ending, JobState, Finished, Transcoding, Ripping, Settled, SettledAt
<1>1. CASE RipVideo(j)
  BY <1>1, CommitKeeps DEF RipVideo
<1>2. CASE RipMusic(j)
  BY <1>2, CommitKeeps DEF RipMusic
<1>3. CASE RipDataFailed(j)
  BY <1>3, CommitKeeps DEF RipDataFailed
<1>4. CASE AudioFailed(j)
  BY <1>4, CommitKeeps DEF AudioFailed
<1>5. CASE AudioBad(j)
  BY <1>5, CommitKeeps DEF AudioBad
<1>6. CASE AudioDone(j)
  BY <1>6, CommitKeeps DEF AudioDone
<1>7. CASE AudioGood(j)
  BY <1>7, CommitKeeps DEF AudioGood
<1>8. CASE Throttle(j)
  BY <1>8, CommitKeeps DEF Throttle
<1>9. CASE Scan(j)
  BY <1>9, CommitKeeps DEF Scan
<1>10. CASE Scanned(j)
  BY <1>10, CommitKeeps DEF Scanned
<1>11. CASE ScanFailed(j)
  BY <1>11, CommitKeeps DEF ScanFailed
<1>12. CASE Unthrottle(j)
  BY <1>12, CommitKeeps DEF Unthrottle
<1>13. CASE Unwind(j)
  BY <1>13, CommitKeeps DEF Unwind
<1>14. CASE AskUser(j)
  BY <1>14, CommitKeeps DEF AskUser
<1>15. CASE UserReady(j)
  BY <1>15, CommitKeeps DEF UserReady
<1>16. CASE RipData(j)
  BY <1>16, SilentKeeps DEF RipData
<1>17. CASE NoScan(j)
  BY <1>17, SilentKeeps DEF NoScan
<1>18. CASE DriveGone(j)
  BY <1>18, SilentKeeps DEF DriveGone
<1>19. CASE AutoRip(j)
  BY <1>19, SilentKeeps DEF AutoRip
<1>20. CASE UserTimeout(j)
  BY <1>20, SilentKeeps DEF UserTimeout
<1>21. CASE RipDone(j)
  <2> USE DEF OutcomeInv, DriveInv, TypeOK, TablesTypeOK
  <2>1. /\ pc[j] = "ripping" /\ pc' = [pc EXCEPT ![j] = "ripped"]
        /\ sig' = [sig EXCEPT ![j] = IF @ = "sent" THEN "due" ELSE @]
        /\ UNCHANGED <<status, final, unsaid, tx, mail, api>>
    BY <1>21 DEF RipDone, Move, OnlyMoves, txVars
  <2>2. /\ ~HoldsDrive(j)'
        /\ \A k \in Jobs : HoldsDrive(k)' => HoldsDrive(k)
        /\ \A k \in Jobs : ejected'[k] => ejected[k] \/ (HoldsDrive(k) /\ ~HoldsDrive(k)')
    BY <1>21, EjectLeaves DEF RipDone
  <2>3. HandedOver'
    BY <2>1 DEF HandedOver, HandoffAgrees
  <2>4. EjectedOnce' /\ DoneReleased'
    BY <2>1, <2>2 DEF EjectedOnce, DoneReleased, Setup, NotYetNamed, HoldsDrive
  <2>5. Settling'
    BY <2>1 DEF Settling
  <2>6. Watched'
    BY <2>1, <2>2 DEF Watched, Abandoned, HasRow, Alive
  <2> QED
    BY <2>3, <2>4, <2>5, <2>6
<1> QED
  BY <1>1, <1>2, <1>3, <1>4, <1>5, <1>6, <1>7, <1>8, <1>9, <1>10, <1>11, <1>12, <1>13, <1>14, <1>15, <1>16, <1>17, <1>18, <1>19, <1>20, <1>21 DEF Rip

-----------------------------------------------------------------------------
(* The webhook is what gives the transcoder the job; TRANSCODE_WAITING      *)
(* follows an accepted one only.                                            *)

LEMMA WebhookKeeps ==
    ASSUME DriveInv, OutcomeInv, NEW j \in Jobs, NEW reaches \in BOOLEAN,
           NEW to \in {"posted", "rejected"}, Webhook(j, reaches, to),
           to = "posted" => reaches
    PROVE  OutcomeInv'
<1> USE DEF OutcomeInv, DriveInv, TypeOK, TablesTypeOK
<1>1. /\ pc[j] = "handoff" /\ pc' = [pc EXCEPT ![j] = to] /\ sig[j] # "due"
      /\ sig' = [sig EXCEPT ![j] = IF @ = "sent" THEN "due" ELSE @]
      /\ tx' = [tx EXCEPT ![j] = IF reaches THEN "queued" ELSE @]
      /\ UNCHANGED <<status, final, unsaid, mail, ejected, cur, api>>
  BY DEF Webhook, Move, OnlyMoves, jobVars, driveVars
<1>2. HandedOver'
  BY <1>1 DEF HandedOver, HandoffAgrees
<1>3. EjectedOnce' /\ DoneReleased'
  BY <1>1 DEF EjectedOnce, DoneReleased, HoldsDrive, Setup
<1>4. Settling'
  BY <1>1 DEF Settling, SettledAt
<1>5. Watched'
  BY <1>1 DEF Watched, Abandoned, HoldsDrive, HasRow, Alive
<1> QED
  BY <1>2, <1>3, <1>4, <1>5

LEMMA HandoffKeeps ==
    ASSUME DriveInv, OutcomeInv, NEW j \in Jobs, Handoff(j)
    PROVE  OutcomeInv'
<1> USE DEF Past, Body, Ending, JobState, Finished, Transcoding, Ripping, Settled, SettledAt
<1>1. CASE EmptyRip(j)
  BY <1>1, CommitKeeps DEF EmptyRip
<1>2. CASE HandoffLocal(j)
  BY <1>2, CommitKeeps DEF HandoffLocal
<1>3. CASE HandoffCopy(j)
  BY <1>3, CommitKeeps DEF HandoffCopy
<1>4. CASE HandoffInPlace(j)
  BY <1>4, SilentKeeps DEF HandoffInPlace
<1>5. CASE WebhookAccepted(j)
  BY <1>5, WebhookKeeps DEF WebhookAccepted
<1>6. CASE WebhookFailed(j)
  BY <1>6, WebhookKeeps DEF WebhookFailed
<1>7. CASE WebhookUnheard(j)
  BY <1>7, WebhookKeeps DEF WebhookUnheard
<1>8. CASE Posted(j)
  <2>1. tx[j] # "idle"
    BY <1>8 DEF Posted, Commit, Move, OutcomeInv, HandedOver
  <2> QED
    BY <1>8, <2>1, CommitKeeps DEF Posted
<1>9. CASE Rejected(j)
  BY <1>9, CommitKeeps DEF Rejected
<1> QED
  BY <1>1, <1>2, <1>3, <1>4, <1>5, <1>6, <1>7, <1>8, <1>9 DEF Handoff

-----------------------------------------------------------------------------
(* The end of main.py. *)

LEMMA CloseKeeps ==
    ASSUME DriveInv, OutcomeInv, NEW j \in Jobs, Close(j)
    PROVE  OutcomeInv'
<1> USE DEF OutcomeInv, DriveInv, TypeOK, TablesTypeOK
<1>1. /\ pc[j] = "close" /\ pc' = [pc EXCEPT ![j] = "done"]
      /\ sig' = [sig EXCEPT ![j] = "none"]
      /\ final' = [final EXCEPT ![j] = "IDLE"]
      /\ status' = [status EXCEPT ![j] = final[j]]
      /\ UNCHANGED <<unsaid, tx, mail, api>>
  BY DEF Close, Exit, SetStatus, txVars
<1>2. /\ ~HoldsDrive(j)'
      /\ \A k \in Jobs : HoldsDrive(k)' => HoldsDrive(k)
      /\ \A k \in Jobs : ejected'[k] => ejected[k] \/ (HoldsDrive(k) /\ ~HoldsDrive(k)')
  BY EjectLeaves DEF Close
<1>3. HandedOver'
  BY <1>1 DEF HandedOver, HandoffAgrees, Transcoding
<1>4. EjectedOnce' /\ DoneReleased'
  BY <1>1, <1>2 DEF EjectedOnce, DoneReleased, Setup, NotYetNamed, HoldsDrive
<1>5. Settling'
  BY <1>1 DEF Settling, SettledAt
<1>6. Watched'
  BY <1>1, <1>2 DEF Watched, Abandoned, HasRow, Alive, Close
<1> QED
  BY <1>3, <1>4, <1>5, <1>6

LEMMA InterruptedKeeps ==
    ASSUME DriveInv, OutcomeInv, NEW j \in Jobs, Interrupted(j)
    PROVE  OutcomeInv'
<1> USE DEF OutcomeInv, DriveInv, TypeOK, TablesTypeOK
<1>1. PICK to \in Body \cup {"exit"} :
          /\ Lands(pc[j], to) /\ pc' = [pc EXCEPT ![j] = to]
          /\ unsaid' = IF to = "exit" THEN unsaid \cup {j} ELSE unsaid
  BY DEF Interrupted
<1>2. /\ sig[j] # "none" /\ sig' = [sig EXCEPT ![j] = "none"]
      /\ UNCHANGED <<status, final, tx, mail, ejected, cur, api>>
  BY DEF Interrupted, jobVars, driveVars, txVars
<1>3. /\ to # "posted" /\ (to = "assign" => pc[j] = "assign") /\ to \in Body \cup Ending
      /\ to \in SettledAt \cup {"eject", "close"} => to = "exit" \/ to = pc[j]
  BY <1>1 DEF Lands, Ending, SettledAt
<1>4. HandedOver'
  BY <1>1, <1>2, <1>3 DEF HandedOver, HandoffAgrees
<1>5. EjectedOnce' /\ DoneReleased'
  BY <1>1, <1>2, <1>3 DEF EjectedOnce, DoneReleased, HoldsDrive, Setup, Body, Ending
<1>6. Settling'
  BY <1>1, <1>2, <1>3 DEF Settling
<1>7. Watched'
  BY <1>1, <1>2, <1>3 DEF Watched, Abandoned, HoldsDrive, HasRow, Alive, Body, Ending
<1> QED
  BY <1>4, <1>5, <1>6, <1>7

LEMMA LeaveKeeps ==
    ASSUME DriveInv, OutcomeInv, NEW j \in Jobs, Leave(j)
    PROVE  OutcomeInv'
<1> USE DEF Past, Body, Ending, JobState, Finished, Transcoding, Ripping, Settled, SettledAt
<1>1. CASE Failing(j)
  BY <1>1, CommitKeeps DEF Failing
<1>2. CASE MainEnds(j)
  BY <1>2, SilentKeeps DEF MainEnds, Silent
<1>3. CASE ReadFinal(j)
  <2> USE DEF OutcomeInv, DriveInv, TypeOK, TablesTypeOK
  <2>1. /\ pc[j] = "exit" /\ pc' = [pc EXCEPT ![j] = "eject"] /\ HasRow(j)
        /\ sig[j] # "due" /\ sig' = [sig EXCEPT ![j] = IF @ = "sent" THEN "due" ELSE @]
        /\ final' = [final EXCEPT ![j] = status[j]]
        /\ UNCHANGED <<status, unsaid, tx, mail, ejected, cur, api>>
    BY <1>3 DEF ReadFinal, Move, jobVars, driveVars, txVars
  <2>2. HandedOver'
    BY <2>1 DEF HandedOver, HandoffAgrees
  <2>3. EjectedOnce' /\ DoneReleased'
    BY <2>1 DEF EjectedOnce, DoneReleased, HoldsDrive, Setup
  <2>4. Settling'
    BY <2>1 DEF Settling, SettledAt
  <2>5. Watched'
    BY <2>1 DEF Watched, Abandoned, HoldsDrive, HasRow, Alive
  <2> QED
    BY <2>2, <2>3, <2>4, <2>5
<1>4. CASE Ejecting(j)
  BY <1>4, CommitKeeps DEF Ejecting
<1>5. CASE Close(j)
  BY <1>5, CloseKeeps
<1>6. CASE Interrupted(j)
  BY <1>6, InterruptedKeeps
<1>7. CASE CutShort(j)
  <2>1. Faults \/ ~HasRow(j) \/ ~HoldsDrive(j) \/ Abandoned(j)
    BY <1>7 DEF CutShort, OutcomeInv, Watched
  <2> QED
    BY <1>7, <2>1, VanishKeeps DEF CutShort
<1>8. CASE RowGone(j)
  BY <1>8, VanishKeeps DEF RowGone
<1>9. CASE FailingLost(j)
  <2> USE DEF OutcomeInv, DriveInv, TypeOK, TablesTypeOK
  <2>1. /\ pc[j] = "failing" /\ pc' = [pc EXCEPT ![j] = "exit"]
        /\ sig[j] # "due" /\ sig' = [sig EXCEPT ![j] = IF @ = "sent" THEN "due" ELSE @]
        /\ unsaid' = unsaid \cup {j}
        /\ UNCHANGED <<status, final, tx, mail, ejected, cur, api>>
    BY <1>9 DEF FailingLost, Move, jobVars, driveVars, txVars
  <2>2. HandedOver'
    BY <2>1 DEF HandedOver, HandoffAgrees
  <2>3. EjectedOnce' /\ DoneReleased'
    BY <2>1 DEF EjectedOnce, DoneReleased, HoldsDrive, Setup
  <2>4. Settling'
    BY <2>1 DEF Settling
  <2>5. Watched'
    BY <2>1 DEF Watched, Abandoned, HoldsDrive, HasRow, Alive
  <2> QED
    BY <2>2, <2>3, <2>4, <2>5
<1> QED
  BY <1>1, <1>2, <1>3, <1>4, <1>5, <1>6, <1>7, <1>8, <1>9 DEF Leave

-----------------------------------------------------------------------------
(* The sweep writes on other jobs' rows: FAILURE, and the release of the    *)
(* drive of a job it found dead.                                            *)

LEMMA SweepKeeps ==
    ASSUME DriveInv, OutcomeInv, NEW j \in Jobs, Sweep(j)
    PROVE  OutcomeInv'
<1> USE DEF OutcomeInv, DriveInv, TypeOK, TablesTypeOK
<1>1. ASSUME NEW to \in {"sweeping", "failing", "sweepRelease"},
             pc[j] \in {"sweep", "sweeping", "sweepRelease"}, Move(j, pc[j], to),
             \A k \in Jobs : status'[k] \in {status[k], "FAILURE"} /\ (HasRow(k)' => HasRow(k)),
             \A k \in Jobs : HoldsDrive(k)' => HoldsDrive(k),
             UNCHANGED <<final, unsaid, tx, mail, ejected, api>>
      PROVE  OutcomeInv'
  <2>1. /\ pc' = [pc EXCEPT ![j] = to] /\ sig[j] # "due"
        /\ sig' = [sig EXCEPT ![j] = IF @ = "sent" THEN "due" ELSE @]
    BY <1>1 DEF Move
  <2>2. HandedOver'
    BY <1>1, <2>1 DEF HandedOver, HandoffAgrees, Transcoding
  <2>3. EjectedOnce' /\ DoneReleased'
    BY <1>1, <2>1 DEF EjectedOnce, DoneReleased, Setup
  <2>4. Settling'
    BY <1>1, <2>1 DEF Settling, SettledAt, Settled, Finished
  <2>5. Watched'
    BY <1>1, <2>1 DEF Watched, Abandoned, Alive
  <2> QED
    BY <2>2, <2>3, <2>4, <2>5
<1>2. CASE SweepLoad(j)
  BY <1>1, <1>2 DEF SweepLoad, Move, HasRow, HoldsDrive, jobVars, driveVars, txVars
<1>3. CASE SweepRelease(j)
  <2>1. \A k \in Jobs : HoldsDrive(k)' => HoldsDrive(k)
    BY <1>3, JobTableAssumption DEF SweepRelease, ReleaseDriveOf, HoldsDrive
  <2> QED
    BY <1>1, <1>3, <2>1 DEF SweepRelease, Move, HasRow, jobVars, txVars
<1>4. CASE SweepEnd(j)
  BY <1>4, SilentKeeps DEF SweepEnd, Past, Body, SettledAt
<1>5. CASE \E k \in Jobs : SweepKeep(j, k)
  BY <1>1, <1>5 DEF SweepKeep, Move, HasRow, HoldsDrive, jobVars, driveVars, txVars
<1>6. CASE \E k \in Jobs : SweepFail(j, k)
  <2>1. PICK k \in Jobs : SweepFail(j, k)
    BY <1>6
  <2>2. /\ \A i \in Jobs : status'[i] \in {status[i], "FAILURE"} /\ (HasRow(i)' => HasRow(i))
        /\ \A i \in Jobs : HoldsDrive(i)' => HoldsDrive(i)
    BY <2>1 DEF SweepFail, SetStatus, HasRow, HoldsDrive, driveVars
  <2> QED
    BY <1>1, <2>1, <2>2 DEF SweepFail, Move, txVars
<1>7. CASE \E k \in Jobs : SweepRaises(j, k)
  BY <1>1, <1>7 DEF SweepRaises, Move, HasRow, HoldsDrive, jobVars, driveVars, txVars
<1> QED
  BY <1>2, <1>3, <1>4, <1>5, <1>6, <1>7 DEF Sweep

-----------------------------------------------------------------------------
LEMMA PrepareKeeps ==
    ASSUME DriveInv, OutcomeInv, NEW j \in Jobs,
           Prepare(j) \/ PollOverride(j) \/ PollExpired(j) \/ Raise(j) \/ Die(j),
           ~Accept(j), ~Adopt(j), ~Assign(j)
    PROVE  OutcomeInv'
<1> USE DEF Past, Body, Ending, JobState, Finished, Transcoding, Ripping, Settled, SettledAt
<1>1. CASE NotReady(j)
  BY <1>1, VanishKeeps DEF NotReady, Setup
<1>2. CASE Refuse(j)
  BY <1>2, VanishKeeps DEF Refuse, Setup
<1>3. CASE AssignLost(j)
  BY <1>3, SilentKeeps DEF AssignLost
<1>4. CASE Sweep(j)
  BY <1>4, SweepKeeps
<1>5. CASE Identify(j)
  BY <1>5, CommitKeeps DEF Identify
<1>6. CASE NoWait(j)
  BY <1>6, SilentKeeps DEF NoWait
<1>7. CASE Wait(j)
  BY <1>7, CommitKeeps DEF Wait
<1>8. CASE PollCancelled(j)
  BY <1>8, SilentKeeps DEF PollCancelled
<1>9. CASE PollStarted(j)
  BY <1>9, SilentKeeps DEF PollStarted
<1>10. CASE PollOverride(j)
  BY <1>10, SilentKeeps DEF PollOverride
<1>11. CASE PollExpired(j)
  BY <1>11, SilentKeeps DEF PollExpired
<1>12. CASE Resume(j)
  <2> USE DEF OutcomeInv, DriveInv, TypeOK, TablesTypeOK
  <2>1. /\ pc[j] \in {"started", "expired"} /\ pc' = [pc EXCEPT ![j] = "rip"] /\ HasRow(j)
        /\ sig[j] # "due" /\ sig' = [sig EXCEPT ![j] = IF @ = "sent" THEN "due" ELSE @]
        /\ status' = [status EXCEPT ![j] = "IDLE"]
        /\ UNCHANGED <<final, unsaid, tx, mail, ejected, cur, api>>
    BY <1>12 DEF Resume, Move, SetStatus, OnlyMoves, driveVars, txVars
  <2>2. HandedOver'
    BY <2>1 DEF HandedOver, HandoffAgrees
  <2>3. EjectedOnce' /\ DoneReleased'
    BY <2>1 DEF EjectedOnce, DoneReleased, HoldsDrive, Setup
  <2>4. Settling'
    BY <2>1 DEF Settling
  <2>5. Watched'
    BY <2>1 DEF Watched, Abandoned, HoldsDrive, HasRow, Alive
  <2> QED
    BY <2>2, <2>3, <2>4, <2>5
<1>13. CASE Raise(j)
  BY <1>13, SilentKeeps DEF Raise
<1>14. CASE Die(j)
  BY <1>14, VanishKeeps DEF Die, Remains, Alive, Setup
<1> QED
  BY <1>1, <1>2, <1>3, <1>4, <1>5, <1>6, <1>7, <1>8, <1>9, <1>10, <1>11, <1>12, <1>13, <1>14 DEF Prepare

-----------------------------------------------------------------------------
(* Taking the lock, the check, the row and the association. *)

LEMMA EarlyKeeps ==
    ASSUME DriveInv, OutcomeInv, NEW j \in Jobs,
           (\E d \in Drives : Start(j, d)) \/ Accept(j) \/ Adopt(j)
    PROVE  OutcomeInv'
<1> USE DEF OutcomeInv, DriveInv, TypeOK, TablesTypeOK
<1>1. /\ pc[j] \in Setup \cup {"off"} /\ pc'[j] \in Setup \cup {"assign"}
      /\ \A k \in Jobs \ {j} : pc'[k] = pc[k] /\ sig'[k] = sig[k] /\ status'[k] = status[k]
      /\ status'[j] \in {status[j], "IDENTIFYING"}
      /\ sig'[j] # "none" => sig[j] # "none"
      /\ UNCHANGED <<final, unsaid, tx, mail, ejected, cur, api>>
  BY DEF Start, Accept, Adopt, Silent, Move, OnlyMoves, SetStatus, Setup, jobVars, driveVars, txVars
<1>2. ~HoldsDrive(j)
  BY <1>1 DEF NotYetNamed, HoldsDrive
<1>3. HandedOver'
  BY <1>1 DEF HandedOver, HandoffAgrees, Transcoding, Setup
<1>4. EjectedOnce' /\ DoneReleased'
  BY <1>1 DEF EjectedOnce, DoneReleased, HoldsDrive, Setup
<1>5. \A k \in Jobs : sig'[k] \in {"none", "sent", "due"}
  BY DEF Start, Accept, Adopt, Silent, Move
<1>6. Settling'
  BY <1>1, <1>5 DEF Settling, SettledAt, Setup
<1>7. Watched'
  BY <1>1, <1>2 DEF Watched, Abandoned, HoldsDrive, HasRow, Alive
<1> QED
  BY <1>3, <1>4, <1>6, <1>7

(* A job that was abandoned before it had a drive takes one all the same;   *)
(* the signal is still to come.                                             *)
LEMMA AssignOutcome ==
    ASSUME DriveInv, OutcomeInv, NEW j \in Jobs, Assign(j)
    PROVE  OutcomeInv'
<1> USE DEF OutcomeInv, DriveInv, TypeOK, TablesTypeOK
<1>1. /\ pc[j] = "assign" /\ pc' = [pc EXCEPT ![j] = "sweep"] /\ sig[j] # "due"
      /\ sig' = [sig EXCEPT ![j] = IF @ = "sent" THEN "due" ELSE @]
      /\ cur' = [cur EXCEPT ![on[j]] = j]
      /\ UNCHANGED <<status, final, unsaid, tx, mail, ejected, api>>
  BY DEF Assign, Move, NewJob, OnlyMoves, jobVars, txVars
<1>2. \A k \in Jobs \ {j} : HoldsDrive(k)' => HoldsDrive(k)
  BY <1>1 DEF HoldsDrive
<1>3. HandedOver'
  BY <1>1 DEF HandedOver, HandoffAgrees
<1>4. EjectedOnce' /\ DoneReleased'
  BY <1>1, <1>2 DEF EjectedOnce, DoneReleased, Setup
<1>5. Settling'
  BY <1>1 DEF Settling, SettledAt
<1>6. Watched'
  BY <1>1, <1>2 DEF Watched, Abandoned, HasRow, Alive
<1> QED
  BY <1>3, <1>4, <1>5, <1>6

-----------------------------------------------------------------------------
(* The transcoder says something of a job only after it was given the job.  *)

LEMMA TranscoderKeeps ==
    ASSUME DriveInv, OutcomeInv, NEW j \in Jobs,
           TxStart(j) \/ TxEnd(j) \/ Deliver(j) \/ Lose(j) \/ ForceComplete(j)
    PROVE  OutcomeInv'
<1> USE DEF OutcomeInv, DriveInv, TypeOK, TablesTypeOK
<1>1. /\ UNCHANGED <<pc, final, sig, unsaid, ejected, cur, api>>
      /\ \A k \in Jobs : tx[k] # "idle" => tx'[k] # "idle"
  BY DEF TxStart, TxEnd, Deliver, Lose, ForceComplete, jobVars, driveVars, ripVars, txVars
<1>2. \A k \in Jobs : mail'[k] # "none" => tx'[k] # "idle"
  BY DEF TxStart, TxEnd, Deliver, Lose, ForceComplete, txVars, HandedOver
<1>3. \A k \in Jobs :
          \/ status'[k] = status[k]
          \/ HasRow(k) /\ status'[k] \in Settled /\ (status'[k] \in Transcoding => tx[k] # "idle")
  <2>1. CASE Deliver(j)
    <3>1. mail[j] # "none" /\ tx[j] # "idle"
      BY <2>1 DEF Deliver, HandedOver
    <3>2. Outcome(mail[j]) \in Settled
      BY DEF Outcome, Settled, Finished, Transcoding
    <3> QED
      BY <2>1, <3>1, <3>2 DEF Deliver, SetStatus
  <2>2. CASE ForceComplete(j)
    BY <2>2 DEF ForceComplete, SetStatus, Settled, Finished, Transcoding
  <2>3. CASE TxStart(j) \/ TxEnd(j) \/ Lose(j)
    BY <2>3 DEF TxStart, TxEnd, Lose, jobVars
  <2> QED
    BY <2>1, <2>2, <2>3
<1>4. HandedOver'
  BY <1>1, <1>2, <1>3 DEF HandedOver, HandoffAgrees
<1>5. EjectedOnce' /\ DoneReleased'
  BY <1>1 DEF EjectedOnce, DoneReleased, HoldsDrive
<1>6. Settling'
  BY <1>1, <1>3 DEF Settling
<1>7. Watched'
  BY <1>1, <1>3 DEF Watched, Abandoned, HoldsDrive, HasRow, Alive
<1> QED
  BY <1>4, <1>5, <1>6, <1>7

-----------------------------------------------------------------------------
(* The API: a call writes a finished status or deletes the row, a drive     *)
(* loses its job, and a signal is sent by the abandon call that goes on to  *)
(* release the drive.                                                       *)

LEMMA CallKeeps ==
    ASSUME DriveInv, OutcomeInv, UNCHANGED <<pc, final, unsaid, tx, mail>>,
           \A k \in Jobs : \/ status'[k] = status[k]
                           \/ status'[k] \in Finished /\ HasRow(k)
                           \/ status'[k] = NoRow,
           \A k \in Jobs : HoldsDrive(k)' => HoldsDrive(k),
           \A k \in Jobs : ejected'[k] => ejected[k] \/ (HoldsDrive(k) /\ ~HoldsDrive(k)'),
           \A k \in Jobs : sig'[k] = sig[k] \/ Abandoned(k)',
           ~Faults => \A k \in Jobs :
                          Abandoned(k) /\ HoldsDrive(k)' /\ HasRow(k)' => Abandoned(k)'
    PROVE  OutcomeInv'
<1> USE DEF OutcomeInv, DriveInv, TypeOK, TablesTypeOK
<1>1. HandedOver'
  BY DEF HandedOver, HandoffAgrees, Transcoding, Finished, NoRow
<1>2. EjectedOnce'
  BY DEF EjectedOnce, Setup, NotYetNamed, HoldsDrive
<1>3. DoneReleased'
  BY DEF DoneReleased
<1>4. Settling'
  BY DEF Settling, Settled
<1>5. \A k \in Jobs : HasRow(k)' => HasRow(k)
  BY DEF HasRow
<1>6. Watched'
  BY <1>5 DEF Watched, Alive
<1> QED
  BY <1>1, <1>2, <1>3, <1>4, <1>6

(* A request that is served takes a free thread: no other is forgotten.     *)
LEMMA ServeKeepsOthers ==
    ASSUME TypeOK, NEW w \in Workers, NEW r \in Request,
           api[w] = Idle, api' = [api EXCEPT ![w] = r]
    PROVE  \A k \in Jobs : Abandoned(k) => Abandoned(k)'
BY DEF Abandoned, TypeOK, Idle

LEMMA ApiKeeps ==
    ASSUME DriveInv, OutcomeInv, NEW w \in Workers, Api(w)
    PROVE  OutcomeInv'
<1> USE DEF OutcomeInv, DriveInv, TypeOK, TablesTypeOK
<1>1. CASE \E j \in Jobs, c \in Calls : Ask(w, c, j)
  <2>1. PICK j \in Jobs, c \in {"start", "cancel", "skip"} : Ask(w, c, j)
    BY <1>1 DEF Ask
  <2>2. \A k \in Jobs : Abandoned(k) => Abandoned(k)'
    BY <2>1, ServeKeepsOthers DEF Ask, Serve, Request
  <2> QED
    BY <2>1, <2>2, CallKeeps DEF Ask, HoldsDrive, jobVars, driveVars, ripVars, txVars
<1>2. CASE \E j \in Jobs : Abandon(w, j)
  <2>1. PICK j \in Jobs : Abandon(w, j)
    BY <1>2
  <2>2. \A k \in Jobs : Abandoned(k) => Abandoned(k)'
    BY <2>1, ServeKeepsOthers DEF Abandon, Serve, Request
  <2>3. Abandoned(j)'
    BY <2>1 DEF Abandon, Serve, Abandoned
  <2>4. \A k \in Jobs : sig'[k] = sig[k] \/ k = j
    BY <2>1 DEF Abandon
  <2> QED
    BY <2>1, <2>2, <2>3, <2>4, CallKeeps DEF Abandon, HoldsDrive, jobVars, driveVars, txVars
<1>3. CASE \E j \in Jobs : Delete(w, j)
  <2>1. PICK j \in Jobs : Delete(w, j)
    BY <1>3
  <2>2. \A k \in Jobs : Abandoned(k) => Abandoned(k)'
    BY <2>1, ServeKeepsOthers DEF Delete, Serve, Request
  <2>3. \A k \in Jobs : HoldsDrive(k)' => HoldsDrive(k)
    BY <2>1, JobTableAssumption DEF Delete, HoldsDrive
  <2> QED
    BY <2>1, <2>2, <2>3, CallKeeps DEF Delete, jobVars, ripVars, txVars
<1>4. CASE \E j \in Jobs : StartCommit(w, j) \/ CancelCommit(w, j) \/ SkipCommit(w, j) \/ DeleteCommit(w, j)
  <2>1. PICK j \in Jobs : StartCommit(w, j) \/ CancelCommit(w, j) \/ SkipCommit(w, j) \/ DeleteCommit(w, j)
    BY <1>4
  <2>2. api' = [api EXCEPT ![w] = Idle] /\ api[w].call # "abandon"
    BY <2>1 DEF StartCommit, CancelCommit, SkipCommit, DeleteCommit, Serving
  <2>3. \A k \in Jobs : Abandoned(k) => Abandoned(k)'
    BY <2>2 DEF Abandoned
  <2>4. \A k \in Jobs : \/ status'[k] = status[k]
                        \/ status'[k] \in Finished /\ HasRow(k)
                        \/ status'[k] = NoRow
    BY <2>1 DEF StartCommit, CancelCommit, SkipCommit, DeleteCommit, SetStatus, Finished
  <2>5. UNCHANGED <<ejected, cur, prev, pc, on, final, sig, unsaid, tx, mail>>
    BY <2>1 DEF StartCommit, CancelCommit, SkipCommit, DeleteCommit, driveVars, ripVars, txVars
  <2> QED
    BY <2>3, <2>4, <2>5, CallKeeps DEF HoldsDrive
<1>5. CASE \E j \in Jobs : AbandonCommit(w, j)
  <2>1. PICK j \in Jobs : AbandonCommit(w, j)
    BY <1>5
  <2>2. api' = [api EXCEPT ![w] = Idle] /\ api[w].job = j
    BY <2>1 DEF AbandonCommit, Serving
  <2>3. /\ ~HoldsDrive(j)'
        /\ \A k \in Jobs : HoldsDrive(k)' => HoldsDrive(k)
        /\ \A k \in Jobs : ejected'[k] => ejected[k] \/ (HoldsDrive(k) /\ ~HoldsDrive(k)')
    BY <2>1, EjectLeaves DEF AbandonCommit
  <2>4. \A k \in Jobs \ {j} : Abandoned(k) => Abandoned(k)'
    BY <2>2 DEF Abandoned
  <2>5. \A k \in Jobs : status'[k] = status[k] \/ (status'[k] \in Finished /\ HasRow(k))
    BY <2>1 DEF AbandonCommit, SetStatus, Finished
  <2>6. UNCHANGED <<pc, final, sig, unsaid, tx, mail>>
    BY <2>1 DEF AbandonCommit, ripVars, txVars
  <2> QED
    BY <2>3, <2>4, <2>5, <2>6, CallKeeps
<1>6. CASE \E d \in Drives : Eject(w, d)
  <2>1. \A k \in Jobs : Abandoned(k) => Abandoned(k)'
    BY <1>6, ServeKeepsOthers DEF Eject, Request
  <2> QED
    BY <1>6, <2>1, CallKeeps DEF Eject, HoldsDrive, jobVars, driveVars, ripVars, txVars
<1>7. CASE \E d \in Drives : EjectReturn(w, d)
  <2>1. api' = [api EXCEPT ![w] = Idle] /\ api[w].call # "abandon"
    BY <1>7 DEF EjectReturn
  <2>2. \A k \in Jobs : Abandoned(k) => Abandoned(k)'
    BY <2>1 DEF Abandoned
  <2> QED
    BY <1>7, <2>2, CallKeeps DEF EjectReturn, HoldsDrive, jobVars, driveVars, ripVars, txVars
<1>8. CASE ApiFails(w)
  <2>1. /\ api' = [api EXCEPT ![w] = Idle]
        /\ ~Faults => ~HasRow(api[w].job)
        /\ UNCHANGED <<status, ejected, cur, pc, final, sig, unsaid, tx, mail>>
    BY <1>8 DEF ApiFails, jobVars, driveVars, ripVars, txVars
  <2>2. ~Faults => \A k \in Jobs : Abandoned(k) /\ HasRow(k)' => Abandoned(k)'
    BY <2>1 DEF HasRow, Abandoned
  <2> QED
    BY <2>1, <2>2, CallKeeps DEF HoldsDrive
<1> QED
  BY <1>1, <1>2, <1>3, <1>4, <1>5, <1>6, <1>7, <1>8 DEF Api, ApiCommit

-----------------------------------------------------------------------------
LEMMA RestartKeeps ==
    ASSUME DriveInv, OutcomeInv, Restart
    PROVE  OutcomeInv'
<1> USE DEF OutcomeInv, DriveInv, TypeOK, TablesTypeOK
<1>1. /\ Faults
      /\ \A k \in Jobs : status'[k] \in {status[k], "FAILURE"}
      /\ \A k \in Jobs : HoldsDrive(k)' => HoldsDrive(k)
      /\ \A k \in Jobs : final'[k] = "IDLE" /\ sig'[k] = "none"
      /\ unsaid' = {k \in unsaid : pc[k] = "done"}
      /\ UNCHANGED <<tx, mail, ejected>>
  BY JobTableAssumption DEF Restart, HoldsDrive, txVars
<1>2. \A k \in Jobs : pc'[k] \in {"off", "dead", "done"} /\ (pc'[k] = "done" => pc[k] = "done")
                      /\ (pc'[k] = "off" => pc[k] \in Setup \cup {"off"})
  BY DEF Restart, Remains, Alive, Setup
<1>3. HandedOver'
  BY <1>1, <1>2 DEF HandedOver, HandoffAgrees, Transcoding
<1>4. EjectedOnce' /\ DoneReleased'
  BY <1>1, <1>2 DEF EjectedOnce, DoneReleased, Setup
<1>5. Settling'
  BY <1>1, <1>2 DEF Settling, SettledAt, Settled, Finished
<1>6. Watched'
  BY <1>1 DEF Watched
<1> QED
  BY <1>3, <1>4, <1>5, <1>6

LEMMA OutcomeInit == Init => OutcomeInv
<1> SUFFICES ASSUME Init PROVE OutcomeInv
  OBVIOUS
<1>1. HandedOver
  BY DEF Init, TablesInit, HandedOver, HandoffAgrees, Transcoding, NoRow
<1>2. EjectedOnce /\ DoneReleased
  BY DEF Init, TablesInit, EjectedOnce, DoneReleased
<1>3. Settling
  BY DEF Init, TablesInit, Settling, SettledAt
<1>4. Watched
  BY DEF Init, TablesInit, Watched, HasRow
<1> QED
  BY <1>1, <1>2, <1>3, <1>4 DEF OutcomeInv

LEMMA OutcomeStep == DriveInv /\ OutcomeInv /\ [Next]_vars => OutcomeInv'
<1> SUFFICES ASSUME DriveInv, OutcomeInv, [Next]_vars PROVE OutcomeInv'
  OBVIOUS
<1>1. ASSUME NEW j \in Jobs, TakesDrive(j) PROVE OutcomeInv'
  BY <1>1, EarlyKeeps, AssignOutcome DEF TakesDrive
<1>2. ASSUME NEW j \in Jobs,
             Prepare(j) \/ PollOverride(j) \/ PollExpired(j) \/ Raise(j) \/ Die(j)
      PROVE  OutcomeInv'
  BY <1>1, <1>2, PrepareKeeps DEF TakesDrive
<1>3. ASSUME NEW j \in Jobs, Rip(j) \/ Handoff(j) \/ Leave(j) PROVE OutcomeInv'
  BY <1>3, RipKeeps, HandoffKeeps, LeaveKeeps
<1>4. ASSUME NEW j \in Jobs,
             TxStart(j) \/ TxEnd(j) \/ Deliver(j) \/ Lose(j) \/ ForceComplete(j)
      PROVE  OutcomeInv'
  BY <1>4, TranscoderKeeps
<1>5. ASSUME NEW w \in Workers, Api(w) PROVE OutcomeInv'
  BY <1>5, ApiKeeps
<1>6. CASE Restart
  BY <1>6, RestartKeeps
<1>7. CASE UNCHANGED vars
  BY <1>7 DEF vars, jobVars, driveVars, ripVars, txVars, OutcomeInv, HandedOver,
     HandoffAgrees, EjectedOnce, DoneReleased, Settling, Watched, Abandoned,
     HoldsDrive, HasRow, Alive
<1> QED
  BY <1>1, <1>2, <1>3, <1>4, <1>5, <1>6, <1>7 DEF Next, Ripper, TakesDrive

LEMMA OutcomeInductive == Spec => [](DriveInv /\ OutcomeInv)
BY DriveInit, DriveStep, OutcomeInit, OutcomeStep, PTL DEF Spec

-----------------------------------------------------------------------------
(* A row says that a job waits for the transcoder, or is with it, only if   *)
(* the transcoder was given the job, whichever of the ripper, its `finally`  *)
(* and a late callback wrote it last.                                       *)
THEOREM HandoffTrue == Spec => []HandoffAgrees
<1>1. OutcomeInv => HandoffAgrees
  BY DEF OutcomeInv, HandedOver
<1> QED
  BY <1>1, OutcomeInductive, PTL

(* A ripper that got to the end of main.py has no drive any more, although  *)
(* two processes may call job.eject and each relies on `ejected`.           *)
THEOREM EndedWithoutDrive == Spec => []DoneReleased
<1>1. OutcomeInv => DoneReleased
  BY DEF OutcomeInv
<1> QED
  BY <1>1, OutcomeInductive, PTL

(* A ripper that got to the end leaves a status that no ripper owns,        *)
(* whatever the API, a callback or a sweep wrote meanwhile, unless the      *)
(* write of its failure was lost (main.py 471-487, 496-508).                *)
THEOREM EndsSettled == Spec => []DoneSettled
<1>1. OutcomeInv => DoneSettled
  BY DEF OutcomeInv, Settling, DoneSettled, SettledAt
<1> QED
  BY <1>1, OutcomeInductive, PTL

(* As long as nothing crashes, a taken drive has a live ripper or an        *)
(* abandon call that is about to release it.                                *)
THEOREM DrivesHaveHolders == Spec => []HolderAlive
<1>1. OutcomeInv /\ DriveInv => HolderAlive
  BY DEF OutcomeInv, DriveInv, Watched, HolderAlive, Abandoned, Processing, HoldsDrive,
     TypeOK, TablesTypeOK
<1> QED
  BY <1>1, OutcomeInductive, PTL
=============================================================================
