------------------------------- MODULE MusicRip -------------------------------
(***************************************************************************)
(* Music discs (arm/ripper/music_brainz.py, rip_music in utils.py, and what  *)
(* main.py does around them): the tracks are looked up in MusicBrainz, or    *)
(* taken from the disc's table of contents, the user may put others in their *)
(* place, and abcde rips them while the ripper reads what it prints, shows   *)
(* each track's phase in its row and gives the verdict.                      *)
(*                                                                          *)
(* Abstractions: a track is its number, a row where it came from and its     *)
(* status ("success" is also the only one with `ripped`); of abcde's lines    *)
(* those count that begin a track's phase or tell of an error. The ripper's   *)
(* loads and commits of rows are one step. What abandons or restarts a job    *)
(* meanwhile is in JobLifecycle.                                             *)
(***************************************************************************)
EXTENDS Naturals, Sequences

CONSTANTS
    Jobs,       \* music discs in different drives
    Toc,        \* the tracks a disc has: 1..n
    Listings,   \* how many tracks MusicBrainz, or the user, says it has
    MaxEdits,   \* bound: tracks the user sets
    MaxFaults   \* bound: writes of rows the database refuses

ASSUME MusicRipAssumption ==
    /\ Toc \in Nat /\ Listings \subseteq Nat
    /\ MaxEdits \in Nat /\ MaxFaults \in Nat

VARIABLES
    pc,         \* where the ripper of each disc is
    status,     \* the job's: idle, ripping, success, failure
    named,      \* the job has the album's title
    rows,       \* its tracks, in the order they were put
    listed,     \* the tracks still to be put
    abcde,      \* its process: none, running, hung, stuck, or ok or bad, how it ended
    phase,      \* the last phase of each track that abcde has begun
    erred,      \* it has told of an error
    edits,
    faults,
    mixed,      \* history: rows were put that a lookup did not delete ...
    late        \* ... and rows were set after the verdict, or not written for it

vars == <<pc, status, named, rows, listed, abcde, phase, erred, edits, faults, mixed, late>>

-----------------------------------------------------------------------------
Phases == <<"ripping", "encoding", "success">>
Tracks(n) == [i \in 1..n |-> i]
Fresh(n, from) == [no |-> n, source |-> from, status |-> "pending"]

Goto(j, place)   == pc' = [pc EXCEPT ![j] = place]
SetStatus(j, s)  == status' = [status EXCEPT ![j] = s]
SetRows(j, new)  == rows' = [rows EXCEPT ![j] = new]
Process          == UNCHANGED <<abcde, phase, erred>>
History          == UNCHANGED <<mixed, late>>

(* A write of rows whose error is logged and forgotten. *)
Refused == faults < MaxFaults /\ faults' = faults + 1
Written == faults' = faults

Init ==
    /\ pc = [j \in Jobs |-> "lookup"]
    /\ status = [j \in Jobs |-> "idle"]
    /\ named = [j \in Jobs |-> FALSE]
    /\ rows = [j \in Jobs |-> << >>]
    /\ listed = [j \in Jobs |-> << >>]
    /\ abcde = [j \in Jobs |-> "none"]
    /\ phase = [j \in Jobs |-> [n \in 1..Toc |-> 0]]
    /\ erred = [j \in Jobs |-> FALSE]
    /\ edits = 0 /\ faults = 0
    /\ mixed = [j \in Jobs |-> FALSE]
    /\ late = [j \in Jobs |-> FALSE]

-----------------------------------------------------------------------------
(* set_job_tracks: the user's tracks take the place of the rows. *)
SetJobTracks(j) ==
    /\ edits < MaxEdits /\ edits' = edits + 1
    /\ \E n \in Listings : SetRows(j, [i \in 1..n |-> Fresh(i, "user")])
    /\ mixed' = [mixed EXCEPT ![j] = pc[j] \in {"ask", "put", "toc", "putToc"}]
    /\ late' = [late EXCEPT ![j] = pc[j] \in {"succeeded", "done"}]
    /\ UNCHANGED <<pc, status, named, listed, faults>> /\ Process

(* main: the disc's id cannot be read, and the job fails. *)
NoDiscId(j) ==
    /\ pc[j] = "lookup" /\ Goto(j, "done") /\ SetStatus(j, "failure")
    /\ late' = [late EXCEPT ![j] = TRUE]
    /\ UNCHANGED <<named, rows, listed, edits, faults, mixed>> /\ Process

(* GET_AUDIO_TITLE is not musicbrainz: the disc has no rows of its own. *)
NoLookup(j) ==
    /\ pc[j] = "lookup" /\ Goto(j, "wait")
    /\ UNCHANGED <<status, named, rows, listed, edits, faults>> /\ Process /\ History

(* Faulty variant: what the user has set before is kept. *)
DeleteJobTracks_Kept(j) ==
    /\ pc[j] \in {"lookup", "toc"}
    /\ IF pc[j] = "lookup" THEN Goto(j, "ask") ELSE Goto(j, "putToc")
    /\ listed' = [listed EXCEPT ![j] = Tracks(IF pc[j] = "toc" THEN Toc ELSE 0)]
    /\ UNCHANGED <<status, named, rows, edits, faults>> /\ Process /\ History

(* _delete_job_tracks, before the lookup and before the table of contents is *)
(* used for want of a result.                                                *)
DeleteJobTracks(j) ==
    /\ pc[j] \in {"lookup", "toc"}
    /\ IF pc[j] = "lookup" THEN Goto(j, "ask") ELSE Goto(j, "putToc")
    /\ listed' = [listed EXCEPT ![j] = Tracks(IF pc[j] = "toc" THEN Toc ELSE 0)]
    /\ \/ SetRows(j, << >>) /\ Written /\ mixed' = [mixed EXCEPT ![j] = FALSE]
       \/ rows' = rows /\ Refused /\ mixed' = [mixed EXCEPT ![j] = @ \/ rows[j] # << >>]
    /\ UNCHANGED <<status, named, edits, late>> /\ Process

(* get_disc_info, and the choice of a release and a medium in it. *)
GetDiscInfo(j) ==
    /\ pc[j] = "ask"
    /\ \/ Goto(j, "toc") /\ listed' = listed
       \/ Goto(j, "put") /\ \E n \in Listings : listed' = [listed EXCEPT ![j] = Tracks(n)]
    /\ UNCHANGED <<status, named, rows, edits, faults>> /\ Process /\ History

(* process_tracks, the next track; a row is put and committed at once. *)
PutTrack(j) ==
    /\ pc[j] = "put" /\ listed[j] # << >>
    /\ listed' = [listed EXCEPT ![j] = Tail(@)]
    /\ SetRows(j, Append(rows[j], Fresh(Head(listed[j]), "MusicBrainz")))
    /\ UNCHANGED <<pc, status, named, edits, faults>> /\ Process /\ History

(* What is missing in a release, or not as expected, fails the job: the rows *)
(* and the title stay as far as they had come.                               *)
Malformed(j) ==
    /\ pc[j] \in {"put", "art"} /\ Goto(j, "done") /\ SetStatus(j, "failure")
    /\ late' = [late EXCEPT ![j] = TRUE]
    /\ UNCHANGED <<named, rows, listed, edits, faults, mixed>> /\ Process

(* The release, or the stub, is written to the job. *)
Describe(j) ==
    /\ pc[j] = "put" /\ listed[j] = << >>
    /\ \/ Goto(j, "art")
       \/ Goto(j, "wait")    \* a stub has none
    /\ named' = [named EXCEPT ![j] = TRUE]
    /\ UNCHANGED <<status, rows, listed, edits, faults>> /\ Process /\ History

(* get_cd_art: a poster for the job, or none. The service's errors roll back  *)
(* what is not committed, and by now everything is.                          *)
GetCdArt(j) ==
    /\ pc[j] = "art" /\ Goto(j, "wait")
    /\ UNCHANGED <<status, named, rows, listed, edits, faults>> /\ Process /\ History

(* create_toc_tracks stops at the first row that cannot be put. *)
PutTocTrack(j) ==
    /\ pc[j] = "putToc"
    /\ IF listed[j] = << >>
         THEN Goto(j, "wait") /\ UNCHANGED <<rows, listed>> /\ Written
         ELSE \/ /\ listed' = [listed EXCEPT ![j] = Tail(@)]
                 /\ SetRows(j, Append(rows[j], Fresh(Head(listed[j]), "TOC")))
                 /\ Written /\ pc' = pc
              \/ Goto(j, "wait") /\ Refused /\ UNCHANGED <<rows, listed>>
    /\ UNCHANGED <<status, named, edits>> /\ Process /\ History

(* check_for_wait ends *)
Waited(j) ==
    /\ pc[j] = "wait" /\ Goto(j, "clean")
    /\ UNCHANGED <<status, named, rows, listed, edits, faults>> /\ Process /\ History

-----------------------------------------------------------------------------
(* rip_music removes every abcde workdir there is, also that of an abcde in   *)
(* another drive, which then ends badly, as it may for any reason ...        *)
CleanWorkdirs(j) ==
    /\ pc[j] = "clean" /\ Goto(j, "spawn") /\ SetStatus(j, "ripping")
    /\ UNCHANGED <<named, rows, listed, abcde, phase, erred, edits, faults>> /\ History

(* ... and starts abcde, which makes its own ... *)
Spawn(j) ==
    /\ pc[j] = "spawn" /\ Goto(j, "stream")
    /\ abcde' = [abcde EXCEPT ![j] = "running"]
    /\ UNCHANGED <<status, named, rows, listed, phase, erred, edits, faults>> /\ History

(* ... or cannot be started, or its job's status not be written. *)
SpawnFails(j) ==
    /\ pc[j] \in {"clean", "spawn"} /\ Goto(j, "done") /\ SetStatus(j, "failure")
    /\ late' = [late EXCEPT ![j] = TRUE]
    /\ UNCHANGED <<named, rows, listed, edits, faults, mixed>> /\ Process

(* abcde goes quiet for ever: "hung" where the ripper waits for a line with a *)
(* limit; "stuck" in the middle of a line, which readline waits for without   *)
(* one, or anywhere when CD_RIP_TIMEOUT is 0 or less.                        *)
Hang(j) ==
    /\ abcde[j] = "running"
    /\ \E how \in {"hung", "stuck"} : abcde' = [abcde EXCEPT ![j] = how]
    /\ UNCHANGED <<pc, status, named, rows, listed, phase, erred, edits, faults>> /\ History

(* abcde ends. *)
End(j) ==
    /\ abcde[j] = "running" /\ pc[j] = "stream"
    /\ \E how \in {"ok", "bad"} : abcde' = [abcde EXCEPT ![j] = how]
    /\ Goto(j, "last")
    /\ UNCHANGED <<status, named, rows, listed, phase, erred, edits, faults>> /\ History

(* _stream_abcde_output, a line: the rows are brought up to date when the    *)
(* last time was long enough ago.                                           *)
Line(j) ==
    /\ pc[j] = "stream" /\ abcde[j] = "running"
    /\ \/ /\ \E n \in 1..Toc : phase[j][n] < 3 /\ phase' = [phase EXCEPT ![j][n] = @ + 1]
          /\ erred' = erred
       \/ ~erred[j] /\ erred' = [erred EXCEPT ![j] = TRUE] /\ phase' = phase
    /\ \/ pc' = pc
       \/ Goto(j, "apply")
    /\ UNCHANGED <<status, named, rows, listed, abcde, edits, faults>> /\ History

(* Faulty variant: a track that is being encoded is taken for done. *)
Shown_Encoded(j, row) ==
    IF row.no \in 1..Toc /\ phase[j][row.no] > 0
      THEN [row EXCEPT !.status = IF phase[j][row.no] = 1 THEN "ripping" ELSE "success"] ELSE row

(* The row with its track's last phase, if that has begun. *)
Shown(j, row) ==
    IF row.no \in 1..Toc /\ phase[j][row.no] > 0
      THEN [row EXCEPT !.status = Phases[phase[j][row.no]]] ELSE row

(* _apply_track_phases, now and then and at the end. *)
ApplyTrackPhases(j) ==
    /\ pc[j] \in {"apply", "last"}
    /\ Goto(j, IF pc[j] = "apply" THEN "stream" ELSE "judge")
    /\ \/ SetRows(j, [i \in DOMAIN rows[j] |-> Shown(j, rows[j][i])]) /\ Written
       \/ rows' = rows /\ Refused
    /\ UNCHANGED <<status, named, listed, edits>> /\ Process /\ History

(* Faulty variant: there is no limit to a silence. *)
Stall_Never(j) == FALSE /\ UNCHANGED vars

(* CD_RIP_TIMEOUT without the beginning of a line: abcde is killed. *)
Stall(j) ==
    /\ pc[j] = "stream" /\ abcde[j] = "hung"
    /\ abcde' = [abcde EXCEPT ![j] = "bad"]
    /\ Goto(j, "judge")
    /\ UNCHANGED <<status, named, rows, listed, phase, erred, edits, faults>> /\ History

-----------------------------------------------------------------------------
(* _update_music_tracks: every row gets the verdict. *)
UpdateMusicTracks(j, s) ==
    \/ /\ SetRows(j, [i \in DOMAIN rows[j] |-> [rows[j][i] EXCEPT !.status = s]])
       /\ Written /\ late' = [late EXCEPT ![j] = FALSE]
    \/ rows' = rows /\ Refused /\ late' = [late EXCEPT ![j] = TRUE]

(* Faulty variant: abcde's exit code is believed. *)
Good_ExitCode(j) == abcde[j] = "ok"

Good(j) == abcde[j] = "ok" /\ ~erred[j]

(* The rows of a good rip are marked before its job is done ... *)
Succeed(j) ==
    /\ pc[j] = "judge" /\ Good(j) /\ Goto(j, "succeeded")
    /\ UpdateMusicTracks(j, "success")
    /\ UNCHANGED <<status, named, listed, edits, mixed>> /\ Process

Done(j) ==
    /\ pc[j] = "succeeded" /\ Goto(j, "done") /\ SetStatus(j, "success")
    /\ UNCHANGED <<named, rows, listed, edits, faults>> /\ Process /\ History

(* ... unless what comes in between raises: the job is saved as idle, the     *)
(* event is published, the library is scanned. Then main fails the job.      *)
Upset(j) ==
    /\ pc[j] = "succeeded" /\ Goto(j, "done") /\ SetStatus(j, "failure")
    /\ UNCHANGED <<named, rows, listed, edits, faults>> /\ Process /\ History

(* The job of a bad one fails before its rows do; or, when that cannot be     *)
(* written, main fails the job and the rows stay.                            *)
Fail(j) ==
    /\ pc[j] = "judge" /\ ~Good(j) /\ SetStatus(j, "failure")
    /\ \/ Goto(j, "failing") /\ Written /\ late' = late
       \/ Goto(j, "done") /\ Refused /\ late' = [late EXCEPT ![j] = TRUE]
    /\ UNCHANGED <<named, rows, listed, edits, mixed>> /\ Process

(* Faulty variant: the rows stay as they were shown last. *)
FailTracks_Shown(j) ==
    /\ pc[j] = "failing" /\ Goto(j, "done")
    /\ UNCHANGED <<status, named, rows, listed, edits, faults>> /\ Process /\ History

FailTracks(j) ==
    /\ pc[j] = "failing" /\ Goto(j, "done")
    /\ UpdateMusicTracks(j, "failed")
    /\ UNCHANGED <<status, named, listed, edits, mixed>> /\ Process

Ripper(j) ==
    \/ NoDiscId(j) \/ NoLookup(j) \/ DeleteJobTracks(j) \/ GetDiscInfo(j) \/ PutTrack(j)
    \/ Malformed(j) \/ Describe(j) \/ GetCdArt(j) \/ PutTocTrack(j) \/ CleanWorkdirs(j) \/ Spawn(j)
    \/ SpawnFails(j)
    \/ Line(j) \/ End(j) \/ ApplyTrackPhases(j) \/ Stall(j)
    \/ Succeed(j) \/ Done(j) \/ Upset(j) \/ Fail(j) \/ FailTracks(j)

Next == \E j \in Jobs : Ripper(j) \/ Waited(j) \/ SetJobTracks(j) \/ Hang(j)

(* The ripper goes on whenever it can; the user need not start a rip, and    *)
(* abcde may hang.                                                           *)
Spec == Init /\ [][Next]_vars /\ \A j \in Jobs : WF_vars(Ripper(j))

-----------------------------------------------------------------------------
(* A disc's rows are its tracks as one source has them, each once, and those *)
(* of MusicBrainz come with the album's title (music_brainz.py 64-80); unless *)
(* rows were put that the lookup did not delete.                             *)
OneSource ==
    \A j \in Jobs : pc[j] \notin {"lookup", "ask", "put", "toc", "putToc", "done"} /\ ~mixed[j] =>
        /\ \A a, b \in DOMAIN rows[j] : /\ rows[j][a].no = rows[j][b].no => a = b
                                       /\ rows[j][a].source = rows[j][b].source
        /\ \A a \in DOMAIN rows[j] : rows[j][a].source = "MusicBrainz" => named[j]

(* What a ripper that dies on the way leaves behind: no row is further than   *)
(* abcde has been with its track, one that is done was tagged (utils.py       *)
(* 622-645).                                                                 *)
ShownTruly ==
    \A j \in Jobs : pc[j] \in {"stream", "apply", "last", "judge"} =>
        \A i \in DOMAIN rows[j] :
            LET row == rows[j][i] IN
            row.status = "pending" \/ \E p \in 1..3 : /\ row.status = Phases[p]
                                                     /\ p <= phase[j][row.no]

(* A job succeeds only if abcde ended well and told of no error, and whatever *)
(* becomes of the job, its rows say what the rip was, unless they were set    *)
(* after it or not written (utils.py 780-815). (A good rip's job may still     *)
(* fail, by what main does after it, main.py 265-278.)                       *)
VerdictTrue ==
    \A j \in Jobs : pc[j] = "done" =>
        /\ status[j] \in {"success", "failure"}
        /\ status[j] = "success" => abcde[j] = "ok" /\ ~erred[j]
        /\ ~late[j] => \A i \in DOMAIN rows[j] :
              rows[j][i].status = IF abcde[j] = "ok" /\ ~erred[j] THEN "success" ELSE "failed"

(* A music rip ends, also when cdparanoia hangs on a bad sector (utils.py    *)
(* 519-527, 560-572); unless it hangs in the middle of a line, or the limit    *)
(* is switched off.                                                          *)
Finishes == \A j \in Jobs : pc[j] # "wait" ~> pc[j] \in {"wait", "done"} \/ abcde[j] = "stuck"
=============================================================================
