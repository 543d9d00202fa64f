----------------------------- MODULE TrackFiles -----------------------------
(***************************************************************************)
(* The titles of one job: its `track` rows, the files MakeMKV leaves in the *)
(* raw directory, and which row each file is taken to belong to             *)
(* (arm/ripper/makemkv.py, folder_ripper.py, import_prescan.py, naming.py,  *)
(* and the track calls of arm/api/v1/jobs.py).                              *)
(*                                                                          *)
(* A scan writes the rows, one commit each; the user edits them, at any     *)
(* time; the rip leaves files that MakeMKV has numbered again from zero,    *)
(* without the titles it skipped; the rows are then made to name the files, *)
(* what was deselected is removed, and the files are moved to their final   *)
(* names. Nothing but the number of a file says which title is in it.       *)
(*                                                                          *)
(* Abstractions: a file name is the segment prefix and the number in _tNN;  *)
(* chapters, size, aspect and skip_reason of a row; the job's status.       *)
(* A name in the final directory is a title and the numbers of the          *)
(* " - Track n" at its end: all but the title and the kind of a pattern's   *)
(* variables is left out. What clean_for_filename makes of names is one of  *)
(* Cleanings, chosen when the files are moved; a name it leaves nothing of  *)
(* is left out, and so are files already in the final directory.            *)
(* The user does not write file names or ripped marks of his own (the call  *)
(* for a track's fields would let him).                                     *)
(***************************************************************************)
EXTENDS Integers, Sequences, FiniteSets, FiniteSetsExt, Functions

CONSTANTS
    LastTitle,  \* titles are numbered 0 .. LastTitle, as MakeMKV does
    Lengths,    \* lengths of titles
    MinLength,  \* MINLENGTH of arm.yaml and MakeMKV's own default, 120 s
    MaxLength,  \* MAXLENGTH, for the rip of one title after another
    Customs,    \* names and titles the user gives to tracks
    Unnamed,    \* no custom_filename, no title of its own
    NoTitle,
    Cleanings,  \* what clean_for_filename may make of all names together
    MaxScans,   \* PRESCAN_RETRIES
    MaxEdits    \* bound: calls of the user

ASSUME TracksAssumption ==
    /\ LastTitle \in Nat
    /\ Lengths \subseteq Nat \ {0}
    /\ MinLength \in Nat /\ MaxLength \in Nat
    /\ Unnamed \notin Customs /\ Customs \cap {"job", "none"} = {}
    /\ NoTitle \notin 0 .. LastTitle
    /\ MaxScans \in Nat \ {0} /\ MaxEdits \in Nat

VARIABLES
    disc,    \* what is on the disc and how it is ripped; never changes
    pc,      \* where the pipeline is
    scans,   \* attempts at the scan
    next,    \* the title the scan or the rip comes to next
    row,     \* the track rows, by track_number
    file,    \* the raw directory: the title in each file, by file name
    final,   \* the titles that are in the final directory
    clashed, \* history: titles moved to one path, though their names differed
    made,    \* history: the titles MakeMKV has written
    edits

vars == <<disc, pc, scans, next, row, file, final, clashed, made, edits>>

-----------------------------------------------------------------------------
Titles == 0 .. LastTitle
Stems  == Titles
Absent == [absent |-> TRUE]

(* How the titles are taken off: an import is ripped in one go whatever it   *)
(* is; a disc in one go when MAXLENGTH says there is no upper bound, else   *)
(* title by title, or not at all by title (backup).                         *)
Ways == {"import", "all", "single"}
Disc == [way : Ways, length : [Titles -> Lengths], stem : [Titles -> Stems],
         skip : Lengths \cup {MinLength}]

(* A name is a prefix and a number; <<>> is the job's title, no file's name. *)
FileName == Stems \X Titles
Basename == <<>>

Row == [name : FileName \cup {Basename}, enabled : BOOLEAN,
        process : {"undecided", "yes", "no"}, ripped : BOOLEAN,
        title : Customs \cup {Unnamed}, custom : Customs \cup {Unnamed}]

Rows     == {t \in Titles : row[t] # Absent}
Files    == {f \in FileName : file[f] # NoTitle}
Length(t) == disc.length[t]
Import   == disc.way = "import"

(* A name of a track: a title, or what the user calls the track, and the     *)
(* track numbers in " - Track n" after it. A name ends in one such number at *)
(* most before render_all_tracks appends one.                               *)
Labels   == Customs \cup {"job"}
Short    == Labels \X ({<<>>} \cup {<<t>> : t \in Titles})
Name     == Labels \X ({<<>>} \cup {<<t>> : t \in Titles} \cup {<<t, u>> : t, u \in Titles})
Numbered(name, t) == <<name[1], Append(name[2], t)>>

(* Whatever else cleaning does to a name, the number at its end stays: "- ", *)
(* letters and digits are kept. Different names may become the same.         *)
ASSUME CleaningAssumption ==
    \A clean \in Cleanings :
      /\ \A c \in Customs : clean[<<c, <<>> >>] \in Short
      /\ \A name \in Short, t, u \in Titles :
           clean[Numbered(name, t)] = clean[Numbered(name, u)] => t = u

Places == {"scan", "adding", "broken", "review", "rip", "titles", "closing", "reconcile",
           "remove", "mark", "finalize", "done", "failed"}

TypeOK ==
    /\ disc \in Disc
    /\ pc \in Places
    /\ scans \in 0 .. MaxScans
    /\ next \in 0 .. LastTitle + 1
    /\ row \in [Titles -> Row \cup {Absent}]
    /\ file \in [FileName -> Titles \cup {NoTitle}]
    /\ final \subseteq Titles
    /\ clashed \subseteq Titles
    /\ made \subseteq Titles
    /\ edits \in 0 .. MaxEdits

(* The prefixes of a disc's titles are all the same or all different. *)
Init ==
    /\ disc \in Disc
    /\ disc.stem \in {[t \in Titles |-> 0], [t \in Titles |-> t]}
    /\ disc.way # "import" => disc.skip = MinLength
    /\ pc = "scan" /\ scans = 0 /\ next = 0
    /\ row = [t \in Titles |-> Absent]
    /\ file = [f \in FileName |-> NoTitle]
    /\ final = {} /\ clashed = {}
    /\ made = {}
    /\ edits = 0

-----------------------------------------------------------------------------
(* update_key.sh fails, or the drive is gone, before any row is touched. *)
PrepFails ==
    /\ pc = "scan"
    /\ scans' = scans + 1
    /\ pc' = "broken"
    /\ UNCHANGED <<disc, next, row, file, final, clashed, made, edits>>

(* The scan. Rows are cleared, then written one by one as the messages come. *)
Scan ==
    /\ pc = "scan"
    /\ scans' = scans + 1
    /\ row' = [t \in Titles |-> Absent]
    /\ next' = 0
    /\ pc' = "adding"
    /\ UNCHANGED <<disc, file, final, clashed, made, edits>>

NewRow(t) == [name |-> <<disc.stem[t], t>>, enabled |-> TRUE, process |-> "undecided",
              ripped |-> FALSE, title |-> Unnamed, custom |-> Unnamed]

AddTrack ==
    /\ pc = "adding"
    /\ next \in Titles
    /\ row' = [row EXCEPT ![next] = NewRow(next)]
    /\ next' = next + 1
    /\ UNCHANGED <<disc, pc, scans, file, final, clashed, made, edits>>

(* makemkvcon fails or is killed by the watchdog, or the database refuses a   *)
(* row: the rows written so far stay.                                       *)
ScanBreaks ==
    /\ pc = "adding"
    /\ pc' = "broken"
    /\ UNCHANGED <<disc, scans, next, row, file, final, clashed, made, edits>>

(* Faulty variant: one attempt too many. *)
Retry_OnceMore ==
    /\ pc = "broken"
    /\ pc' = IF ~Import /\ scans <= MaxScans THEN "scan" ELSE "review"
    /\ UNCHANGED <<disc, scans, next, row, file, final, clashed, made, edits>>

(* A disc is tried again some times; then, as an import at once, the job goes *)
(* on, and the user gets to see what rows there are.                        *)
Retry ==
    /\ pc = "broken"
    /\ pc' = IF ~Import /\ scans < MaxScans THEN "scan" ELSE "review"
    /\ UNCHANGED <<disc, scans, next, row, file, final, clashed, made, edits>>

TooShort(t) == Length(t) < MinLength
TooLong(t)  == disc.way = "single" /\ Length(t) > MaxLength

(* mark_prescan_filter_state for a disc, auto_disable_short_tracks for an    *)
(* import.                                                                  *)
Filtered(t) ==
    IF Import
      THEN IF TooShort(t) THEN [row[t] EXCEPT !.process = "no", !.enabled = FALSE] ELSE row[t]
      ELSE [row[t] EXCEPT !.enabled = TRUE,
                          !.process = IF TooShort(t) \/ TooLong(t) THEN "no" ELSE @]

ScanDone ==
    /\ pc = "adding"
    /\ next \notin Titles
    /\ row' = [t \in Titles |-> IF t \in Rows THEN Filtered(t) ELSE Absent]
    /\ pc' = "review"
    /\ UNCHANGED <<disc, scans, next, file, final, clashed, made, edits>>

-----------------------------------------------------------------------------
(* The calls of the user; none looks at the job's status. When the job has   *)
(* ended nothing reads the rows any more, and later calls are left out.      *)
Editable == edits < MaxEdits /\ pc \notin {"done", "failed"}

Edit(t, new) ==
    /\ Editable
    /\ edits' = edits + 1
    /\ t \in Rows
    /\ row' = [row EXCEPT ![t] = new]
    /\ UNCHANGED <<disc, pc, scans, next, file, final, clashed, made>>

UpdateTrackFields(t) ==
    \/ \E b \in BOOLEAN : Edit(t, [row[t] EXCEPT !.enabled = b])
    \/ \E c \in Customs : Edit(t, [row[t] EXCEPT !.custom = c])

UpdateTrackTitle(t) == \E c \in Customs : Edit(t, [row[t] EXCEPT !.title = c])

ClearTrackTitle(t) == Edit(t, [row[t] EXCEPT !.title = Unnamed, !.name = Basename])

(* MAINFEATURE of a single-title disc: the longest title, the first of them. *)
BestTrack == CHOOSE t \in Rows : \A u \in Rows :
                 Length(u) < Length(t) \/ (Length(u) = Length(t) /\ u >= t)

AutoFlag(mainFeature) ==
    [t \in Titles |-> IF t \notin Rows THEN Absent
                      ELSE [row[t] EXCEPT !.enabled = mainFeature => t = BestTrack]]

ChangeJobConfig ==
    /\ Editable
    /\ edits' = edits + 1
    /\ \E mainFeature \in BOOLEAN : row' = AutoFlag(mainFeature)
    /\ UNCHANGED <<disc, pc, scans, next, file, final, clashed, made>>

-----------------------------------------------------------------------------
(* The rip starts; without a row the titles are scanned now. In one go, all  *)
(* are candidates at first.                                                 *)
StartRip ==
    /\ pc = "review"
    /\ pc' = IF disc.way = "single" THEN "titles" ELSE "rip"
    /\ next' = 0
    /\ row' = [t \in Titles |->
                 IF Rows = {} THEN [NewRow(t) EXCEPT !.process =
                                       IF disc.way = "all" THEN "yes" ELSE "undecided"]
                 ELSE IF t \notin Rows THEN Absent
                 ELSE IF disc.way = "all" THEN [row[t] EXCEPT !.process = "yes"]
                 ELSE row[t]]
    /\ UNCHANGED <<disc, scans, file, final, clashed, made, edits>>

(* makemkv() and rip_import(): the drive is not ready or has no number, the  *)
(* key is not to be had, the raw directory cannot be made, or the scan that  *)
(* was left to do fails; each is a failure of the job.                      *)
StartFails ==
    /\ pc = "review"
    /\ pc' = "failed"
    /\ UNCHANGED <<disc, scans, next, row, file, final, clashed, made, edits>>

(* _mark_track_ripped_by_message: the first row with the file's prefix.      *)
WithStem(s) == {t \in Rows : row[t].name # Basename /\ row[t].name[1] = s}
MarkByMessage(s) ==
    [t \in Titles |-> IF t \in WithStem(s) /\ \A u \in WithStem(s) : u >= t
                        THEN [row[t] EXCEPT !.ripped = TRUE] ELSE row[t]]

(* MakeMKV saves the titles in order, leaves out the short ones and numbers  *)
(* the files as they come.                                                  *)
Save(t) ==
    /\ file' = [file EXCEPT ![<<disc.stem[t], Cardinality(made)>>] = t]
    /\ made' = made \cup {t}

SaveTitle ==
    /\ pc = "rip"
    /\ next \in Titles
    /\ next' = next + 1
    /\ IF Length(next) < disc.skip
         THEN UNCHANGED <<row, file, made>>
         ELSE /\ Save(next)
              /\ row' = IF Import THEN row ELSE MarkByMessage(disc.stem[next])
    /\ UNCHANGED <<disc, pc, scans, final, clashed, edits>>

(* apply_makemkv_skips, then _mark_ripped_from_disk: a row whose file is     *)
(* there, or a file with its prefix.                                        *)
Swept(t) ==
    [row[t] EXCEPT !.process = IF Length(t) < disc.skip THEN "no" ELSE @,
                   !.ripped  = \/ @
                               \/ row[t].name \in Files
                               \/ row[t].name # Basename /\ \E f \in Files : f[1] = row[t].name[1]]

(* MakeMKVOutputChecker raises when no title was saved. *)
RipDone ==
    /\ pc = "rip"
    /\ next \notin Titles
    /\ made # {}
    /\ IF Import THEN row' = row
                 ELSE row' = [t \in Titles |-> IF t \in Rows THEN Swept(t) ELSE Absent]
    /\ pc' = "reconcile"
    /\ UNCHANGED <<disc, scans, next, file, final, clashed, made, edits>>

(* MakeMKVOutputChecker: a title that cannot be saved, or none saved at all,  *)
(* is an error raised in the middle of run(), and nobody hears the rest.     *)
TitleError ==
    /\ pc \in {"rip", "titles"}
    /\ pc' = "closing"
    /\ UNCHANGED <<disc, scans, next, row, file, final, clashed, made, edits>>

(* makemkvcon, which is not told to stop, goes on with the titles after it. *)
SaveUnseen ==
    /\ pc = "closing"
    /\ disc.way # "single"
    /\ next \in Titles
    /\ next' = next + 1
    /\ IF Length(next) < disc.skip THEN UNCHANGED <<file, made>> ELSE Save(next)
    /\ UNCHANGED <<disc, pc, scans, row, final, clashed, edits>>

(* run() has waited for makemkvcon, which exits with an error or was given up. *)
RunFails ==
    /\ pc \in {"rip", "titles", "closing"}
    /\ pc' = "failed"
    /\ UNCHANGED <<disc, scans, next, row, file, final, clashed, made, edits>>

(* process_single_tracks, one title.                                        *)
Chosen(t) == row[t].enabled /\ ~TooShort(t) /\ ~TooLong(t)

(* Faulty variant: what was ripped is not marked. *)
RipTitle_Unmarked ==
    /\ pc = "titles"
    /\ next \in Titles
    /\ next' = next + 1
    /\ IF next \notin Rows \/ ~Chosen(next) THEN UNCHANGED <<row, file, made>>
       ELSE /\ file' = [file EXCEPT ![<<disc.stem[next], next>>] = next]
            /\ made' = made \cup {next}
            /\ row' = [row EXCEPT ![next].process = "yes"]
    /\ UNCHANGED <<disc, pc, scans, final, clashed, edits>>

RipTitle ==
    /\ pc = "titles"
    /\ next \in Titles
    /\ next' = next + 1
    /\ IF next \notin Rows THEN UNCHANGED <<row, file, made>>
       ELSE IF ~Chosen(next) THEN /\ row' = [row EXCEPT ![next].process = "no"]
                                  /\ UNCHANGED <<file, made>>
       ELSE /\ file' = [file EXCEPT ![<<disc.stem[next], next>>] = next]
            /\ made' = made \cup {next}
            /\ row' = [row EXCEPT ![next].process = "yes", ![next].ripped = TRUE]
    /\ UNCHANGED <<disc, pc, scans, final, clashed, edits>>

TitlesDone ==
    /\ pc = "titles"
    /\ next \notin Titles
    /\ pc' = "reconcile"
    /\ UNCHANGED <<disc, scans, next, row, file, final, clashed, made, edits>>

-----------------------------------------------------------------------------
(* _reconcile_filenames: rows are matched with files in passes, each with    *)
(* what the earlier ones have left. A matching maps rows to file names. What  *)
(* is sorted in the code is known by its rank here.                         *)
Rank(t, S)      == Cardinality({u \in S : u < t})
FileOrder(f, g) == f[1] < g[1] \/ (f[1] = g[1] /\ f[2] < g[2])
FileRank(f, S)  == Cardinality({g \in S : FileOrder(g, f)})
FreeRows(m)   == Rows \ DOMAIN m
FreeFiles(m)  == Files \ {m[t] : t \in DOMAIN m}
Extended(m, T, f(_)) == [t \in DOMAIN m \cup T |-> IF t \in T THEN f(t) ELSE m[t]]

(* Faulty variant: the scan's titles are taken for the files, one by one. *)
TitleMap_Identity == [i \in 0 .. Cardinality(Files) - 1 |-> i]

(* _build_title_map_from_tracks: the rows at least as long as some cutoff,   *)
(* when there are as many of them as files. All rows, the default of        *)
(* MakeMKV and then the lengths themselves are tried as cutoffs; sets that  *)
(* grow by dropping the cutoff and count the same are the same. They map to  *)
(* the numbers of the files in order.                                       *)
TitleMap ==
    LET kept(c)  == {t \in Rows : Length(t) >= c}
        fitting  == {c \in Lengths \cup {0, MinLength} : Cardinality(kept(c)) = Cardinality(Files)}
    IN IF fitting = {} \/ Files = {} THEN << >>
       ELSE LET titles == kept(CHOOSE c \in fitting : TRUE)
            IN [t \in titles |-> Rank(t, titles)]

(* Pass 0, imports only: the file with the number the title map gives. *)
ByTitleMap ==
    LET number == TitleMap
        named  == {t \in DOMAIN number : \E f \in Files : f[2] = number[t]}
    IN [t \in named |-> CHOOSE f \in Files : f[2] = number[t]]

(* Pass 1: a row that names a file; the first of several. *)
ByName(m) ==
    LET first == {t \in FreeRows(m) : /\ row[t].name \in FreeFiles(m)
                                      /\ \A u \in FreeRows(m) : row[u].name = row[t].name => u >= t}
    IN Extended(m, first, LAMBDA t : row[t].name)

(* Pass 2: the only file with the prefix of a row; the first row.            *)
ByStem(m) ==
    LET ofStem(t) == {f \in FreeFiles(m) : f[1] = row[t].name[1]}
        named     == {t \in FreeRows(m) : row[t].name # Basename}
        first     == {t \in named : /\ Cardinality(ofStem(t)) = 1
                                    /\ \A u \in named : row[u].name[1] = row[t].name[1] => u >= t}
    IN Extended(m, first, LAMBDA t : CHOOSE f \in ofStem(t) : TRUE)

(* Pass 3: as many rows as files are left, and they are paired in order. *)
ByPosition(m) ==
    LET rows  == FreeRows(m)
        files == FreeFiles(m)
        at(t) == CHOOSE f \in files : FileRank(f, files) = Rank(t, rows)
    IN IF Cardinality(rows) # Cardinality(files) THEN m ELSE Extended(m, rows, at)

Matching == ByPosition(ByStem(ByName(IF Import THEN ByTitleMap ELSE << >>)))

Reconcile ==
    /\ pc = "reconcile"
    /\ row' = IF Files = {} THEN row
              ELSE LET m == Matching
                   IN [t \in Titles |-> IF t \in DOMAIN m THEN [row[t] EXCEPT !.name = m[t]]
                                                         ELSE row[t]]
    /\ pc' = IF Import THEN "remove"
             ELSE IF Rows # {} /\ \A t \in Rows : ~row[t].ripped THEN "failed"
             ELSE "finalize"
    /\ UNCHANGED <<disc, scans, next, file, final, clashed, made, edits>>

(* Faulty variant: without the guard that keeps the names of kept rows. *)
Removed_Unguarded == {row[t].name : t \in {u \in Rows : row[u].process = "no"}}

(* _remove_deselected_track_files: names of deselected rows that no other    *)
(* row has.                                                                 *)
Removed ==
    LET kept == {row[t].name : t \in {u \in Rows : row[u].process # "no"}}
    IN {row[t].name : t \in {u \in Rows : row[u].process = "no"}} \ kept

RemoveDeselected ==
    /\ pc = "remove"
    /\ file' = [f \in FileName |-> IF f \in Removed THEN NoTitle ELSE file[f]]
    /\ pc' = "mark"
    /\ UNCHANGED <<disc, scans, next, row, final, clashed, made, edits>>

MarkRipped ==
    /\ pc = "mark"
    /\ row' = [t \in Titles |-> IF t \in Rows THEN [row[t] EXCEPT !.ripped = row[t].name \in Files]
                                              ELSE Absent]
    /\ pc' = "finalize"
    /\ UNCHANGED <<disc, scans, next, file, final, clashed, made, edits>>

-----------------------------------------------------------------------------
(* A track's {title} is its own or the job's. *)
TitleOf(t) == IF row[t].title # Unnamed THEN row[t].title ELSE "job"

(* render_track_title: the user's name for the track, cleaned at once; for a *)
(* track of a series that no episode was found for, its title and number;   *)
(* else the pattern's, which has the title in it and is not cleaned yet.    *)
Rendered(t, series, clean) ==
    IF row[t].custom # Unnamed THEN clean[<<row[t].custom, <<>> >>]
    ELSE <<TitleOf(t), IF t \in series THEN <<t>> ELSE <<>> >>

(* render_track_folder: episodes go to the show's folder, films to their own. *)
Folder(t, series, clean) == clean[<<IF t \in series THEN "job" ELSE TitleOf(t), <<>> >>]

(* render_all_tracks: names that occur twice get the number of the track,    *)
(* whatever folders they are for; _move_track cleans them after that.        *)
Destination(t, series, clean) ==
    LET name  == Rendered(t, series, clean)
        taken == \E u \in Rows \ {t} : Rendered(u, series, clean) = name
    IN <<Folder(t, series, clean), clean[IF taken THEN Numbered(name, t) ELSE name]>>

(* The rows are taken in order; what was moved is not there for a later one. *)
Moved == {t \in Rows : row[t].name \in Files
                       /\ \A u \in Rows : row[u].name = row[t].name => u >= t}

(* _move_track: into place, over whatever was there. *)
MoveTracks(series, clean) ==
    LET to   == [t \in Moved |-> Destination(t, series, clean)]
        over(t) == \E u \in Moved : u > t /\ to[u] = to[t]
        differ(t) == \E u \in Moved : /\ to[u] = to[t]
                                      /\ Rendered(u, series, clean) # Rendered(t, series, clean)
    IN /\ final' = {file[row[t].name] : t \in {x \in Moved : ~over(x)}}
       /\ clashed' = {file[row[t].name] : t \in {x \in Moved : differ(x)}}
       /\ file' = [f \in FileName |-> IF f \in {row[t].name : t \in Moved} THEN NoTitle
                                                                       ELSE file[f]]

(* _move_untracked_mkvs: all files go by the job's name, each with its place *)
(* in the list if there are several.                                        *)
MoveUntracked ==
    /\ final' = {file[f] : f \in Files}
    /\ file' = [f \in FileName |-> NoTitle]
    /\ UNCHANGED clashed

(* finalize_output. Any of the tracks may be of a series. *)
FinalizeOutput ==
    /\ pc = "finalize"
    /\ IF Moved # {} THEN \E series \in SUBSET Rows, clean \in Cleanings : MoveTracks(series, clean)
                      ELSE MoveUntracked
    /\ pc' = "done"
    /\ UNCHANGED <<disc, scans, next, row, made, edits>>

Next ==
    \/ PrepFails \/ Scan \/ AddTrack \/ ScanBreaks \/ Retry \/ ScanDone
    \/ StartRip \/ StartFails
    \/ SaveTitle \/ RipDone \/ TitleError \/ SaveUnseen \/ RunFails \/ RipTitle \/ TitlesDone
    \/ Reconcile \/ RemoveDeselected \/ MarkRipped \/ FinalizeOutput
    \/ ChangeJobConfig
    \/ \E t \in Titles : UpdateTrackFields(t) \/ UpdateTrackTitle(t) \/ ClearTrackTitle(t)

Spec == Init /\ [][Next]_vars

-----------------------------------------------------------------------------
OnDisk == {file[f] : f \in Files} \cup final
Scanned == Rows = Titles

(* No title that was saved and is not deselected is lost: its file is still  *)
(* in the raw directory or has arrived under a name of its own, whatever the *)
(* user edited meanwhile, short of clearing the name of its row. Tracks of   *)
(* one name never take each other's place; only names that were different   *)
(* and were made the same afterwards, by the cleaning or the appended       *)
(* numbers, do (folder_ripper.py 155-161 tells of files deleted "out from   *)
(* under us"; naming.py 359-362 of names that collide).                     *)
KeptSurvive ==
    Scanned => \A t \in made :
                   \/ t \in OnDisk
                   \/ t \in clashed
                   \/ Import /\ (row[t].process = "no" \/ row[t].name = Basename)

(* When an import's scan was complete, the row of every title that was saved *)
(* names the file that title is in, up to an edit of the user: whatever      *)
(* MakeMKV skipped and however it renumbered (folder_ripper.py 263-277).     *)
RowsFindTheirFiles ==
    (Import /\ Scanned /\ pc \in {"remove", "mark", "finalize"}) =>
        \A f \in Files : row[file[f]].name \in {f, Basename}

(* A rip that left a file is never given up as empty, and one that goes on   *)
(* has left a file, when the scan was complete and no name was cleared       *)
(* (arm_ripper.py 124-138).                                                 *)
EmptyRipTrue ==
    [][(pc = "reconcile" /\ pc' # pc /\ Scanned /\ \A t \in Titles : row[t].name # Basename) =>
           (pc' = "failed" <=> made = {} /\ ~Import)]_vars
=============================================================================
