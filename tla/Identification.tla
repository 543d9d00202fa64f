---------------------------- MODULE Identification ----------------------------
(***************************************************************************)
(* What a disc is and what it is called (arm/ripper/identify.py, and what   *)
(* main.py does with the result up to the duplicate check).                 *)
(*                                                                          *)
(* The ripper waits for the drive, mounts the disc, finds out its type and  *)
(* label, asks for its title - by the checksum of a DVD, in the XML of a    *)
(* Blu-ray, then by searching with shorter and shorter queries - and falls  *)
(* back to the label. It works on a copy of the job's row: a column is read *)
(* again only after a commit, and a commit writes the columns the ripper    *)
(* changed. The user may change the row at any time.                        *)
(*                                                                          *)
(* Abstractions: a title is where it comes from; a query is its separators, *)
(* "-" and "+", which are what it is cut at, and starts with a word; a work *)
(* the providers know is how well its name fits the disc's, how far its     *)
(* year is from the disc's, and its type.                                   *)
(***************************************************************************)
EXTENDS Naturals, Sequences, FiniteSets

CONSTANTS
    Discs,      \* what a disc may be, see Disc
    Configs,    \* settings, see Config
    Queries,    \* what may be searched for: sequences of "-" and "+"
    Works,      \* what the providers may find, see Work
    MaxPolls,   \* looks at a drive that is not ready, 40 in 120 s
    MaxMounts,  \* max_attempts
    MaxEdits,   \* bound: calls of the user
    MaxBreaks   \* bound: steps that raise, and umounts that are refused

Video     == {"dvd", "bluray", "bluray4k"}
Disctypes == Video \cup {"unknown", "data", "music"}
Disc == [udev : Disctypes, later : Disctypes, files : Video \cup {"data", "hddvd"},
         labelled : BOOLEAN]

(* GET_VIDEO_TITLE, PREVENT_99, and the provider that is asked: without a    *)
(* key of its own, TMDb's part is taken by OMDb.                            *)
Config == [title : BOOLEAN, prevent99 : BOOLEAN, provider : {"omdb", "tmdb"}]

(* title_similarity, in tenths, 10 for the same name; and whether parse_label *)
(* finds the number of the disc or the season in the label or the title.     *)
Fits          == 0..10
LabelNumbered == BOOLEAN

(* years: how far the year is from the disc's, 3 for any farther one and 4   *)
(* if the provider gives none.                                               *)
Work == [fit : Fits, years : 0..4, type : {"movie", "series"}]

ASSUME IdentificationAssumption ==
    /\ Discs \subseteq Disc
    /\ Configs \subseteq Config
    /\ Works \subseteq Work
    /\ Queries \subseteq Seq({"-", "+"})
    /\ MaxPolls \in Nat \ {0} /\ MaxMounts \in Nat \ {0}
    /\ MaxEdits \in Nat /\ MaxBreaks \in Nat

VARIABLES
    disc,      \* the disc; never changes
    config,    \* the settings; never change
    row,       \* the job in the database
    seen,      \* the ripper's copy of it, Expired after a commit
    unsaved,   \* the columns the ripper has changed in its copy
    expected,  \* where the ExpectedTitle of the job comes from
    pc,
    drive,     \* what the drive says: spinning, ok or empty
    mounted,
    tries,     \* polls, then attempts to mount
    query,     \* what is searched for, and in which year if any
    year,
    asked,     \* history: the searches so far, by the length of the query
    offer,     \* the answer the matcher took a work from, and the work
    pick,
    broke,     \* history: the places where something raised, or umount was refused
    edits

vars == <<disc, config, row, seen, unsaved, expected, pc, drive, mounted, tries, query, year,
          asked, offer, pick, broke, edits>>

-----------------------------------------------------------------------------
Columns == {"disctype", "label", "title", "year", "nice", "type", "number", "multi"}
Expired == [expired |-> TRUE]
See     == IF seen = Expired THEN row ELSE seen
Changed(new) == unsaved \cup {c \in Columns : new[c] # See[c]}

(* The copy is changed, or read for the first time; the columns that differ  *)
(* are written; or the row is as the ripper left it.                        *)
Keep(new) == seen' = new /\ unsaved' = Changed(new) /\ row' = row
Save(new) == /\ row' = [c \in Columns |-> IF c \in Changed(new) THEN new[c] ELSE row[c]]
             /\ seen' = Expired
             /\ unsaved' = {}

Goto(place)  == pc' = place
Searches     == UNCHANGED <<query, year, asked, offer, pick>>
Device       == UNCHANGED <<drive, mounted, tries>>
Quiet        == UNCHANGED <<disc, config, edits>>
Break(place) == Cardinality(broke) < MaxBreaks /\ broke' = broke \cup {place}
Still        == Quiet /\ UNCHANGED broke

Init ==
    /\ disc \in Discs
    /\ config \in Configs
    /\ row = [disctype |-> disc.udev, label |-> disc.labelled /\ disc.udev # "unknown",
              title |-> "", year |-> FALSE, nice |-> FALSE, type |-> "unknown", number |-> FALSE,
              multi |-> FALSE]
    /\ seen = Expired /\ unsaved = {}
    /\ expected = "none"
    /\ pc = "begin"
    /\ drive \in {"spinning", "ok"} /\ mounted = FALSE /\ tries = 0
    /\ query = << >> /\ year = FALSE /\ asked = {}
    /\ offer = {} /\ pick = {}
    /\ broke = {} /\ edits = 0

-----------------------------------------------------------------------------
SpinUp ==
    /\ drive = "spinning" /\ drive' = "ok"
    /\ UNCHANGED <<disc, config, row, seen, unsaved, expected, pc, mounted, tries, query, year,
                   asked, offer, pick, broke, edits>>

OpenTray ==
    /\ drive # "empty" /\ ~mounted /\ drive' = "empty"
    /\ UNCHANGED <<disc, config, row, seen, unsaved, expected, pc, mounted, tries, query, year,
                   asked, offer, pick, broke, edits>>

(* update_job_title: whatever is given, the title is a nice one from now on. *)
UpdateJobTitle ==
    /\ edits < MaxEdits /\ edits' = edits + 1
    /\ \E new \in {[row EXCEPT !.title = "user"], [row EXCEPT !.type = "series"],
                   [row EXCEPT !.disctype = "music"]} :
         row' = [new EXCEPT !.nice = TRUE]
    /\ UNCHANGED <<disc, config, seen, unsaved, expected, pc, drive, mounted, tries, query, year,
                   asked, offer, pick, broke>>

-----------------------------------------------------------------------------
(* identify *)
Begin ==
    /\ pc = "begin"
    /\ Keep(See)
    /\ Goto(IF See.disctype = "music" THEN "idle" ELSE "ready")
    /\ Device /\ Searches /\ Still /\ UNCHANGED expected

(* Faulty variant: looks that show a drive spinning are not counted. *)
WaitForDriveReady_Patient ==
    /\ pc = "ready"
    /\ tries' = 0
    /\ Goto(CASE drive = "ok" -> "mount" [] drive = "empty" -> "detect" [] OTHER -> "ready")
    /\ UNCHANGED <<row, seen, unsaved, expected, drive, mounted>> /\ Searches /\ Still

WaitForDriveReady ==
    /\ pc = "ready"
    /\ IF drive = "spinning" /\ tries + 1 < MaxPolls
         THEN Goto("ready") /\ tries' = tries + 1
         ELSE Goto(IF drive = "ok" THEN "mount" ELSE "detect") /\ tries' = 0
    /\ UNCHANGED <<row, seen, unsaved, expected, drive, mounted>> /\ Searches /\ Still

(* check_mount, one attempt *)
CheckMount ==
    /\ pc = "mount"
    /\ \/ drive = "ok" /\ mounted' = TRUE /\ Goto("detect") /\ tries' = 0
       \/ /\ mounted' = mounted
          /\ IF drive # "empty" /\ tries + 1 < MaxMounts
               THEN Goto("mount") /\ tries' = tries + 1
               ELSE Goto("detect") /\ tries' = 0
    /\ UNCHANGED <<row, seen, unsaved, expected, drive>> /\ Searches /\ Still

(* get_disc_type: the copy with the type the files tell; an HD DVD's do not. *)
WithDiscType ==
    IF See.disctype = "music" \/ disc.files = "hddvd" THEN See
    ELSE [See EXCEPT !.disctype = disc.files]

DetectType ==
    /\ pc = "detect"
    /\ IF See.disctype # "unknown" THEN Keep(See) /\ Goto("typed")
       ELSE IF mounted /\ WithDiscType # See THEN Save(WithDiscType) /\ Goto("typed")
       ELSE Keep(See) /\ Goto("udev")
    /\ Device /\ Searches /\ Still /\ UNCHANGED expected

(* parse_udev, once more; what is still unknown fails the job. *)
RereadUdev ==
    /\ pc = "udev"
    /\ LET new == [See EXCEPT !.disctype = disc.later, !.label = @ \/ disc.labelled]
       IN IF disc.later = "unknown" THEN Keep(new) /\ Goto("failed")
          ELSE Save(new) /\ Goto("typed")
    /\ Device /\ Searches /\ Still /\ UNCHANGED expected

Typed ==
    /\ pc = "typed"
    /\ IF See.disctype = "music" \/ ~mounted
         THEN Keep(See) /\ Goto("idle")
         ELSE /\ Keep(WithDiscType)
              /\ Goto(IF WithDiscType.disctype \in Video /\ config.title THEN "label" ELSE "umount")
    /\ Device /\ Searches /\ Still /\ UNCHANGED expected

(* resolve_disc_label *)
ResolveDiscLabel ==
    /\ pc = "label"
    /\ \E found \in BOOLEAN : Keep([See EXCEPT !.label = @ \/ found])
    /\ Goto(IF See.disctype = "dvd" THEN "crc" ELSE "xml")
    /\ Device /\ Searches /\ Still /\ UNCHANGED expected

(* identify_dvd: the checksum is known, or not, or cannot be told. *)
IdentifyDvd ==
    /\ pc = "crc"
    /\ \/ Keep(See) /\ Goto("track99")
       \/ /\ \E type \in {"movie", "series"} :
               Save([See EXCEPT !.title = "crc", !.year = TRUE, !.nice = TRUE, !.type = type])
          /\ Goto("crcTitle")
    /\ Device /\ Searches /\ Still /\ UNCHANGED expected

(* _write_movie_expected_title *)
WriteExpectedTitle ==
    /\ \/ pc = "crcTitle" /\ expected' = "crc" /\ Goto("track99")
       \/ pc = "matchTitle" /\ expected' = "match" /\ Goto("last")
    /\ Keep(See)
    /\ Device /\ Searches /\ Still

(* _detect_track_99 raises through the umount when such discs are refused. *)
DetectTrack99 ==
    /\ pc = "track99"
    /\ Keep(See)
    /\ \/ Goto("judge")
       \/ config.prevent99 /\ Goto("abort")
    /\ Device /\ Searches /\ Still /\ UNCHANGED expected

(* identify_bluray: the name in the XML, or the label in its place. *)
IdentifyBluray ==
    /\ pc = "xml"
    /\ \/ Keep(See)
       \/ Save([See EXCEPT !.title = "xml", !.year = TRUE])
    /\ Goto("judge")
    /\ Device /\ Searches /\ Still /\ UNCHANGED expected

-----------------------------------------------------------------------------
Stages == {"first", "withYear", "yearBefore", "withoutYear", "dash", "word", "wordAlone"}

Has(q, separator) == \E i \in DOMAIN q : q[i] = separator
CutAt(q, separator) ==
    LET last == CHOOSE i \in DOMAIN q : /\ q[i] = separator
                                        /\ \A j \in DOMAIN q : q[j] = separator => j <= i
    IN SubSeq(q, 1, last - 1)

(* Faulty variant: a search is made whatever is known. *)
SearchMetadata_Always ==
    /\ pc = "judge"
    /\ Keep(See)
    /\ IF See.title = "" /\ ~See.label THEN Goto("last") /\ UNCHANGED <<query, year>>
       ELSE /\ query' \in Queries
            /\ year' = See.year
            /\ Goto("first")
    /\ Device /\ Still /\ UNCHANGED <<expected, asked, offer, pick>>

(* _search_metadata, unless the title is a nice one. *)
SearchMetadata ==
    /\ pc = "judge"
    /\ Keep(See)
    /\ IF See.nice \/ (See.title = "" /\ ~See.label) THEN Goto("last") /\ UNCHANGED <<query, year>>
       ELSE /\ query' \in Queries
            /\ year' = See.year
            /\ Goto("first")
    /\ Device /\ Still /\ UNCHANGED <<expected, asked, offer, pick>>

YearAsked ==
    CASE pc \in {"withoutYear", "wordAlone"} \/ ~year -> "none"
      [] pc = "yearBefore" -> "before"
      [] OTHER -> "given"

(* Faulty variant: the last cut is not made. *)
Shorter_StopsShort ==
    IF Has(query, "-") THEN [stage |-> "dash", query |-> CutAt(query, "-")]
    ELSE IF Has(query, "+") /\ Len(query) > 1 THEN [stage |-> "word", query |-> CutAt(query, "+")]
    ELSE [stage |-> "last", query |-> query]

(* The query is cut at its last dash while it has one, then at its last plus;*)
(* or the search is given up.                                               *)
Shorter ==
    IF Has(query, "-") THEN [stage |-> "dash", query |-> CutAt(query, "-")]
    ELSE IF Has(query, "+") THEN [stage |-> "word", query |-> CutAt(query, "+")]
    ELSE [stage |-> "last", query |-> query]

(* identify_loop, after a search that found nothing to rely on. *)
After ==
    CASE pc = "first" -> [stage |-> IF year THEN "withYear" ELSE "withoutYear", query |-> query]
      [] pc = "withYear" -> [stage |-> "yearBefore", query |-> query]
      [] pc = "yearBefore" -> [stage |-> "withoutYear", query |-> query]
      [] pc = "word" -> [stage |-> "wordAlone", query |-> query]
      [] OTHER -> Shorter

(* What a provider may answer; nothing too when it fails or refuses its key. *)
(* OMDb lists works of both types, or the one of exactly that name; TMDb is  *)
(* asked for series only when it knows no movie.                            *)
OmdbAnswers == SUBSET Works
TmdbAnswers ==
    (SUBSET {w \in Works : w.type = "movie"}) \cup (SUBSET {w \in Works : w.type = "series"})
Answers     == IF config.provider = "tmdb" THEN TmdbAnswers ELSE OmdbAnswers

(* year_proximity, in tenths *)
YearProximity(w) ==
    IF ~See.year \/ w.years = 4 THEN 5
    ELSE CASE w.years = 0 -> 10 [] w.years = 1 -> 8 [] w.years = 2 -> 5 [] OTHER -> 0

(* type_consistency: neutral, for a type found before ends the search. *)
TypeConsistency == 5

(* Faulty variant: the year of the disc is not weighed. *)
Score_Yearless(w) == 90 * w.fit + 5 * 5 + 5 * TypeConsistency

(* _score_one, in thousandths *)
Score(w) ==
    IF See.year THEN 70 * w.fit + 25 * YearProximity(w) + 5 * TypeConsistency
    ELSE 90 * w.fit + 5 * YearProximity(w) + 5 * TypeConsistency

MinConfidence == 600

(* score_results: the first of the best, if it is good enough. *)
Best(found) ==
    {w \in found : Score(w) >= MinConfidence /\ \A v \in found : Score(v) <= Score(w)}

(* metadata_selector: nothing, or only works too far off; or one is taken. *)
MetadataSelector ==
    /\ pc \in Stages
    /\ Keep(See)
    /\ asked' = asked \cup {<<Len(query), YearAsked>>}
    /\ \E found \in Answers :
         IF Best(found) = {}
           THEN Goto(After.stage) /\ query' = After.query /\ UNCHANGED <<offer, pick>>
           ELSE /\ Goto("match") /\ query' = query
                /\ offer' = found
                /\ \E w \in Best(found) : pick' = {w}
    /\ Device /\ Still /\ UNCHANGED <<expected, year>>

(* update_job, with the number of the disc or the season if there is one. *)
UpdateJob ==
    /\ pc = "match"
    /\ \E w \in pick, numbered \in LabelNumbered :
         /\ Save([See EXCEPT !.title = "match", !.year = w.years # 4, !.nice = TRUE,
                             !.type = w.type, !.number = @ \/ numbered])
         /\ Goto(IF w.type = "movie" THEN "matchTitle" ELSE "last")
    /\ offer' = {} /\ pick' = {}
    /\ Device /\ Still /\ UNCHANGED <<expected, query, year, asked>>

-----------------------------------------------------------------------------
(* Faulty variant: what was found is not looked at. *)
ApplyLabelAsTitle_Always ==
    /\ pc = "last"
    /\ Save([See EXCEPT !.title = IF See.label THEN "label" ELSE "",
                        !.year = IF See.label THEN @ ELSE FALSE,
                        !.nice = FALSE])
    /\ Goto("multi")
    /\ Device /\ Searches /\ Still /\ UNCHANGED expected

(* _apply_label_as_title, if the copy has no title. *)
ApplyLabelAsTitle ==
    /\ pc = "last"
    /\ IF See.title # "" THEN Keep(See)
       ELSE Save([See EXCEPT !.title = IF See.label THEN "label" ELSE "",
                             !.year = IF See.label THEN @ ELSE FALSE,
                             !.nice = FALSE])
    /\ Goto("multi")
    /\ Device /\ Searches /\ Still /\ UNCHANGED expected

EnableMultiTitle ==
    /\ pc = "multi"
    /\ IF See.type = "series" /\ ~See.multi THEN Save([See EXCEPT !.multi = TRUE]) ELSE Keep(See)
    /\ Goto("umount")
    /\ Device /\ Searches /\ Still /\ UNCHANGED expected

(* Faulty variant: not when the identification raises. *)
Unmount_Unprotected ==
    /\ pc \in {"umount", "abort"}
    /\ mounted' = (pc = "abort") /\ broke' = broke
    /\ Goto(IF pc = "abort" THEN "failed" ELSE "idle")
    /\ UNCHANGED <<row, seen, unsaved, expected, drive, tries>> /\ Searches /\ Quiet

(* umount, once: that it is refused, of a disc in use say, is only logged.   *)
Unmount ==
    /\ pc \in {"umount", "abort"}
    /\ \/ mounted' = FALSE /\ broke' = broke
       \/ mounted' = mounted /\ Break("umount")
    /\ Goto(IF pc = "abort" THEN "failed" ELSE "idle")
    /\ UNCHANGED <<row, seen, unsaved, expected, drive, tries>> /\ Searches /\ Quiet

(* main: the status is saved and with it the copy ... *)
Identified ==
    /\ pc = "idle"
    /\ Save(See)
    /\ Goto("dupes")
    /\ Device /\ Searches /\ Still /\ UNCHANGED expected

(* ... and job_dupe_check takes over what the only other successful rip with *)
(* the label was called, if there is one.                                   *)
JobDupeCheck ==
    /\ pc = "dupes"
    /\ \/ Keep(See)
       \/ /\ See.label
          /\ \E nice \in BOOLEAN, type \in {"unknown", "movie", "series"} :
               Save([See EXCEPT !.title = "previous", !.year = TRUE, !.nice = nice, !.type = type])
    /\ Goto("done")
    /\ Device /\ Searches /\ Still /\ UNCHANGED expected

(* Who goes on when a step raises: the search is given up, and so is the     *)
(* checksum; between the mount and the umount the disc is unmounted first.   *)
Handler ==
    CASE pc \in Stages \cup {"match", "matchTitle"} -> "last"
      [] pc \in {"crc", "crcTitle"} -> "track99"
      [] pc \in {"label", "track99", "xml", "judge", "last", "multi"} -> "abort"
      [] OTHER -> "failed"

(* A query, the matcher or a commit raises; after a commit that could not be *)
(* made the session is rolled back, and the copy with it.                   *)
Raise ==
    /\ pc \notin {"done", "failed"}
    /\ Break(pc)
    /\ Goto(Handler)
    /\ seen' \in {seen, Expired}
    /\ unsaved' = IF seen' = Expired THEN {} ELSE unsaved
    /\ offer' = {} /\ pick' = {}
    /\ UNCHANGED <<row, expected, query, year, asked>> /\ Device /\ Quiet

Ripper ==
    \/ Begin \/ WaitForDriveReady \/ CheckMount \/ DetectType \/ RereadUdev \/ Typed
    \/ ResolveDiscLabel \/ IdentifyDvd \/ WriteExpectedTitle \/ DetectTrack99 \/ IdentifyBluray
    \/ SearchMetadata \/ MetadataSelector \/ UpdateJob \/ ApplyLabelAsTitle
    \/ EnableMultiTitle \/ Unmount \/ Identified \/ JobDupeCheck

Next == Ripper \/ Raise \/ SpinUp \/ OpenTray \/ UpdateJobTitle

(* The ripper goes on. It polls the drive and retries the mount a number of  *)
(* times; mount, umount, lsdvd and blkid themselves have no timeout here, and *)
(* that the kernel ends them, with an error if the drive is stuck, is assumed.*)
Spec == Init /\ [][Next]_vars /\ WF_vars(Ripper)

-----------------------------------------------------------------------------
(* A title that was found stays until the duplicate check, unless the user   *)
(* changes it: the label, or what another search says, never comes over it   *)
(* (identify.py 329-333).                                                    *)
TitleKept ==
    [][row.title \in {"crc", "match"} /\ pc # "dupes"
         => row'.title \in {row.title, "user"} /\ row'.nice]_<<row, pc>>

AskedEnough ==
    LET known == IF year THEN {"given", "before", "none"} ELSE {"none"} IN
    /\ query = << >>
    /\ <<0, IF year THEN "given" ELSE "none">> \in asked
    /\ \E n \in {a[1] : a \in asked} :
         /\ \A a \in asked : a[1] <= n
         /\ \A y \in known : <<n, y>> \in asked

(* A search that nothing raises in gives up only after the whole query was   *)
(* asked for in every way and its first word, with the year if it is known    *)
(* (identify.py 794-827). What raises ends it at once (300-301).             *)
(* (Without the year the first word is left out when dashes alone were cut.)  *)
GivesUpLast ==
    [][pc' = "last" /\ pc \in Stages /\ pc \notin broke' => AskedEnough']_<<pc, asked>>

(* A work of the disc's name and year is never passed over for another, a    *)
(* remake say, in whatever order and by whatever search the provider named   *)
(* them (arm_matcher.py 395-461).                                           *)
ExactWins ==
    (\E w \in offer : w.fit = 10 /\ w.years = 0) /\ See.year
      => \A w \in pick : w.fit = 10 /\ w.years = 0

(* The title the tracks are compared with is of what the disc was identified *)
(* as, while the user has not meddled: one checksum or one match decides     *)
(* (identify.py 329-330, 552-560, 718-727).                                  *)
ExpectedAgrees ==
    pc = "umount" /\ edits = 0 /\ expected # "none" => row.title = expected /\ row.nice

(* Identification leaves a disc mounted whose type its files tell only when  *)
(* the umount is refused, or when the job's row cannot be read or written     *)
(* before the part that is protected, or by the umount itself; not by what    *)
(* raises in between (identify.py 412-424). One of an unknown type is left     *)
(* mounted, and one that udev or the user has meanwhile declared to be music. *)
Unprotected == {"detect", "udev", "typed", "umount", "abort"}
NotLeftMounted ==
    pc \in {"idle", "dupes", "done", "failed"} /\ mounted
      => row.disctype = "music" \/ disc.files = "hddvd" \/ broke \cap Unprotected # {}

(* Identification ends, with a result or with a failure, also of a drive     *)
(* that spins for ever (identify.py 95-202).                                 *)
Finishes == <>(pc \in {"done", "failed"})
=============================================================================
