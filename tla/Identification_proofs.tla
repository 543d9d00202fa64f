------------------------ MODULE Identification_proofs ------------------------
(***************************************************************************)
(* Proofs about Identification: a title that was found is kept, the right   *)
(* work is taken, the tracks are compared with the title the disc was       *)
(* identified as, and a disc is not left mounted, for every disc, setting,  *)
(* query, answer of the providers and call of the user.                     *)
(***************************************************************************)
EXTENDS Identification, SequenceTheorems, WellFoundedInduction, NaturalsInduction, TLAPS

Titles == {"", "user", "crc", "xml", "match", "label", "previous"}
Types  == {"unknown", "movie", "series"}
Rows   == [disctype : Disctypes, label : BOOLEAN, title : Titles, year : BOOLEAN, nice : BOOLEAN,
           type : Types, number : BOOLEAN, multi : BOOLEAN]

BeforeTitle == {"begin", "ready", "mount", "detect", "udev", "typed", "label", "crc", "xml"}
Places == BeforeTitle \cup Stages \cup
          {"crcTitle", "matchTitle", "track99", "judge", "match", "last", "multi", "umount",
           "abort", "idle", "dupes", "done", "failed"}

(* The copy is of the row, and the columns that wait to be written are not   *)
(* those of the title.                                                      *)
TypeOK ==
    /\ disc \in Disc /\ config \in Config
    /\ row \in Rows
    /\ seen \in Rows \cup {Expired}
    /\ unsaved \subseteq Columns \ {"title", "nice"}
    /\ seen = Expired => unsaved = {}
    /\ expected \in {"none", "crc", "match"}
    /\ pc \in Places
    /\ mounted \in BOOLEAN
    /\ edits \in Nat

(* What was found is in the copy too, once that is read, and is a nice title.*)
Kept ==
    /\ row.title \in {"crc", "match"} => row.nice
    /\ seen # Expired /\ seen.nice => row.nice
    /\ seen # Expired /\ row.title \in {"crc", "match"} => seen.title = row.title /\ seen.nice
    /\ pc \in BeforeTitle => row.title \in {"", "user"}
    /\ pc \in Stages \cup {"match"} => seen # Expired /\ ~seen.nice
    /\ pc = "dupes" => seen = Expired

(* The work is one of the best of the answer, judged by the copy. *)
Picked ==
    IF pc = "match" THEN offer \subseteq Works /\ pick \subseteq Best(offer)
    ELSE offer = {} /\ pick = {}

(* Where the title the tracks are compared with comes from, step by step.    *)
(* As long as the user does nothing, the copy's title is the row's.          *)
Expects ==
    edits = 0 =>
      /\ See.title = row.title /\ See.nice = row.nice
      /\ pc \in BeforeTitle \cup Stages \cup {"match", "crcTitle", "matchTitle"} => expected = "none"
      /\ pc = "crcTitle" => row.title = "crc" /\ row.nice
      /\ pc = "matchTitle" => row.title = "match" /\ row.nice
      /\ pc \in {"track99", "judge", "last", "multi", "umount"} /\ expected # "none"
           => row.title = expected /\ row.nice

(* A mounted disc is either on its way to the umount, or music, or the place *)
(* where it was left mounted is on record.                                  *)
Mounted ==
    /\ seen # Expired /\ seen.disctype = "music" => row.disctype = "music"
    /\ pc \in {"begin", "ready", "mount"} => ~mounted
    /\ mounted /\ disc.files # "hddvd" /\ broke \cap Unprotected = {} =>
         /\ pc # "udev"
         /\ pc = "idle" => See.disctype = "music" /\ row.disctype = "music"
         /\ pc \in {"dupes", "done", "failed"} => row.disctype = "music"

(* What has been asked for: nothing, then the whole query in one way after   *)
(* the other, then shorter ones. The first is the longest.                  *)
Searched ==
    LET n     == Len(query)
        ways  == IF year THEN {"given", "before", "none"} ELSE {"none"}
    IN
    /\ query \in Seq({"-", "+"}) /\ year \in BOOLEAN
    /\ \A a \in asked : a[1] \in Nat
    /\ pc \in BeforeTitle \cup {"crcTitle", "track99", "judge", "first"} => asked = {}
    /\ pc \in {"withYear", "yearBefore"} => year /\ <<n, "given">> \in asked
    /\ pc = "withoutYear" =>
         IF year THEN {<<n, "given">>, <<n, "before">>} \subseteq asked ELSE <<n, "none">> \in asked
    /\ pc \in {"withYear", "yearBefore", "withoutYear"} => \A a \in asked : a[1] = n
    /\ pc \in {"dash", "word", "wordAlone"} =>
         \E m \in Nat : /\ n <= m
                        /\ \A a \in asked : a[1] <= m
                        /\ \A way \in ways : <<m, way>> \in asked
    /\ pc = "wordAlone" => <<n, IF year THEN "given" ELSE "none">> \in asked

IdentificationInv == TypeOK /\ Kept /\ Picked /\ Expects /\ Mounted /\ Searched

-----------------------------------------------------------------------------
(* The copy. *)
LEMMA NotExpired == Expired \notin Rows
  <1>1. DOMAIN Expired = {"expired"}
    BY DEF Expired
  <1>2. \A r \in Rows : DOMAIN r = Columns
    BY DEF Rows, Columns
  <1> QED BY <1>1, <1>2 DEF Columns

LEMMA SeesRow == TypeOK => See \in Rows
  BY NotExpired DEF TypeOK, See

(* Reading the row, or changing columns other than those of the title. *)
LEMMA Keeps ==
  ASSUME TypeOK, NEW new \in Rows, Keep(new), new.title = See.title, new.nice = See.nice
  PROVE  /\ seen' = new /\ seen' # Expired /\ See' = new /\ row' = row
         /\ row' \in Rows /\ unsaved' \subseteq Columns \ {"title", "nice"}
  BY NotExpired DEF Keep, Changed, See, TypeOK

(* A column is written if it was changed, now or before. *)
LEMMA Saves ==
  ASSUME TypeOK, NEW new \in Rows, Save(new)
  PROVE  /\ seen' = Expired /\ See' = row' /\ unsaved' = {}
         /\ row' \in Rows
         /\ row'.title = IF new.title # See.title THEN new.title ELSE row.title
         /\ row'.nice = IF new.nice # See.nice THEN new.nice ELSE row.nice
         /\ row'.disctype \in {new.disctype, row.disctype}
         /\ new.disctype = See.disctype /\ seen = Expired => row'.disctype = row.disctype
  <1> DEFINE kept(c) == IF c \in Changed(new) THEN new[c] ELSE row[c]
  <1>1. row' = [c \in Columns |-> kept(c)] /\ seen' = Expired /\ unsaved' = {}
    BY DEF Save
  <1>2. row \in Rows
    BY DEF TypeOK
  <1>3. row' = [disctype |-> kept("disctype"), label |-> kept("label"), title |-> kept("title"),
                year |-> kept("year"), nice |-> kept("nice"), type |-> kept("type"),
                number |-> kept("number"), multi |-> kept("multi")]
    BY <1>1 DEF Columns
  <1>4. /\ kept("disctype") \in Disctypes /\ kept("label") \in BOOLEAN /\ kept("title") \in Titles
        /\ kept("year") \in BOOLEAN /\ kept("nice") \in BOOLEAN /\ kept("type") \in Types
        /\ kept("number") \in BOOLEAN /\ kept("multi") \in BOOLEAN
    BY <1>2 DEF Rows
  <1>5. row' \in Rows
    BY <1>3, <1>4 DEF Rows
  <1>6. /\ row'.title = kept("title") /\ row'.nice = kept("nice")
        /\ row'.disctype = kept("disctype")
    BY <1>3
  <1>7. /\ kept("title") = IF new.title # See.title THEN new.title ELSE row.title
        /\ kept("nice") = IF new.nice # See.nice THEN new.nice ELSE row.nice
    BY DEF Changed, Columns, TypeOK
  <1>8. new.disctype = See.disctype /\ seen = Expired => kept("disctype") = row.disctype
    BY DEF Changed, TypeOK
  <1>9. See' = row'
    BY <1>1 DEF See
  <1> QED BY <1>1, <1>5, <1>6, <1>7, <1>8, <1>9

-----------------------------------------------------------------------------
(* Types. *)
LEMMA FilesTyped ==
  ASSUME TypeOK
  PROVE  /\ WithDiscType \in Rows
         /\ WithDiscType.title = See.title /\ WithDiscType.nice = See.nice
         /\ WithDiscType.disctype = See.disctype
              \/ (disc.files # "hddvd" /\ WithDiscType.disctype = disc.files)
  <1>1. See \in Rows
    BY SeesRow
  <1>2. disc.files \in Video \cup {"data", "hddvd"}
    BY DEF TypeOK, Disc
  <1> QED BY <1>1, <1>2 DEF WithDiscType, Rows, Video, Disctypes

LEMMA TypeInit == Init => TypeOK
  <1> SUFFICES ASSUME Init PROVE TypeOK
    OBVIOUS
  <1>1. disc \in Disc /\ config \in Config
    BY IdentificationAssumption DEF Init
  <1>2. row \in Rows
    BY <1>1 DEF Init, Rows, Titles, Types, Disc
  <1> QED BY <1>1, <1>2 DEF Init, TypeOK, Places, BeforeTitle

(* Who goes on after a step that raises, and with what copy. *)
LEMMA Raises ==
  ASSUME Raise
  PROVE  /\ row' = row /\ seen' \in {seen, Expired} /\ See' \in {See, row}
         /\ pc' \in {"last", "track99", "abort", "failed"}
         /\ pc' = "last" => pc \in Stages \cup {"match", "matchTitle"}
         /\ pc' = "track99" => pc \in {"crc", "crcTitle"}
         /\ pc' = "failed" => pc \in {"begin", "ready", "mount", "idle", "dupes"} \cup Unprotected
                              \/ pc \notin Places
         /\ pc \in broke' /\ broke \subseteq broke'
  BY DEF Raise, Handler, Goto, Break, See, Stages, Places, BeforeTitle, Unprotected

LEMMA TypeStep == TypeOK /\ Picked /\ [Next]_vars => TypeOK'
  <1> SUFFICES ASSUME TypeOK, Picked, [Next]_vars PROVE TypeOK'
    OBVIOUS
  <1> USE DEF Searches, Device, Still, Quiet, Goto
  <1>a. See \in Rows
    BY SeesRow
  <1>b. disc \in Disc /\ disc' = disc /\ config' = config
    BY DEF TypeOK, Next, Ripper, SpinUp, OpenTray, UpdateJobTitle, Begin, WaitForDriveReady, CheckMount,
           DetectType, RereadUdev, Typed, ResolveDiscLabel, IdentifyDvd, WriteExpectedTitle,
           DetectTrack99, IdentifyBluray, SearchMetadata, MetadataSelector, UpdateJob,
           ApplyLabelAsTitle, EnableMultiTitle, Unmount, Identified, JobDupeCheck, Raise, vars
  <1>1. CASE WaitForDriveReady \/ CheckMount \/ Unmount \/ SpinUp \/ OpenTray \/ UNCHANGED vars
    BY <1>1 DEF TypeOK, WaitForDriveReady, CheckMount, Unmount, SpinUp, OpenTray, vars, Places,
                BeforeTitle
  <1>2. CASE UpdateJobTitle
    <2>1. row' \in Rows
      <3>1. PICK new \in {[row EXCEPT !.title = "user"], [row EXCEPT !.type = "series"],
                          [row EXCEPT !.disctype = "music"]} : row' = [new EXCEPT !.nice = TRUE]
        BY <1>2 DEF UpdateJobTitle
      <3>2. new \in Rows
        BY DEF TypeOK, Rows, Titles, Types, Disctypes
      <3> QED BY <3>1, <3>2 DEF Rows
    <2>2. UNCHANGED <<seen, unsaved, expected, pc, mounted>> /\ edits' = edits + 1
      BY <1>2 DEF UpdateJobTitle
    <2> QED BY <1>b, <2>1, <2>2 DEF TypeOK
  <1>3. CASE Begin \/ WriteExpectedTitle \/ DetectTrack99 \/ SearchMetadata
    <2>1. Keep(See)
      BY <1>3 DEF Begin, WriteExpectedTitle, DetectTrack99, SearchMetadata
    <2>2. /\ row' \in Rows /\ seen' \in Rows /\ seen' # Expired
          /\ unsaved' \subseteq Columns \ {"title", "nice"}
      BY <1>a, <2>1, Keeps
    <2>3. /\ expected' \in {"none", "crc", "match"} /\ pc' \in Places
          /\ mounted' = mounted /\ edits' = edits
      BY <1>3 DEF TypeOK, Begin, WriteExpectedTitle, DetectTrack99, SearchMetadata, Places,
                  BeforeTitle, Stages
    <2> QED BY <1>b, <2>2, <2>3 DEF TypeOK
  <1>4. CASE MetadataSelector
    <2>1. Keep(See)
      BY <1>4 DEF MetadataSelector
    <2>2. /\ row' \in Rows /\ seen' \in Rows /\ seen' # Expired
          /\ unsaved' \subseteq Columns \ {"title", "nice"}
      BY <1>a, <2>1, Keeps
    <2>3. After.stage \in Places
      BY <1>4 DEF MetadataSelector, After, Shorter, Stages, Places
    <2>4. /\ expected' = expected /\ pc' \in Places /\ mounted' = mounted /\ edits' = edits
      BY <1>4, <2>3 DEF MetadataSelector, Places
    <2> QED BY <1>b, <2>2, <2>4 DEF TypeOK
  <1>5. CASE DetectType \/ Typed
    <2>1. (Keep(See) \/ Keep(WithDiscType)) \/ Save(WithDiscType)
      BY <1>5 DEF DetectType, Typed
    <2>2. /\ row' \in Rows /\ seen' \in Rows \cup {Expired} /\ (seen' = Expired => unsaved' = {})
          /\ unsaved' \subseteq Columns \ {"title", "nice"}
      BY <1>a, <2>1, Keeps, Saves, FilesTyped
    <2>3. /\ expected' = expected /\ pc' \in Places /\ mounted' = mounted /\ edits' = edits
      BY <1>5 DEF DetectType, Typed, Places, BeforeTitle
    <2> QED BY <1>b, <2>2, <2>3 DEF TypeOK
  <1>6. CASE RereadUdev
    <2> DEFINE new == [See EXCEPT !.disctype = disc.later, !.label = @ \/ disc.labelled]
    <2>1. new \in Rows /\ new.title = See.title /\ new.nice = See.nice
      BY <1>a, <1>b DEF Rows, Disc
    <2>2. Keep(new) \/ Save(new)
      BY <1>6 DEF RereadUdev
    <2>3. /\ row' \in Rows /\ seen' \in Rows \cup {Expired} /\ (seen' = Expired => unsaved' = {})
          /\ unsaved' \subseteq Columns \ {"title", "nice"}
      <3> HIDE DEF new
      <3> QED BY <2>1, <2>2, Keeps, Saves
    <2>4. /\ expected' = expected /\ pc' \in Places /\ mounted' = mounted /\ edits' = edits
      BY <1>6 DEF RereadUdev, Places, BeforeTitle
    <2> QED BY <1>b, <2>3, <2>4 DEF TypeOK
  <1>7. CASE ResolveDiscLabel
    <2>1. PICK found \in BOOLEAN : Keep([See EXCEPT !.label = @ \/ found])
      BY <1>7 DEF ResolveDiscLabel
    <2> DEFINE new == [See EXCEPT !.label = @ \/ found]
    <2>2. new \in Rows /\ new.title = See.title /\ new.nice = See.nice
      BY <1>a DEF Rows
    <2>3. /\ row' \in Rows /\ seen' \in Rows /\ seen' # Expired
          /\ unsaved' \subseteq Columns \ {"title", "nice"}
      <3>1. Keep(new)
        BY <2>1
      <3> HIDE DEF new
      <3> QED BY <2>2, <3>1, Keeps
    <2>4. /\ expected' = expected /\ pc' \in Places /\ mounted' = mounted /\ edits' = edits
      BY <1>7 DEF ResolveDiscLabel, Places, BeforeTitle
    <2> QED BY <1>b, <2>3, <2>4 DEF TypeOK
  <1>8. CASE IdentifyDvd \/ IdentifyBluray \/ ApplyLabelAsTitle \/ EnableMultiTitle \/ Identified
             \/ JobDupeCheck \/ UpdateJob
    <2>1. Keep(See) \/ \E new \in Rows : Save(new)
      <3>1. CASE IdentifyDvd \/ IdentifyBluray \/ ApplyLabelAsTitle \/ EnableMultiTitle \/ Identified
        BY <1>a, <3>1 DEF IdentifyDvd, IdentifyBluray, ApplyLabelAsTitle, EnableMultiTitle,
                          Identified, Rows, Titles, Types
      <3>2. CASE JobDupeCheck
        BY <1>a, <3>2 DEF JobDupeCheck, Rows, Titles, Types
      <3>3. CASE UpdateJob
        <4>1. PICK w \in pick, numbered \in LabelNumbered :
                /\ Save([See EXCEPT !.title = "match", !.year = w.years # 4, !.nice = TRUE,
                                    !.type = w.type, !.number = @ \/ numbered])
                /\ pc' = IF w.type = "movie" THEN "matchTitle" ELSE "last"
          BY <3>3 DEF UpdateJob
        <4>2. w.type \in Types
          BY <3>3, IdentificationAssumption DEF UpdateJob, Types, Picked, Best, Work
        <4> QED BY <1>a, <4>1, <4>2 DEF Rows, Titles, LabelNumbered
      <3> QED BY <1>8, <3>1, <3>2, <3>3
    <2>2. /\ row' \in Rows /\ seen' \in Rows \cup {Expired} /\ (seen' = Expired => unsaved' = {})
          /\ unsaved' \subseteq Columns \ {"title", "nice"}
      BY <1>a, <2>1, Keeps, Saves
    <2>3. /\ expected' = expected /\ pc' \in Places /\ mounted' = mounted /\ edits' = edits
      BY <1>8 DEF IdentifyDvd, IdentifyBluray, ApplyLabelAsTitle, EnableMultiTitle, Identified,
                  JobDupeCheck, UpdateJob, Places, BeforeTitle
    <2> QED BY <1>b, <2>2, <2>3 DEF TypeOK
  <1>9. CASE Raise
    <2>1. row' = row /\ seen' \in {seen, Expired} /\ pc' \in {"last", "track99", "abort", "failed"}
      BY <1>9, Raises
    <2>2. unsaved' \in {unsaved, {}} /\ (seen' = Expired => unsaved' = {})
          /\ UNCHANGED <<expected, mounted, edits>>
      BY <1>9 DEF Raise
    <2> QED BY <1>b, <2>1, <2>2 DEF TypeOK, Places
  <1> QED BY <1>1, <1>2, <1>3, <1>4, <1>5, <1>6, <1>7, <1>8, <1>9 DEF Next, Ripper

-----------------------------------------------------------------------------
(* Titles. *)
Found == row.title \in {"crc", "match"}

(* What no step but the duplicate check may do to a title that was found. *)
StaysFound == Found /\ pc # "dupes" => row'.title \in {row.title, "user"} /\ row'.nice

(* The part of Kept that does not ask where the ripper is. *)
Copied ==
    /\ Found => row.nice
    /\ seen # Expired /\ seen.nice => row.nice
    /\ seen # Expired /\ Found => seen.title = row.title /\ seen.nice

LEMMA CopiedKeeps ==
  ASSUME TypeOK, Copied, NEW new \in Rows, Keep(new), new.title = See.title, new.nice = See.nice
  PROVE  Copied' /\ StaysFound
  <1>1. seen' = new /\ row' = row
    BY Keeps
  <1>2. See.nice => row.nice
    BY DEF Copied, See
  <1>3. Found => See.title = row.title /\ See.nice
    BY DEF Copied, See
  <1> QED BY <1>1, <1>2, <1>3 DEF Copied, StaysFound, Found

LEMMA CopiedSaves ==
  ASSUME TypeOK, Copied, NEW new \in Rows, Save(new), new.title = See.title, new.nice = See.nice
  PROVE  Copied' /\ StaysFound /\ row'.title = row.title /\ row'.nice = row.nice
  <1>1. seen' = Expired /\ row'.title = row.title /\ row'.nice = row.nice
    BY Saves
  <1> QED BY <1>1 DEF Copied, StaysFound, Found

LEMMA KeptInit == Init => Kept
  <1> SUFFICES ASSUME Init PROVE Kept
    OBVIOUS
  <1>1. row.title = "" /\ pc = "begin" /\ seen = Expired
    BY DEF Init
  <1> QED BY <1>1 DEF Kept, Stages

LEMMA KeptStep == TypeOK /\ Picked /\ Kept /\ [Next]_vars => Kept' /\ StaysFound
  <1> SUFFICES ASSUME TypeOK, Picked, Kept, [Next]_vars PROVE Kept' /\ StaysFound
    OBVIOUS
  <1> USE DEF Searches, Device, Still, Quiet, Goto
  <1>a. See \in Rows /\ Copied
    BY SeesRow DEF Kept, Copied, Found
  <1>b. TypeOK'
    BY TypeStep
  <1>1. CASE WaitForDriveReady \/ CheckMount \/ Unmount \/ SpinUp \/ OpenTray \/ UNCHANGED vars
    <2>1. UNCHANGED <<row, seen, unsaved>>
      BY <1>1 DEF WaitForDriveReady, CheckMount, Unmount, SpinUp, OpenTray, vars
    <2>2. pc' = pc \/ /\ pc' \notin Stages \cup {"match", "dupes"}
                      /\ pc' \in BeforeTitle => pc \in BeforeTitle
      BY <1>1 DEF WaitForDriveReady, CheckMount, Unmount, SpinUp, OpenTray, vars, Stages, BeforeTitle
    <2> QED BY <2>1, <2>2 DEF Kept, StaysFound, Found
  <1>2. CASE UpdateJobTitle
    <2>1. PICK new \in {[row EXCEPT !.title = "user"], [row EXCEPT !.type = "series"],
                        [row EXCEPT !.disctype = "music"]} : row' = [new EXCEPT !.nice = TRUE]
      BY <1>2 DEF UpdateJobTitle
    <2>2. row'.title \in {row.title, "user"} /\ row'.nice
      BY <2>1 DEF TypeOK, Rows
    <2>3. UNCHANGED <<seen, pc>>
      BY <1>2 DEF UpdateJobTitle
    <2> QED BY <2>2, <2>3 DEF Kept, StaysFound, Found
  <1>3. CASE Begin \/ WriteExpectedTitle \/ DetectTrack99
    <2>1. Keep(See)
      BY <1>3 DEF Begin, WriteExpectedTitle, DetectTrack99
    <2>2. Copied' /\ StaysFound /\ row' = row
      BY <1>a, <2>1, CopiedKeeps, Keeps
    <2>3. pc' \notin Stages \cup {"match", "dupes"} /\ (pc' \in BeforeTitle => pc \in BeforeTitle)
      BY <1>3 DEF Begin, WriteExpectedTitle, DetectTrack99, Stages, BeforeTitle
    <2> QED BY <2>2, <2>3 DEF Kept, Copied, Found
  <1>4. CASE SearchMetadata \/ MetadataSelector
    <2>1. Keep(See)
      BY <1>4 DEF SearchMetadata, MetadataSelector
    <2>2. Copied' /\ StaysFound /\ row' = row /\ seen' = See /\ seen' # Expired
      BY <1>a, <2>1, CopiedKeeps, Keeps
    <2>3. pc' \in Stages \cup {"match"} => ~See.nice
      BY <1>4 DEF SearchMetadata, MetadataSelector, Stages, Kept, See
    <2>4. pc' # "dupes" /\ pc' \notin BeforeTitle
      <3>1. After.stage \in Stages \cup {"last"}
        BY DEF After, Shorter, Stages
      <3> QED BY <1>4, <3>1 DEF SearchMetadata, MetadataSelector, BeforeTitle, Stages
    <2> QED BY <2>2, <2>3, <2>4 DEF Kept, Copied, Found
  <1>5. CASE DetectType \/ Typed
    <2>1. (Keep(See) \/ Keep(WithDiscType)) \/ Save(WithDiscType)
      BY <1>5 DEF DetectType, Typed
    <2>2. Copied' /\ StaysFound /\ row'.title = row.title
      BY <1>a, <2>1, CopiedKeeps, CopiedSaves, Keeps, FilesTyped
    <2>3. /\ pc \in BeforeTitle /\ pc' \notin Stages \cup {"match", "dupes"}
      BY <1>5 DEF DetectType, Typed, BeforeTitle, Stages
    <2> QED BY <2>2, <2>3 DEF Kept, Copied, Found
  <1>6. CASE RereadUdev \/ ResolveDiscLabel
    <2>1. PICK new \in Rows : /\ Keep(new) \/ Save(new)
                              /\ new.title = See.title /\ new.nice = See.nice
      <3>1. CASE RereadUdev
        <4> DEFINE new == [See EXCEPT !.disctype = disc.later, !.label = @ \/ disc.labelled]
        <4>1. new \in Rows /\ new.title = See.title /\ new.nice = See.nice
          BY <1>a DEF Rows, Disc, TypeOK
        <4>2. Keep(new) \/ Save(new)
          BY <3>1 DEF RereadUdev
        <4> QED BY <4>1, <4>2
      <3>2. CASE ResolveDiscLabel
        <4>1. PICK found \in BOOLEAN : Keep([See EXCEPT !.label = @ \/ found])
          BY <3>2 DEF ResolveDiscLabel
        <4> DEFINE new == [See EXCEPT !.label = @ \/ found]
        <4>2. new \in Rows /\ new.title = See.title /\ new.nice = See.nice
          BY <1>a DEF Rows
        <4> QED BY <4>1, <4>2
      <3> QED BY <1>6, <3>1, <3>2
    <2>2. Copied' /\ StaysFound /\ row'.title = row.title
      BY <1>a, <2>1, CopiedKeeps, CopiedSaves, Keeps
    <2>3. /\ pc \in BeforeTitle /\ pc' \notin Stages \cup {"match", "dupes"}
      BY <1>6 DEF RereadUdev, ResolveDiscLabel, BeforeTitle, Stages
    <2> QED BY <2>2, <2>3 DEF Kept, Copied, Found
  <1>7. CASE IdentifyDvd \/ IdentifyBluray
    <2>1. ~Found
      BY <1>7 DEF IdentifyDvd, IdentifyBluray, Kept, BeforeTitle, Found
    <2>2. pc' \notin BeforeTitle \cup Stages \cup {"match", "dupes"}
      BY <1>7 DEF IdentifyDvd, IdentifyBluray, BeforeTitle, Stages
    <2>3. CASE Keep(See)
      BY <1>a, <2>2, <2>3, CopiedKeeps DEF Kept, Copied, Found
    <2>4. CASE \E type \in {"movie", "series"} :
                 Save([See EXCEPT !.title = "crc", !.year = TRUE, !.nice = TRUE, !.type = type])
      <3>0. PICK type \in {"movie", "series"} :
              Save([See EXCEPT !.title = "crc", !.year = TRUE, !.nice = TRUE, !.type = type])
        BY <2>4
      <3> DEFINE new == [See EXCEPT !.title = "crc", !.year = TRUE, !.nice = TRUE, !.type = type]
      <3>1. new \in Rows /\ Save(new) /\ new.nice
        BY <1>a, <3>0 DEF Rows, Titles, Types
      <3> HIDE DEF new
      <3>2. seen' = Expired /\ row'.nice = IF new.nice # See.nice THEN new.nice ELSE row.nice
        BY <3>1, Saves
      <3>3. See.nice => row.nice
        BY <1>a DEF Copied, See
      <3>4. new.nice \in BOOLEAN /\ See.nice \in BOOLEAN
        BY <1>a, <3>1 DEF Rows
      <3> QED BY <2>1, <2>2, <3>1, <3>2, <3>3, <3>4 DEF Kept, StaysFound, Found
    <2>5. CASE Save([See EXCEPT !.title = "xml", !.year = TRUE])
      <3> DEFINE new == [See EXCEPT !.title = "xml", !.year = TRUE]
      <3>1. new \in Rows /\ Save(new) /\ new.title = "xml" /\ new.nice = See.nice
        BY <1>a, <2>5 DEF Rows, Titles
      <3> HIDE DEF new
      <3>2. /\ seen' = Expired
            /\ row'.title = IF new.title # See.title THEN new.title ELSE row.title
        BY <3>1, Saves
      <3>3. ~Found'
        BY <2>1, <3>1, <3>2 DEF Found
      <3> QED BY <2>1, <2>2, <3>2, <3>3 DEF Kept, StaysFound, Found
    <2> QED BY <1>7, <2>3, <2>4, <2>5 DEF IdentifyDvd, IdentifyBluray
  <1>8. CASE UpdateJob
    <2>1. ~See.nice /\ ~Found
      BY <1>8, <1>a DEF UpdateJob, Kept, See, Copied
    <2>2. PICK w \in pick, numbered \in LabelNumbered :
            Save([See EXCEPT !.title = "match", !.year = w.years # 4, !.nice = TRUE,
                             !.type = w.type, !.number = @ \/ numbered])
      BY <1>8 DEF UpdateJob
    <2>3. seen' = Expired /\ row'.nice
      <3> DEFINE new == [See EXCEPT !.title = "match", !.year = w.years # 4, !.nice = TRUE,
                                    !.type = w.type, !.number = @ \/ numbered]
      <3>1. w.type \in Types
        BY <1>8, IdentificationAssumption DEF UpdateJob, Types, Picked, Best, Work
      <3>2. new \in Rows /\ new.nice = TRUE /\ Save(new)
        BY <1>a, <2>2, <3>1 DEF Rows, Titles, LabelNumbered
      <3> HIDE DEF new
      <3> QED BY <2>1, <3>2, Saves
    <2>4. pc' \notin BeforeTitle \cup Stages \cup {"match", "dupes"}
      <3>1. pc' \in {"matchTitle", "last"}
        BY <1>8 DEF UpdateJob
      <3> QED BY <3>1 DEF BeforeTitle, Stages
    <2> QED BY <2>1, <2>3, <2>4 DEF Kept, StaysFound, Found
  <1>9. CASE ApplyLabelAsTitle
    <2>1. pc' \notin BeforeTitle \cup Stages \cup {"match", "dupes"}
      BY <1>9 DEF ApplyLabelAsTitle, BeforeTitle, Stages
    <2>2. CASE Keep(See)
      BY <1>a, <2>1, <2>2, CopiedKeeps DEF Kept, Copied, Found
    <2>3. CASE See.title = "" /\ ~Keep(See)
      <3> DEFINE new == [See EXCEPT !.title = IF See.label THEN "label" ELSE "",
                                    !.year = IF See.label THEN @ ELSE FALSE,
                                    !.nice = FALSE]
      <3>1. new \in Rows /\ Save(new) /\ new.title \in {"label", ""}
        BY <1>a, <1>9, <2>3 DEF Rows, Titles, ApplyLabelAsTitle
      <3> HIDE DEF new
      <3>2. /\ seen' = Expired
            /\ row'.title = IF new.title # See.title THEN new.title ELSE row.title
        BY <3>1, Saves
      <3>3. ~Found
        BY <1>a, <2>3 DEF Found, Copied, See
      <3>4. ~Found'
        BY <3>1, <3>2, <3>3 DEF Found
      <3> QED BY <2>1, <3>2, <3>3, <3>4 DEF Kept, StaysFound, Found
    <2> QED BY <1>9, <2>2, <2>3 DEF ApplyLabelAsTitle
  <1>10. CASE EnableMultiTitle \/ Identified
    <2> DEFINE new == [See EXCEPT !.multi = TRUE]
    <2>1. new \in Rows /\ new.title = See.title /\ new.nice = See.nice
      BY <1>a DEF Rows
    <2>2. Copied' /\ StaysFound
      <3>1. (Keep(See) \/ Save(See)) \/ Save(new)
        BY <1>10 DEF EnableMultiTitle, Identified
      <3> HIDE DEF new
      <3> QED BY <1>a, <2>1, <3>1, CopiedKeeps, CopiedSaves
    <2>3. pc' \notin BeforeTitle \cup Stages \cup {"match"} /\ (pc' = "dupes" => seen' = Expired)
      BY <1>10 DEF EnableMultiTitle, Identified, BeforeTitle, Stages, Save
    <2> QED BY <2>2, <2>3 DEF Kept, Copied, Found
  <1>11. CASE JobDupeCheck
    <2>1. pc = "dupes" /\ pc' = "done" /\ See = row
      BY <1>11 DEF JobDupeCheck, Kept, See
    <2>2. CASE Keep(See)
      BY <1>a, <2>1, <2>2, CopiedKeeps DEF Kept, Copied, Found, BeforeTitle, Stages
    <2>3. CASE ~Keep(See)
      <3>1. PICK nice \in BOOLEAN, type \in {"unknown", "movie", "series"} :
              Save([See EXCEPT !.title = "previous", !.year = TRUE, !.nice = nice, !.type = type])
        BY <1>11, <2>3 DEF JobDupeCheck
      <3> DEFINE new == [See EXCEPT !.title = "previous", !.year = TRUE, !.nice = nice, !.type = type]
      <3>2. new \in Rows /\ Save(new) /\ new.title = "previous"
        BY <1>a, <3>1 DEF Rows, Titles, Types
      <3> HIDE DEF new
      <3>3. seen' = Expired /\ row'.title = "previous"
        BY <2>1, <3>2, Saves
      <3> QED BY <2>1, <3>3 DEF Kept, StaysFound, Found, BeforeTitle, Stages
    <2> QED BY <2>2, <2>3
  <1>12. CASE Raise
    <2>1. /\ row' = row /\ seen' \in {seen, Expired}
          /\ pc' \in {"last", "track99", "abort", "failed"}
      BY <1>12, Raises
    <2> QED BY <1>a, <2>1 DEF Kept, Copied, StaysFound, Found, BeforeTitle, Stages
  <1> QED BY <1>1, <1>2, <1>3, <1>4, <1>5, <1>6, <1>7, <1>8, <1>9, <1>10, <1>11, <1>12
      DEF Next, Ripper

-----------------------------------------------------------------------------
(* The matcher. Between the answer and the update of the job, the copy by    *)
(* which the works were scored does not change.                             *)
LEMMA AnswersOfWorks == \A found \in Answers : found \subseteq Works
  <1>1. ASSUME NEW found \in TmdbAnswers PROVE found \subseteq Works
    <2>1. \/ found \in SUBSET {w \in Works : w.type = "movie"}
          \/ found \in SUBSET {w \in Works : w.type = "series"}
      BY DEF TmdbAnswers
    <2> QED BY <2>1
  <1> QED BY <1>1 DEF Answers, OmdbAnswers

LEMMA PickedInit == Init => Picked
  BY DEF Init, Picked

LEMMA PickedStep == TypeOK /\ Kept /\ Picked /\ [Next]_vars => Picked'
  <1> SUFFICES ASSUME TypeOK, Kept, Picked, [Next]_vars PROVE Picked'
    OBVIOUS
  <1> USE DEF Searches, Device, Still, Quiet, Goto
  <1>1. CASE SpinUp \/ OpenTray \/ UpdateJobTitle \/ UNCHANGED vars
    <2>1. UNCHANGED <<seen, pc, offer, pick>>
      BY <1>1 DEF SpinUp, OpenTray, UpdateJobTitle, vars
    <2>2. pc = "match" => See' = See
      BY <2>1 DEF Kept, See
    <2>3. pc = "match" => Best(offer)' = Best(offer)
      BY <2>1, <2>2 DEF Best, Score, YearProximity
    <2> QED BY <2>1, <2>3 DEF Picked
  <1>2. CASE MetadataSelector
    <2>1. See' = See
      BY <1>2, SeesRow, Keeps DEF MetadataSelector
    <2>2. pc # "match" /\ After.stage # "match"
      BY <1>2 DEF MetadataSelector, After, Shorter, Stages
    <2>3. PICK found \in Answers :
            IF Best(found) = {}
              THEN pc' = After.stage /\ UNCHANGED <<offer, pick>>
              ELSE /\ pc' = "match"
                   /\ offer' = found
                   /\ \E w \in Best(found) : pick' = {w}
      BY <1>2 DEF MetadataSelector
    <2>4. found \subseteq Works
      BY AnswersOfWorks
    <2>5. Best(offer)' = {w \in offer' : Score(w) >= MinConfidence
                                           /\ \A v \in offer' : Score(v) <= Score(w)}
      BY <2>1 DEF Best, Score, YearProximity
    <2>6. CASE Best(found) # {}
      BY <2>3, <2>4, <2>5, <2>6 DEF Picked, Best
    <2> QED BY <2>2, <2>3, <2>6 DEF Picked
  <1>3. CASE UpdateJob
    <2>1. pc' # "match" /\ offer' = {} /\ pick' = {}
      BY <1>3 DEF UpdateJob
    <2> QED BY <2>1 DEF Picked
  <1>4. CASE SearchMetadata
    BY <1>4 DEF SearchMetadata, Picked
  <1>5. CASE Begin \/ WaitForDriveReady \/ CheckMount \/ DetectType \/ RereadUdev \/ Typed
             \/ ResolveDiscLabel \/ IdentifyDvd \/ WriteExpectedTitle \/ DetectTrack99
             \/ IdentifyBluray \/ ApplyLabelAsTitle \/ EnableMultiTitle \/ Unmount \/ Identified
             \/ JobDupeCheck
    <2>1. pc # "match" /\ pc' # "match" /\ UNCHANGED <<offer, pick>>
      BY <1>5 DEF Begin, WaitForDriveReady, CheckMount, DetectType, RereadUdev, Typed,
                  ResolveDiscLabel, IdentifyDvd, WriteExpectedTitle, DetectTrack99,
                  IdentifyBluray, ApplyLabelAsTitle, EnableMultiTitle, Unmount, Identified,
                  JobDupeCheck
    <2> QED BY <2>1 DEF Picked
  <1>6. CASE Raise
    <2>1. pc' # "match" /\ offer' = {} /\ pick' = {}
      BY <1>6, Raises DEF Raise
    <2> QED BY <2>1 DEF Picked
  <1> QED BY <1>1, <1>2, <1>3, <1>4, <1>5, <1>6 DEF Next, Ripper

(* Of a name and a year that fit, a work scores 975 of 1000; and nothing     *)
(* else scores that much.                                                   *)
LEMMA OnlyExactScores ==
  ASSUME See.year, NEW w \in Works
  PROVE  /\ Score(w) \in Nat
         /\ Score(w) >= 975 <=> w.fit = 10 /\ w.years = 0
  <1> DEFINE f == w.fit
             y == YearProximity(w)
  <1>1. f \in 0..10 /\ w.years \in 0..4
    BY IdentificationAssumption DEF Work, Fits
  <1>2. y \in {0, 5, 8, 10} /\ (y = 10 <=> w.years = 0)
    BY <1>1 DEF YearProximity
  <1>3. Score(w) = 70 * f + 25 * y + 25
    BY DEF Score, TypeConsistency
  <1> HIDE DEF f, y
  <1>4. 70 * f + 25 * y + 25 \in Nat
    BY <1>1, <1>2
  <1>5. 70 * f + 25 * y + 25 >= 975 <=> f = 10 /\ y = 10
    BY <1>1, <1>2
  <1> QED BY <1>2, <1>3, <1>4, <1>5 DEF f, y

LEMMA ExactTaken == Picked => ExactWins
  <1> SUFFICES ASSUME Picked, NEW v \in offer, v.fit = 10, v.years = 0, See.year, NEW w \in pick
               PROVE  w.fit = 10 /\ w.years = 0
    BY DEF ExactWins
  <1>1. v \in Works /\ w \in Works /\ Score(v) <= Score(w)
    BY DEF Picked, Best
  <1>2. Score(v) >= 975 /\ Score(v) \in Nat /\ Score(w) \in Nat
    BY <1>1, OnlyExactScores
  <1>3. Score(w) >= 975
    BY <1>1, <1>2
  <1> QED BY <1>1, <1>3, OnlyExactScores

-----------------------------------------------------------------------------
(* The title the tracks are compared with, while the user does nothing. *)
LEMMA SavesUnmeddled ==
  ASSUME TypeOK, NEW new \in Rows, Save(new), See.title = row.title, See.nice = row.nice
  PROVE  /\ See'.title = new.title /\ See'.nice = new.nice
         /\ row'.title = new.title /\ row'.nice = new.nice
  BY Saves

LEMMA ExpectsInit == Init => Expects
  <1> SUFFICES ASSUME Init PROVE Expects
    OBVIOUS
  <1>1. expected = "none" /\ pc = "begin" /\ See = row
    BY DEF Init, See
  <1> QED BY <1>1 DEF Expects

LEMMA ExpectsStep == TypeOK /\ Picked /\ Expects /\ [Next]_vars => Expects'
  <1> SUFFICES ASSUME TypeOK, Picked, Expects, [Next]_vars, edits' = 0 PROVE Expects'
    BY DEF Expects
  <1> USE DEF Searches, Device, Still, Quiet, Goto
  <1>a. See \in Rows
    BY SeesRow
  <1>b. ~UpdateJobTitle
    BY DEF UpdateJobTitle, TypeOK
  <1>c. edits = 0
    BY <1>b DEF TypeOK, Next, Ripper, SpinUp, OpenTray, UpdateJobTitle, Begin, WaitForDriveReady,
           CheckMount, DetectType, RereadUdev, Typed, ResolveDiscLabel, IdentifyDvd,
           WriteExpectedTitle, DetectTrack99, IdentifyBluray, SearchMetadata, MetadataSelector,
           UpdateJob, ApplyLabelAsTitle, EnableMultiTitle, Unmount, Identified, JobDupeCheck, Raise, vars
  <1>d. See.title = row.title /\ See.nice = row.nice
    BY <1>c DEF Expects
  <1> DEFINE Early == BeforeTitle \cup Stages \cup {"match", "crcTitle", "matchTitle"}
             Late  == {"track99", "judge", "last", "multi", "umount"}
  <1>1. CASE WaitForDriveReady \/ CheckMount \/ Unmount \/ SpinUp \/ OpenTray \/ UNCHANGED vars
    <2>1. UNCHANGED <<row, seen, unsaved, expected>>
      BY <1>1 DEF WaitForDriveReady, CheckMount, Unmount, SpinUp, OpenTray, vars
    <2>2. pc' = pc \/ pc' \in {"idle", "failed"}
          \/ (pc \in BeforeTitle /\ pc' \in {"ready", "mount", "detect"})
      BY <1>1 DEF WaitForDriveReady, CheckMount, Unmount, SpinUp, OpenTray, vars, BeforeTitle
    <2>3. See' = See
      BY <2>1 DEF See
    <2> QED BY <1>c, <2>1, <2>2, <2>3 DEF Expects, BeforeTitle, Stages
  <1>2. CASE Begin \/ DetectType \/ Typed \/ RereadUdev \/ ResolveDiscLabel
    <2>1. PICK new \in Rows : /\ Keep(new) \/ Save(new)
                              /\ new.title = See.title /\ new.nice = See.nice
      <3>1. CASE RereadUdev
        <4> DEFINE new == [See EXCEPT !.disctype = disc.later, !.label = @ \/ disc.labelled]
        <4>1. new \in Rows /\ new.title = See.title /\ new.nice = See.nice
          BY <1>a DEF Rows, Disc, TypeOK
        <4>2. Keep(new) \/ Save(new)
          BY <3>1 DEF RereadUdev
        <4> QED BY <4>1, <4>2
      <3>2. CASE ResolveDiscLabel
        <4>1. PICK found \in BOOLEAN : Keep([See EXCEPT !.label = @ \/ found])
          BY <3>2 DEF ResolveDiscLabel
        <4> DEFINE new == [See EXCEPT !.label = @ \/ found]
        <4>2. new \in Rows /\ new.title = See.title /\ new.nice = See.nice
          BY <1>a DEF Rows
        <4> QED BY <4>1, <4>2
      <3>3. CASE Begin \/ DetectType \/ Typed
        <4>1. (Keep(See) \/ Keep(WithDiscType)) \/ Save(WithDiscType)
          BY <3>3 DEF Begin, DetectType, Typed
        <4> QED BY <1>a, <4>1, FilesTyped
      <3> QED BY <1>2, <3>1, <3>2, <3>3
    <2>2. See'.title = row'.title /\ See'.nice = row'.nice
      BY <1>d, <2>1, Keeps, SavesUnmeddled
    <2>3. expected' = expected /\ pc \in Early
          /\ pc' \in BeforeTitle \cup {"umount", "idle", "failed"}
      BY <1>2 DEF Begin, DetectType, Typed, RereadUdev, ResolveDiscLabel, BeforeTitle
    <2> QED BY <1>c, <2>2, <2>3 DEF Expects, BeforeTitle, Stages
  <1>3. CASE IdentifyDvd \/ IdentifyBluray
    <2>1. expected = "none" /\ expected' = "none"
      BY <1>3, <1>c DEF IdentifyDvd, IdentifyBluray, Expects, BeforeTitle
    <2>2. pc' \in {"track99", "crcTitle", "judge"}
      BY <1>3 DEF IdentifyDvd, IdentifyBluray
    <2>3. CASE Keep(See)
      <3>1. See'.title = row'.title /\ See'.nice = row'.nice
        BY <1>a, <1>d, <2>3, Keeps
      <3>2. pc' # "crcTitle"
        BY <1>3, <1>a, <2>3, Keeps, Saves DEF IdentifyDvd, IdentifyBluray, Rows, Titles, Types, Save
      <3> QED BY <2>1, <2>2, <3>1, <3>2 DEF Expects
    <2>4. CASE IdentifyBluray /\ ~Keep(See)
      <3> DEFINE new == [See EXCEPT !.title = "xml", !.year = TRUE]
      <3>1. new \in Rows /\ Save(new)
        BY <1>a, <2>4 DEF Rows, Titles, IdentifyBluray
      <3> HIDE DEF new
      <3>2. See'.title = row'.title /\ See'.nice = row'.nice
        BY <1>d, <3>1, SavesUnmeddled
      <3> QED BY <2>1, <2>4, <3>2 DEF Expects, IdentifyBluray
    <2>5. CASE IdentifyDvd /\ ~Keep(See)
      <3>0. PICK type \in {"movie", "series"} :
              Save([See EXCEPT !.title = "crc", !.year = TRUE, !.nice = TRUE, !.type = type])
        BY <2>5 DEF IdentifyDvd
      <3> DEFINE new == [See EXCEPT !.title = "crc", !.year = TRUE, !.nice = TRUE, !.type = type]
      <3>1. new \in Rows /\ Save(new) /\ new.title = "crc" /\ new.nice = TRUE
        BY <1>a, <3>0 DEF Rows, Titles, Types
      <3> HIDE DEF new
      <3>2. See'.title = row'.title /\ See'.nice = row'.nice /\ row'.title = "crc" /\ row'.nice
        BY <1>d, <3>1, SavesUnmeddled
      <3>3. pc' = "crcTitle"
        BY <2>5 DEF IdentifyDvd
      <3> QED BY <2>1, <3>2, <3>3 DEF Expects
    <2> QED BY <1>3, <2>3, <2>4, <2>5
  <1>4. CASE WriteExpectedTitle
    <2>1. See' = See /\ row' = row
      BY <1>a, <1>4, Keeps DEF WriteExpectedTitle
    <2>2. \/ pc = "crcTitle" /\ expected' = "crc" /\ pc' = "track99"
          \/ pc = "matchTitle" /\ expected' = "match" /\ pc' = "last"
      BY <1>4 DEF WriteExpectedTitle
    <2> QED BY <1>c, <2>1, <2>2 DEF Expects, BeforeTitle, Stages
  <1>5. CASE DetectTrack99 \/ SearchMetadata \/ MetadataSelector
    <2>1. Keep(See) /\ expected' = expected
      BY <1>5 DEF DetectTrack99, SearchMetadata, MetadataSelector
    <2>2. See' = See /\ row' = row
      BY <1>a, <2>1, Keeps
    <2>3. /\ pc \in {"track99", "judge"} \cup Stages
          /\ pc' \in Stages \cup {"match", "judge", "last", "abort"}
      <3>1. After.stage \in Stages \cup {"last"}
        BY DEF After, Shorter, Stages
      <3> QED BY <1>5, <3>1 DEF DetectTrack99, SearchMetadata, MetadataSelector, Stages
    <2>4. pc' \in Stages \cup {"match"} => expected = "none"
      <3>1. CASE pc = "judge" /\ expected # "none"
        <4>1. See.nice
          BY <1>c, <3>1 DEF Expects
        <4> QED BY <1>5, <3>1, <4>1 DEF DetectTrack99, SearchMetadata, MetadataSelector, Stages
      <3>2. CASE pc = "track99"
        BY <1>5, <3>2 DEF DetectTrack99, SearchMetadata, MetadataSelector, Stages
      <3>3. CASE pc \in Stages
        BY <1>c, <3>3 DEF Expects
      <3> QED BY <2>3, <3>1, <3>2, <3>3
    <2> QED BY <1>c, <2>1, <2>2, <2>3, <2>4 DEF Expects, BeforeTitle, Stages
  <1>6. CASE UpdateJob
    <2>1. expected = "none" /\ expected' = "none"
      BY <1>6, <1>c DEF UpdateJob, Expects
    <2>2. PICK w \in pick, numbered \in LabelNumbered :
            /\ Save([See EXCEPT !.title = "match", !.year = w.years # 4, !.nice = TRUE,
                                !.type = w.type, !.number = @ \/ numbered])
            /\ pc' = IF w.type = "movie" THEN "matchTitle" ELSE "last"
      BY <1>6 DEF UpdateJob
    <2> DEFINE new == [See EXCEPT !.title = "match", !.year = w.years # 4, !.nice = TRUE,
                                  !.type = w.type, !.number = @ \/ numbered]
    <2>3. w.type \in Types
      BY <1>6, IdentificationAssumption DEF UpdateJob, Types, Picked, Best, Work
    <2>4. new \in Rows /\ new.title = "match" /\ new.nice = TRUE /\ Save(new)
      BY <1>a, <2>2, <2>3 DEF Rows, Titles, LabelNumbered
    <2>5. pc' \in {"matchTitle", "last"}
      BY <2>2
    <2> HIDE DEF new
    <2>6. See'.title = row'.title /\ See'.nice = row'.nice /\ row'.title = "match" /\ row'.nice
      BY <1>d, <2>4, SavesUnmeddled
    <2> QED BY <2>1, <2>5, <2>6 DEF Expects
  <1>7. CASE ApplyLabelAsTitle
    <2>1. pc = "last" /\ pc' = "multi" /\ expected' = expected
      BY <1>7 DEF ApplyLabelAsTitle
    <2>2. CASE Keep(See)
      <3>1. See' = See /\ row' = row
        BY <1>a, <2>2, Keeps
      <3> QED BY <1>c, <2>1, <3>1 DEF Expects, BeforeTitle, Stages
    <2>3. CASE See.title = "" /\ ~Keep(See)
      <3> DEFINE new == [See EXCEPT !.title = IF See.label THEN "label" ELSE "",
                                    !.year = IF See.label THEN @ ELSE FALSE,
                                    !.nice = FALSE]
      <3>1. new \in Rows /\ Save(new)
        BY <1>a, <1>7, <2>3 DEF Rows, Titles, ApplyLabelAsTitle
      <3> HIDE DEF new
      <3>2. See'.title = row'.title /\ See'.nice = row'.nice
        BY <1>d, <3>1, SavesUnmeddled
      <3>3. expected = "none"
        BY <1>c, <1>d, <2>1, <2>3 DEF Expects, TypeOK
      <3> QED BY <2>1, <3>2, <3>3 DEF Expects
    <2> QED BY <1>7, <2>2, <2>3 DEF ApplyLabelAsTitle
  <1>8. CASE EnableMultiTitle \/ Identified
    <2> DEFINE new == [See EXCEPT !.multi = TRUE]
    <2>1. new \in Rows /\ new.title = See.title /\ new.nice = See.nice
      BY <1>a DEF Rows
    <2>2. See'.title = row'.title /\ See'.nice = row'.nice /\ row'.title = row.title
          /\ row'.nice = row.nice
      <3>1. (Keep(See) \/ Save(See)) \/ Save(new)
        BY <1>8 DEF EnableMultiTitle, Identified
      <3> HIDE DEF new
      <3> QED BY <1>a, <1>d, <2>1, <3>1, Keeps, SavesUnmeddled
    <2>3. /\ pc \in {"multi", "idle"} /\ pc' \in {"umount", "dupes"} /\ expected' = expected
          /\ pc' = "umount" => pc = "multi"
      BY <1>8 DEF EnableMultiTitle, Identified
    <2> QED BY <1>c, <2>2, <2>3 DEF Expects, BeforeTitle, Stages
  <1>9. CASE JobDupeCheck
    <2>1. pc' = "done"
      BY <1>9 DEF JobDupeCheck
    <2>2. See'.title = row'.title /\ See'.nice = row'.nice
      <3>1. CASE Keep(See)
        BY <1>a, <1>d, <3>1, Keeps
      <3>2. CASE ~Keep(See)
        <4>1. PICK nice \in BOOLEAN, type \in {"unknown", "movie", "series"} :
                Save([See EXCEPT !.title = "previous", !.year = TRUE, !.nice = nice, !.type = type])
          BY <1>9, <3>2 DEF JobDupeCheck
        <4> DEFINE new == [See EXCEPT !.title = "previous", !.year = TRUE, !.nice = nice,
                                      !.type = type]
        <4>2. new \in Rows /\ Save(new)
          BY <1>a, <4>1 DEF Rows, Titles, Types
        <4> HIDE DEF new
        <4> QED BY <1>d, <4>2, SavesUnmeddled
      <3> QED BY <3>1, <3>2
    <2> QED BY <2>1, <2>2 DEF Expects, BeforeTitle, Stages
  <1>10. CASE Raise
    <2>1. row' = row /\ See' \in {See, row} /\ expected' = expected
      BY <1>10, Raises DEF Raise
    <2>2. /\ pc' \in {"last", "track99", "abort", "failed"}
          /\ pc' \in {"last", "track99"} => pc \in Early
      BY <1>10, Raises DEF BeforeTitle
    <2> QED BY <1>c, <1>d, <2>1, <2>2 DEF Expects, BeforeTitle, Stages
  <1> QED BY <1>b, <1>1, <1>2, <1>3, <1>4, <1>5, <1>6, <1>7, <1>8, <1>9, <1>10 DEF Next, Ripper

-----------------------------------------------------------------------------
(* The mount. A column that says music was read from a row that says so, and *)
(* the ripper never changes such a row.                                     *)
LEMMA MountedInit == Init => Mounted
  BY DEF Init, Mounted, See

LEMMA MountedStep == TypeOK /\ Picked /\ Kept /\ Mounted /\ [Next]_vars => Mounted'
  <1> SUFFICES ASSUME TypeOK, Picked, Kept, Mounted, [Next]_vars PROVE Mounted'
    OBVIOUS
  <1> USE DEF Searches, Device, Still, Quiet, Goto
  <1>a. See \in Rows /\ TypeOK'
    BY SeesRow, TypeStep
  <1>b. /\ disc' = disc /\ (See.disctype = "music" => row.disctype = "music")
        /\ broke \subseteq broke'
    BY DEF Mounted, See, Break, Next, Ripper, SpinUp, OpenTray, UpdateJobTitle, Begin, WaitForDriveReady,
           CheckMount, DetectType, RereadUdev, Typed, ResolveDiscLabel, IdentifyDvd,
           WriteExpectedTitle, DetectTrack99, IdentifyBluray, SearchMetadata, MetadataSelector,
           UpdateJob, ApplyLabelAsTitle, EnableMultiTitle, Unmount, Identified, JobDupeCheck, Raise, vars
  <1>1. CASE SpinUp \/ OpenTray \/ UNCHANGED vars
    BY <1>1, <1>b DEF SpinUp, OpenTray, vars, Mounted, See
  <1>2. CASE UpdateJobTitle
    <2>1. PICK new \in {[row EXCEPT !.title = "user"], [row EXCEPT !.type = "series"],
                        [row EXCEPT !.disctype = "music"]} : row' = [new EXCEPT !.nice = TRUE]
      BY <1>2 DEF UpdateJobTitle
    <2>2. row'.disctype \in {row.disctype, "music"}
      BY <2>1 DEF TypeOK, Rows
    <2>3. UNCHANGED <<seen, pc, mounted>>
      BY <1>2 DEF UpdateJobTitle
    <2> QED BY <1>b, <2>2, <2>3 DEF Mounted, See
  <1>3. CASE WaitForDriveReady
    BY <1>3, <1>b DEF WaitForDriveReady, Mounted, See
  <1>4. CASE CheckMount
    BY <1>4, <1>b DEF CheckMount, Mounted, See
  <1>5. CASE Begin
    <2>1. See' = See /\ row' = row /\ seen' = See
      BY <1>a, <1>5, Keeps DEF Begin
    <2> QED BY <1>5, <1>b, <2>1 DEF Begin, Mounted
  <1>6. CASE DetectType
    <2>1. CASE Keep(See) /\ pc' = "typed"
      <3>1. seen' = See /\ row' = row
        BY <1>a, <2>1, Keeps
      <3> QED BY <1>b, <2>1, <3>1 DEF Mounted
    <2>2. CASE Save(WithDiscType) /\ pc' = "typed"
      <3>1. seen' = Expired
        BY <2>2, FilesTyped, Saves
      <3> QED BY <2>2, <3>1 DEF Mounted
    <2>3. CASE pc' = "udev"
      <3>1. Keep(See) /\ See.disctype = "unknown" /\ mounted' = mounted
            /\ ~(mounted /\ WithDiscType # See)
        BY <1>6, <2>3 DEF DetectType
      <3>2. seen' = See /\ row' = row
        BY <1>a, <3>1, Keeps
      <3>3. disc.files # "hddvd" => WithDiscType.disctype # "unknown"
        BY <1>a, <3>1 DEF WithDiscType, TypeOK, Disc, Video, Rows
      <3> QED BY <1>b, <2>3, <3>1, <3>2, <3>3 DEF Mounted
    <2> QED BY <1>6, <2>1, <2>2, <2>3 DEF DetectType
  <1>7. CASE RereadUdev
    <2>1. ~mounted' \/ disc.files = "hddvd" \/ broke \cap Unprotected # {}
      BY <1>7 DEF RereadUdev, Mounted
    <2> DEFINE new == [See EXCEPT !.disctype = disc.later, !.label = @ \/ disc.labelled]
    <2>2. new \in Rows /\ new.title = See.title /\ new.nice = See.nice
          /\ new.disctype = disc.later
      BY <1>a DEF Rows, Disc, TypeOK
    <2>3. (Keep(new) /\ disc.later = "unknown") \/ Save(new)
      BY <1>7 DEF RereadUdev
    <2> HIDE DEF new
    <2>4. seen' # Expired => seen'.disctype # "music"
      BY <2>2, <2>3, Keeps, Saves
    <2>5. pc' \in {"typed", "failed"}
      BY <1>7 DEF RereadUdev
    <2> QED BY <1>b, <2>1, <2>4, <2>5 DEF Mounted
  <1>8. CASE Typed
    <2>1. CASE Keep(See) /\ pc' = "idle" /\ (See.disctype = "music" \/ ~mounted)
      <3>1. seen' = See /\ See' = See /\ row' = row /\ mounted' = mounted
        BY <1>a, <1>8, <2>1, Keeps DEF Typed
      <3> QED BY <1>b, <2>1, <3>1 DEF Mounted
    <2>2. CASE Keep(WithDiscType) /\ pc' \in {"label", "umount"}
      <3>1. seen' = WithDiscType /\ row' = row
        BY <2>2, FilesTyped, Keeps
      <3>2. WithDiscType.disctype = "music" => See.disctype = "music"
        BY FilesTyped DEF TypeOK, Disc, Video
      <3> QED BY <1>b, <2>2, <3>1, <3>2 DEF Mounted
    <2> QED BY <1>8, <2>1, <2>2 DEF Typed
  <1>9. CASE ResolveDiscLabel
    <2>1. PICK found \in BOOLEAN : Keep([See EXCEPT !.label = @ \/ found])
      BY <1>9 DEF ResolveDiscLabel
    <2> DEFINE new == [See EXCEPT !.label = @ \/ found]
    <2>2. /\ new \in Rows /\ new.title = See.title /\ new.nice = See.nice
          /\ new.disctype = See.disctype /\ Keep(new)
      BY <1>a, <2>1 DEF Rows
    <2>3. pc' \in {"crc", "xml"}
      BY <1>9 DEF ResolveDiscLabel
    <2> HIDE DEF new
    <2>4. seen' = new /\ row' = row
      BY <2>2, Keeps
    <2> QED BY <1>b, <2>2, <2>3, <2>4 DEF Mounted
  <1>10. CASE IdentifyDvd \/ WriteExpectedTitle \/ DetectTrack99 \/ IdentifyBluray
              \/ SearchMetadata \/ MetadataSelector \/ UpdateJob \/ ApplyLabelAsTitle
              \/ EnableMultiTitle
    <2>1. pc' \notin {"begin", "ready", "mount", "udev", "failed", "idle", "dupes", "done"}
      <3>1. After.stage \in Stages \cup {"last"}
        BY DEF After, Shorter, Stages
      <3> QED BY <1>10, <3>1 DEF IdentifyDvd, WriteExpectedTitle, DetectTrack99, IdentifyBluray,
                  SearchMetadata, MetadataSelector, UpdateJob, ApplyLabelAsTitle,
                  EnableMultiTitle, Stages
    <2>2. Keep(See) \/ seen' = Expired
      BY <1>10 DEF IdentifyDvd, WriteExpectedTitle, DetectTrack99, IdentifyBluray, SearchMetadata,
                  MetadataSelector, UpdateJob, ApplyLabelAsTitle, EnableMultiTitle, Save
    <2>3. seen' # Expired => seen' = See /\ row' = row
      BY <1>a, <2>2, Keeps
    <2> QED BY <1>b, <2>1, <2>3 DEF Mounted
  <1>11. CASE Unmount
    <2>1. UNCHANGED <<row, seen>> /\ pc' \in {"idle", "failed"}
      BY <1>11 DEF Unmount
    <2>2. ~mounted' \/ "umount" \in broke'
      BY <1>11 DEF Unmount, Break
    <2> QED BY <1>b, <2>1, <2>2 DEF Mounted, Unprotected
  <1>12. CASE Identified
    <2>1. pc = "idle" /\ pc' = "dupes" /\ Save(See) /\ mounted' = mounted
      BY <1>12 DEF Identified
    <2>2. seen' = Expired /\ row'.disctype \in {See.disctype, row.disctype}
      BY <1>a, <2>1, Saves
    <2> QED BY <1>b, <2>1, <2>2 DEF Mounted
  <1>13. CASE JobDupeCheck
    <2>1. /\ pc = "dupes" /\ pc' = "done" /\ mounted' = mounted /\ seen = Expired
      BY <1>13 DEF JobDupeCheck, Kept
    <2>2. CASE Keep(See)
      <3>1. seen' = See /\ row' = row
        BY <1>a, <2>2, Keeps
      <3> QED BY <1>b, <2>1, <3>1 DEF Mounted
    <2>3. CASE ~Keep(See)
      <3>1. PICK nice \in BOOLEAN, type \in {"unknown", "movie", "series"} :
              Save([See EXCEPT !.title = "previous", !.year = TRUE, !.nice = nice, !.type = type])
        BY <1>13, <2>3 DEF JobDupeCheck
      <3> DEFINE new == [See EXCEPT !.title = "previous", !.year = TRUE, !.nice = nice,
                                    !.type = type]
      <3>2. new \in Rows /\ Save(new) /\ new.disctype = See.disctype
        BY <1>a, <3>1 DEF Rows, Titles, Types
      <3> HIDE DEF new
      <3>3. seen' = Expired /\ row'.disctype = row.disctype
        BY <2>1, <3>2, Saves
      <3> QED BY <1>b, <2>1, <3>3 DEF Mounted
    <2> QED BY <2>2, <2>3
  <1>14. CASE Raise
    <2>1. /\ row' = row /\ seen' \in {seen, Expired} /\ See' \in {See, row} /\ mounted' = mounted
          /\ pc' \in {"last", "track99", "abort", "failed"}
          /\ pc \in broke' /\ broke \subseteq broke'
      BY <1>14, Raises DEF Raise
    <2>2. CASE pc' # "failed"
      BY <1>b, <2>1, <2>2 DEF Mounted
    <2>3. CASE pc' = "failed"
      <3>1. pc \in {"begin", "ready", "mount", "idle", "dupes"} \cup Unprotected
        BY <1>14, <2>3, Raises DEF TypeOK
      <3>2. mounted /\ disc.files # "hddvd" /\ broke' \cap Unprotected = {} => row.disctype = "music"
        BY <2>1, <3>1 DEF Mounted
      <3> QED BY <1>b, <2>1, <2>3, <3>2 DEF Mounted
    <2> QED BY <2>2, <2>3
  <1> QED BY <1>1, <1>2, <1>3, <1>4, <1>5, <1>6, <1>7, <1>8, <1>9, <1>10, <1>11, <1>12, <1>13,
         <1>14
      DEF Next, Ripper

-----------------------------------------------------------------------------
(* The search. *)
LEMMA LeastNat ==
  ASSUME NEW S, S \subseteq Nat, S # {}
  PROVE  \E x \in S : \A y \in S : x <= y
  <1> DEFINE Below == {ss \in Nat \X Nat : ss[1] < ss[2]}
  <1>1. IsWellFoundedOn(Below, Nat)
    BY NatLessThanWellFounded DEF OpToRel
  <1>2. PICK x \in S : \A y \in S : ~(<<y, x>> \in Below)
    BY <1>1, WFMin
  <1>3. \A u, v \in Nat : <<v, u>> \in Below <=> v < u
    OBVIOUS
  <1> HIDE DEF Below
  <1>4. ASSUME NEW y \in S PROVE x <= y
    <2>1. x \in Nat /\ y \in Nat /\ ~(y < x)
      BY <1>2, <1>3
    <2> QED BY <2>1
  <1> QED BY <1>4

(* Cut at its last separator, a query is shorter. *)
LEMMA Cuts ==
  ASSUME NEW q \in Seq({"-", "+"}), NEW sep, Has(q, sep)
  PROVE  CutAt(q, sep) \in Seq({"-", "+"}) /\ Len(CutAt(q, sep)) < Len(q)
  <1> DEFINE n      == Len(q)
             At     == {i \in 1 .. n : q[i] = sep}
             Behind == {n - i : i \in At}
             last   == CHOOSE i \in DOMAIN q : /\ q[i] = sep
                                               /\ \A j \in DOMAIN q : q[j] = sep => j <= i
  <1>1. n \in Nat /\ DOMAIN q = 1 .. n /\ \A i \in 1 .. n : q[i] \in {"-", "+"}
    BY LenProperties
  <1>2. At # {}
    BY <1>1 DEF Has
  <1> HIDE DEF n
  <1>3. Behind \subseteq Nat /\ Behind # {}
    BY <1>1, <1>2
  <1>4. PICK b \in Behind : \A c \in Behind : b <= c
    BY <1>3, LeastNat
  <1>5. PICK i \in At : b = n - i
    BY <1>4
  <1>6. \A j \in At : n - i <= n - j
    BY <1>4, <1>5
  <1>7. \A j \in 1 .. n : q[j] = sep => j <= i
    BY <1>1, <1>6
  <1>8. \E k \in DOMAIN q : q[k] = sep /\ \A j \in DOMAIN q : q[j] = sep => j <= k
    BY <1>1, <1>5, <1>7
  <1>9. last \in 1 .. n
    BY <1>1, <1>8
  <1>10. CutAt(q, sep) = SubSeq(q, 1, last - 1)
    BY DEF CutAt
  <1> HIDE DEF last
  <1>11. \A j \in 1 .. last - 1 : q[j] \in {"-", "+"}
    BY <1>1, <1>9
  <1>12. /\ SubSeq(q, 1, last - 1) \in Seq({"-", "+"})
         /\ Len(SubSeq(q, 1, last - 1)) = IF 1 <= last - 1 THEN last - 1 - 1 + 1 ELSE 0
    BY <1>1, <1>9, <1>11, SubSeqProperties
  <1>13. Len(SubSeq(q, 1, last - 1)) < n
    BY <1>1, <1>9, <1>12
  <1> QED BY <1>10, <1>12, <1>13 DEF n

LEMMA SearchedInit == Init => Searched
  BY EmptySeq DEF Init, Searched, Stages, BeforeTitle

(* A query that cannot be cut any more is empty. *)
LEMMA Shortens ==
  ASSUME query \in Seq({"-", "+"})
  PROVE  /\ Shorter.stage \in {"dash", "word", "last"}
         /\ Shorter.query \in Seq({"-", "+"}) /\ Len(Shorter.query) <= Len(query)
         /\ Shorter.stage = "last" => Shorter.query = << >>
  <1>1. Len(query) \in Nat /\ DOMAIN query = 1 .. Len(query)
        /\ \A i \in 1 .. Len(query) : query[i] \in {"-", "+"}
    BY LenProperties
  <1>2. CASE Has(query, "-")
    <2>1. CutAt(query, "-") \in Seq({"-", "+"}) /\ Len(CutAt(query, "-")) < Len(query)
      BY <1>2, Cuts
    <2>2. Len(CutAt(query, "-")) \in Nat
      BY <2>1, LenProperties
    <2> QED BY <1>1, <1>2, <2>1, <2>2 DEF Shorter
  <1>3. CASE ~Has(query, "-") /\ Has(query, "+")
    <2>1. CutAt(query, "+") \in Seq({"-", "+"}) /\ Len(CutAt(query, "+")) < Len(query)
      BY <1>3, Cuts
    <2>2. Len(CutAt(query, "+")) \in Nat
      BY <2>1, LenProperties
    <2> QED BY <1>1, <1>3, <2>1, <2>2 DEF Shorter
  <1>4. CASE ~Has(query, "-") /\ ~Has(query, "+")
    <2>1. Len(query) = 0
      <3>1. ~(1 \in 1 .. Len(query))
        BY <1>1, <1>4 DEF Has
      <3> QED BY <1>1, <3>1
    <2>2. query = << >>
      BY <2>1, EmptySeq
    <2> QED BY <1>1, <1>4, <2>2 DEF Shorter
  <1> QED BY <1>2, <1>3, <1>4

(* Another search that found nothing to rely on. *)
LEMMA AsksOn ==
  ASSUME Searched, pc \in Stages, year' = year,
         asked' = asked \cup {<<Len(query), YearAsked>>},
         pc' = After.stage, query' = After.query
  PROVE  Searched' /\ (pc' = "last" => AskedEnough')
  <1> DEFINE n    == Len(query)
             ways == IF year THEN {"given", "before", "none"} ELSE {"none"}
             top  == IF year THEN "given" ELSE "none"
  <1>1. /\ query \in Seq({"-", "+"}) /\ year \in BOOLEAN /\ n \in Nat
        /\ \A a \in asked : a[1] \in Nat
    BY LenProperties DEF Searched
  <1>2. \A a \in asked' : a \in asked \/ a = <<n, YearAsked>>
    OBVIOUS
  <1>3. \A a \in asked' : a[1] \in Nat
    BY <1>1, <1>2
  <1>4. CASE pc \in {"first", "withYear", "yearBefore"}
    <2>1. /\ query' = query /\ pc' \in {"withYear", "yearBefore", "withoutYear"}
          /\ pc' = "withoutYear" => ~year \/ pc = "yearBefore"
          /\ pc' = "withYear" => pc = "first" /\ year
          /\ pc' = "yearBefore" => pc = "withYear"
      BY <1>4 DEF After
    <2>2. \A a \in asked' : a[1] = n
      BY <1>2, <1>4 DEF Searched
    <2>3. /\ pc = "first" => YearAsked = top
          /\ pc = "withYear" => year /\ YearAsked = "given"
          /\ pc = "yearBefore" => year /\ YearAsked = "before" /\ <<n, "given">> \in asked
      BY <1>4 DEF YearAsked, Searched
    <2> QED BY <1>1, <1>3, <1>4, <2>1, <2>2, <2>3 DEF Searched, BeforeTitle
  <1>5. CASE pc = "word"
    <2>1. query' = query /\ pc' = "wordAlone" /\ YearAsked = top
      BY <1>1, <1>5 DEF After, YearAsked
    <2>2. PICK m \in Nat : /\ n <= m /\ \A a \in asked : a[1] <= m
                           /\ \A way \in ways : <<m, way>> \in asked
      BY <1>5 DEF Searched
    <2>3. /\ \A a \in asked' : a[1] <= m
          /\ \A way \in ways : <<m, way>> \in asked'
      BY <1>2, <2>2
    <2> QED BY <1>1, <1>3, <2>1, <2>2, <2>3 DEF Searched, BeforeTitle
  <1>6. CASE pc \in {"withoutYear", "dash", "wordAlone"}
    <2>1. /\ pc' = Shorter.stage /\ query' = Shorter.query
      BY <1>6 DEF After
    <2>2. /\ pc' \in {"dash", "word", "last"} /\ query' \in Seq({"-", "+"})
          /\ Len(query') <= n /\ (pc' = "last" => query' = << >>)
      BY <1>1, <2>1, Shortens
    <2>3. \E m \in Nat : /\ n <= m /\ \A a \in asked' : a[1] <= m
                         /\ \A way \in ways : <<m, way>> \in asked'
      <3>1. CASE pc = "withoutYear"
        <4>1. YearAsked = "none"
          BY <3>1 DEF YearAsked
        <4>2. \A way \in ways : <<n, way>> \in asked'
          BY <1>1, <3>1, <4>1 DEF Searched
        <4>3. \A a \in asked' : a[1] = n
          BY <1>2, <3>1 DEF Searched
        <4> QED BY <1>1, <4>2, <4>3
      <3>2. CASE pc \in {"dash", "wordAlone"}
        <4>1. PICK m \in Nat : /\ n <= m /\ \A a \in asked : a[1] <= m
                               /\ \A way \in ways : <<m, way>> \in asked
          BY <3>2 DEF Searched
        <4> QED BY <1>2, <4>1
      <3> QED BY <1>6, <3>1, <3>2
    <2>4. <<n, top>> \in asked'
      <3>1. CASE pc = "withoutYear"
        BY <1>1, <3>1 DEF Searched, YearAsked
      <3>2. CASE pc = "dash"
        BY <1>1, <3>2 DEF YearAsked
      <3>3. CASE pc = "wordAlone"
        BY <3>3 DEF Searched
      <3> QED BY <1>6, <3>1, <3>2, <3>3
    <2>5. PICK m \in Nat : /\ n <= m /\ \A a \in asked' : a[1] <= m
                           /\ \A way \in ways : <<m, way>> \in asked'
      BY <2>3
    <2>6. Len(query') \in Nat /\ Len(query') <= m
      BY <1>1, <2>2, <2>5, LenProperties
    <2>7. Searched'
      BY <1>1, <1>3, <2>2, <2>5, <2>6 DEF Searched, BeforeTitle
    <2>8. CASE pc' = "last"
      <3>1. query' = << >> /\ query \in Seq({"-", "+"})
        BY <1>1, <2>2, <2>8
      <3>2. <<0, top>> \in asked'
        <4>1. Len(query) = 0
          BY <2>1, <2>8, <3>1, EmptySeq DEF Shorter
        <4> QED BY <2>4, <4>1
      <3>3. m \in {a[1] : a \in asked'}
        <4>1. <<m, "none">> \in asked' /\ <<m, "none">>[1] = m
          BY <2>5
        <4> QED BY <4>1
      <3> QED BY <2>5, <2>7, <3>1, <3>2, <3>3 DEF AskedEnough
    <2> QED BY <2>7, <2>8
  <1> QED BY <1>4, <1>5, <1>6 DEF Stages

LEMMA SearchedStep ==
  TypeOK /\ Searched /\ [Next]_vars
    => Searched' /\ (pc \in Stages /\ pc' = "last" /\ pc \notin broke' => AskedEnough')
  <1> SUFFICES ASSUME TypeOK, Searched, [Next]_vars
               PROVE  Searched' /\ (pc \in Stages /\ pc' = "last" /\ pc \notin broke' => AskedEnough')
    OBVIOUS
  <1> USE DEF Searches, Device, Still, Quiet, Goto
  <1>1. CASE MetadataSelector
    <2>1. /\ pc \in Stages /\ year' = year
          /\ asked' = asked \cup {<<Len(query), YearAsked>>}
          /\ \/ pc' = "match" /\ query' = query
             \/ pc' = After.stage /\ query' = After.query
      BY <1>1 DEF MetadataSelector
    <2>2. CASE pc' = After.stage /\ query' = After.query
      BY <2>1, <2>2, AsksOn
    <2>3. CASE pc' = "match" /\ query' = query
      <3>1. \A a \in asked' : a[1] \in Nat
        BY <2>1, LenProperties DEF Searched
      <3> QED BY <2>1, <2>3, <3>1 DEF Searched, BeforeTitle
    <2> QED BY <2>1, <2>2, <2>3
  <1>2. CASE SearchMetadata
    <2>1. pc = "judge" /\ asked' = asked /\ asked = {}
      BY <1>2 DEF SearchMetadata, Searched
    <2>2. \/ pc' = "last" /\ UNCHANGED <<query, year>>
          \/ pc' = "first" /\ query' \in Queries /\ year' = See.year
      BY <1>2 DEF SearchMetadata
    <2>3. query' \in Seq({"-", "+"}) /\ year' \in BOOLEAN
      BY <2>2, IdentificationAssumption, SeesRow DEF Searched, Rows
    <2> QED BY <2>1, <2>2, <2>3 DEF Searched, BeforeTitle, Stages
  <1>4. CASE Raise
    <2>1. UNCHANGED <<query, year, asked>> /\ pc' \in {"last", "track99", "abort", "failed"}
          /\ (pc' = "track99" => pc \in {"crc", "crcTitle"}) /\ pc \in broke'
      BY <1>4, Raises DEF Raise
    <2> QED BY <2>1 DEF Searched, Stages, BeforeTitle
  <1>3. CASE ~MetadataSelector /\ ~SearchMetadata /\ ~Raise
    <2>1. UNCHANGED <<query, year, asked>>
      BY <1>3 DEF Next, Ripper, SpinUp, OpenTray, UpdateJobTitle, Begin, WaitForDriveReady,
         CheckMount, DetectType, RereadUdev, Typed, ResolveDiscLabel, IdentifyDvd,
         WriteExpectedTitle, DetectTrack99, IdentifyBluray, UpdateJob, ApplyLabelAsTitle,
         EnableMultiTitle, Unmount, Identified, JobDupeCheck, Raise, vars
    <2>2. pc' = pc \/ /\ pc \notin Stages /\ pc' \notin Stages
                      /\ pc' \in BeforeTitle \cup {"crcTitle", "track99", "judge"}
                           => pc \in BeforeTitle \cup {"crcTitle", "track99"}
      <3>1. CASE WriteExpectedTitle \/ DetectTrack99 \/ IdentifyBluray \/ UpdateJob
                   \/ ApplyLabelAsTitle \/ EnableMultiTitle \/ Unmount \/ Identified \/ JobDupeCheck
        BY <3>1 DEF WriteExpectedTitle, DetectTrack99, IdentifyBluray, UpdateJob, ApplyLabelAsTitle,
           EnableMultiTitle, Unmount, Identified, JobDupeCheck, Stages, BeforeTitle
      <3>2. CASE Begin \/ WaitForDriveReady \/ CheckMount \/ DetectType \/ RereadUdev \/ Typed
                   \/ ResolveDiscLabel \/ IdentifyDvd
        BY <3>2 DEF Begin, WaitForDriveReady, CheckMount, DetectType, RereadUdev, Typed,
           ResolveDiscLabel, IdentifyDvd, Stages, BeforeTitle
      <3>3. CASE SpinUp \/ OpenTray \/ UpdateJobTitle \/ UNCHANGED vars
        BY <3>3 DEF SpinUp, OpenTray, UpdateJobTitle, vars
      <3> QED BY <1>3, <3>1, <3>2, <3>3 DEF Next, Ripper
    <2>3. CASE pc' = pc
      BY <2>1, <2>3 DEF Searched, Stages
    <2>4. CASE pc' # pc
      BY <2>1, <2>2, <2>4 DEF Searched, Stages
    <2> QED BY <2>3, <2>4
  <1> QED BY <1>1, <1>2, <1>3, <1>4

-----------------------------------------------------------------------------
LEMMA IdentificationInvariant == Spec => []IdentificationInv
  <1>1. Init => IdentificationInv
    BY TypeInit, KeptInit, PickedInit, ExpectsInit, MountedInit, SearchedInit DEF IdentificationInv
  <1>2. IdentificationInv /\ [Next]_vars => IdentificationInv'
    BY TypeStep, KeptStep, PickedStep, ExpectsStep, MountedStep, SearchedStep DEF IdentificationInv
  <1> QED BY <1>1, <1>2, PTL DEF Spec

(* Of the works a provider names, one of the disc's name and year is taken   *)
(* before any other (arm_matcher.py 395-461).                               *)
THEOREM ExactWorkTaken == Spec => []ExactWins
  <1>1. IdentificationInv => ExactWins
    BY ExactTaken DEF IdentificationInv
  <1> QED BY <1>1, IdentificationInvariant, PTL

(* While the user does nothing, the title the tracks are compared with is    *)
(* the one the disc was identified as (identify.py 329-330, 552-560, 718-727).*)
THEOREM ExpectedTitleTrue == Spec => []ExpectedAgrees
  <1>1. IdentificationInv => ExpectedAgrees
    BY DEF IdentificationInv, Expects, ExpectedAgrees
  <1> QED BY <1>1, IdentificationInvariant, PTL

(* A disc whose type its files tell, and which nobody declares to be music,  *)
(* is left mounted only by a umount that is refused or a job's row that       *)
(* cannot be read or written outside the protected part; never by what raises *)
(* inside it (identify.py 412-424).                                          *)
THEOREM DiscUnmounted == Spec => []NotLeftMounted
  <1>1. IdentificationInv => NotLeftMounted
    BY DEF IdentificationInv, Mounted, NotLeftMounted
  <1> QED BY <1>1, IdentificationInvariant, PTL

(* A title found by the checksum or the search is never lost to the label or *)
(* to another search: only the user changes it, and the duplicate check      *)
(* (identify.py 329-333).                                                   *)
THEOREM FoundTitleKept == Spec => TitleKept
  <1>1. IdentificationInv /\ [Next]_vars
          => [row.title \in {"crc", "match"} /\ pc # "dupes"
                => row'.title \in {row.title, "user"} /\ row'.nice]_<<row, pc>>
    BY KeptStep DEF IdentificationInv, StaysFound, Found
  <1> QED BY <1>1, IdentificationInvariant, PTL DEF Spec, TitleKept

(* A search that nothing raises in is given up only after the whole query    *)
(* was asked for in every way, and what is left of it at the end too         *)
(* (identify.py 794-827).                                                   *)
THEOREM SearchExhausted == Spec => GivesUpLast
  <1>1. IdentificationInv /\ [Next]_vars
          => [pc' = "last" /\ pc \in Stages /\ pc \notin broke' => AskedEnough']_<<pc, asked>>
    BY SearchedStep DEF IdentificationInv
  <1> QED BY <1>1, IdentificationInvariant, PTL DEF Spec, GivesUpLast
=============================================================================
