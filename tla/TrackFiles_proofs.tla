--------------------------- MODULE TrackFiles_proofs ---------------------------
(***************************************************************************)
(* TypeOK, KeptSurvive, RowsFindTheirFiles and EmptyRipTrue for discs of    *)
(* any number of titles and any lengths, names and calls of the user.       *)
(*                                                                          *)
(* What all of them rest on is where MakeMKV puts a title: the number of a  *)
(* file is the rank of its title among those saved, or its own number when  *)
(* titles are ripped one by one. From there the title map of an import is   *)
(* right because the rows that are long enough can only be those saved, and *)
(* nothing is lost in moving because no two tracks of one name have one     *)
(* destination.                                                             *)
(***************************************************************************)
EXTENDS TrackFiles, FiniteSetTheorems, TLAPS

Early == {"scan", "adding", "broken", "review"}

TriesLeft == pc = "scan" => scans < MaxScans

(* Where a title that was saved is. *)
Place(t, S) == <<disc.stem[t], IF disc.way = "single" THEN t ELSE Rank(t, S)>>
OwnFile(t)  == Place(t, made)

Untouched == pc # "done" /\ ~(Import /\ pc \in {"mark", "finalize"})

InOwnFiles ==
    /\ Untouched => \A t \in made : OwnFile(t) \in FileName /\ file[OwnFile(t)] = t
    /\ pc # "done" => /\ \A f \in Files : file[f] \in made /\ f = OwnFile(file[f])
                      /\ final = {} /\ clashed = {}

(* What was saved, as far as the rip has got. *)
LongTo(n) == {t \in Titles : t < n /\ ~(Length(t) < disc.skip)}

SavedSoFar ==
    /\ pc \in Early => made = {}
    /\ pc = "titles" => disc.way = "single"
    /\ pc = "rip" => disc.way # "single"
    /\ pc \in {"remove", "mark"} => Import
    /\ pc \in {"rip", "closing"} /\ disc.way # "single" => made = LongTo(next)
    /\ pc = "reconcile" /\ disc.way # "single" => made = LongTo(LastTitle + 1)

ScannedNames ==
    pc \in Early \cup {"rip", "titles", "closing", "reconcile"} =>
        \A t \in Rows : row[t].name \in {<<disc.stem[t], t>>, Basename}

MarkedRipped ==
    /\ pc \in Early => \A t \in Rows : ~row[t].ripped
    /\ pc \in {"titles", "reconcile"} /\ disc.way = "single" =>
         /\ made \subseteq Rows
         /\ \A t \in Rows : row[t].ripped <=> t \in made
    /\ pc = "reconcile" /\ disc.way = "all" =>
         /\ made # {}
         /\ \A t \in made \cap Rows : row[t].ripped \/ row[t].name = Basename

(* KeptSurvive follows from InOwnFiles until the files are touched. *)
KeptLate == ~Untouched => KeptSurvive

TracksInv ==
    /\ TypeOK
    /\ TriesLeft
    /\ InOwnFiles
    /\ SavedSoFar
    /\ ScannedNames
    /\ MarkedRipped
    /\ RowsFindTheirFiles
    /\ KeptLate
-----------------------------------------------------------------------------
(* Ranks, of titles and of file names.                                      *)
LEMMA FiniteTitles ==
    ASSUME NEW S, S \subseteq Titles
    PROVE  IsFiniteSet(S) /\ Cardinality(S) \in Nat
<1>1. IsFiniteSet(Titles)
  BY FS_Interval, TracksAssumption DEF Titles
<1>2. QED
  BY <1>1, FS_Subset, FS_CardinalityType

LEMMA NumberOfTitles == Cardinality(Titles) = LastTitle + 1
BY FS_Interval, TracksAssumption DEF Titles

LEMMA TitlesAreNumbers == \A t \in Titles : t \in Nat /\ t <= LastTitle
BY TracksAssumption DEF Titles

LEMMA RankBelow ==
    ASSUME NEW S, S \subseteq Titles, NEW t \in Titles
    PROVE  /\ Rank(t, S) \in Nat
           /\ Rank(t, S) <= Cardinality(S)
           /\ t \in S => Rank(t, S) < Cardinality(S)
<1> DEFINE B == {u \in S : u < t}
<1>1. IsFiniteSet(S) /\ Cardinality(S) \in Nat /\ IsFiniteSet(B) /\ Cardinality(B) \in Nat
  BY FiniteTitles
<1>2. Cardinality(B) <= Cardinality(S) /\ (Cardinality(S) = Cardinality(B) => S = B)
  BY <1>1, FS_Subset
<1>3. t \notin B
  BY TitlesAreNumbers
<1>4. QED
  BY <1>1, <1>2, <1>3 DEF Rank

LEMMA RankOrder ==
    ASSUME NEW S, S \subseteq Titles, NEW t \in S, NEW u \in Titles, t < u
    PROVE  Rank(t, S) < Rank(u, S)
<1> DEFINE B == {v \in S : v < t}
           C == {v \in S : v < u}
<1>1. IsFiniteSet(C) /\ Cardinality(C) \in Nat /\ Cardinality(B) \in Nat
  BY FiniteTitles
<1>2. B \subseteq C /\ t \in C /\ t \notin B
  BY TitlesAreNumbers
<1>3. Cardinality(B) <= Cardinality(C) /\ (Cardinality(C) = Cardinality(B) => C = B)
  BY <1>1, <1>2, FS_Subset
<1>4. QED
  BY <1>1, <1>2, <1>3 DEF Rank

LEMMA RankInjective ==
    ASSUME NEW S, S \subseteq Titles, NEW t \in S, NEW u \in S, Rank(t, S) = Rank(u, S)
    PROVE  t = u
<1>1. Rank(t, S) \in Nat /\ Rank(u, S) \in Nat
  BY RankBelow
<1>2. ~(t < u) /\ ~(u < t)
  BY <1>1, RankOrder
<1>3. QED
  BY <1>2, TitlesAreNumbers

(* A title that comes after all others leaves their ranks and is the last. *)
LEMMA RankOfNext ==
    ASSUME NEW S, S \subseteq Titles, NEW n \in Titles, \A t \in S : t < n
    PROVE  /\ \A t \in S : Rank(t, S \cup {n}) = Rank(t, S)
           /\ Rank(n, S \cup {n}) = Cardinality(S)
<1>1. ASSUME NEW t \in S PROVE {u \in S \cup {n} : u < t} = {u \in S : u < t}
  BY TitlesAreNumbers
<1>2. {u \in S \cup {n} : u < n} = S
  BY TitlesAreNumbers
<1>3. QED
  BY <1>1, <1>2 DEF Rank

LEMMA NamesAreNumbers ==
    ASSUME NEW f \in FileName
    PROVE  f[1] \in Nat /\ f[2] \in Nat /\ f = <<f[1], f[2]>>
BY TitlesAreNumbers DEF FileName, Stems

LEMMA FilesInOrder ==
    ASSUME NEW f \in FileName, NEW g \in FileName
    PROVE  /\ ~FileOrder(f, f)
           /\ f # g => FileOrder(f, g) \/ FileOrder(g, f)
           /\ \A h \in FileName : FileOrder(f, g) /\ FileOrder(g, h) => FileOrder(f, h)
<1>1. \A h \in FileName : h[1] \in Nat /\ h[2] \in Nat /\ h = <<h[1], h[2]>>
  BY NamesAreNumbers
<1>2. ~FileOrder(f, f)
  BY <1>1 DEF FileOrder
<1>3. ASSUME f # g PROVE FileOrder(f, g) \/ FileOrder(g, f)
  <2>1. f[1] # g[1] \/ f[2] # g[2]
    BY <1>1, <1>3
  <2>2. QED
    BY <2>1, <1>1 DEF FileOrder
<1>4. ASSUME NEW h \in FileName, FileOrder(f, g), FileOrder(g, h) PROVE FileOrder(f, h)
  BY <1>1, <1>4 DEF FileOrder
<1>5. QED
  BY <1>2, <1>3, <1>4

LEMMA FiniteFiles ==
    ASSUME NEW S, S \subseteq FileName
    PROVE  IsFiniteSet(S) /\ Cardinality(S) \in Nat
<1>1. IsFiniteSet(Titles)
  BY FiniteTitles
<1>2. IsFiniteSet(FileName)
  BY <1>1, FS_Product DEF FileName, Stems
<1>3. QED
  BY <1>2, FS_Subset, FS_CardinalityType

LEMMA FileRankOrder ==
    ASSUME NEW S, S \subseteq FileName, NEW f \in S, NEW g \in S
    PROVE  /\ FileRank(f, S) \in Nat /\ FileRank(f, S) < Cardinality(S)
           /\ f # g => FileRank(f, S) # FileRank(g, S)
<1> DEFINE B(h) == {k \in S : FileOrder(k, h)}
<1>1. \A h : IsFiniteSet(B(h)) /\ Cardinality(B(h)) \in Nat
  BY FiniteFiles
<1>2. IsFiniteSet(S) /\ Cardinality(S) \in Nat
  BY FiniteFiles
<1>3. \A h \in S : h \in FileName /\ h \notin B(h)
  BY FilesInOrder
<1>4. Cardinality(B(f)) < Cardinality(S)
  <2>1. Cardinality(B(f)) <= Cardinality(S) /\ (Cardinality(S) = Cardinality(B(f)) => S = B(f))
    BY <1>2, FS_Subset
  <2>2. QED
    BY <2>1, <1>1, <1>2, <1>3
<1>5. ASSUME NEW h \in S, NEW k \in S, FileOrder(h, k)
      PROVE  Cardinality(B(h)) < Cardinality(B(k))
  <2>1. B(h) \subseteq B(k) /\ h \in B(k) /\ h \notin B(h)
    BY <1>3, <1>5, FilesInOrder
  <2>2. Cardinality(B(h)) <= Cardinality(B(k)) /\ (Cardinality(B(k)) = Cardinality(B(h)) => B(k) = B(h))
    BY <2>1, <1>1, FS_Subset
  <2>3. QED
    BY <2>1, <2>2, <1>1
<1>6. ASSUME f # g PROVE Cardinality(B(f)) # Cardinality(B(g))
  <2>1. FileOrder(f, g) \/ FileOrder(g, f)
    BY <1>3, <1>6, FilesInOrder
  <2>2. Cardinality(B(f)) < Cardinality(B(g)) \/ Cardinality(B(g)) < Cardinality(B(f))
    BY <2>1, <1>5
  <2>3. QED
    BY <2>2, <1>1
<1>7. QED
  BY <1>1, <1>4, <1>6 DEF FileRank

(* As many files as rows: every row has the file of its rank.               *)
LEMMA SameRank ==
    ASSUME NEW T, T \subseteq Titles, NEW S, S \subseteq FileName,
           Cardinality(T) = Cardinality(S), NEW t \in T
    PROVE  \E f \in S : FileRank(f, S) = Rank(t, T)
<1> DEFINE n == Cardinality(S)
           N == 0 .. (n - 1)
           rank == [f \in S |-> FileRank(f, S)]
<1>1. IsFiniteSet(S) /\ n \in Nat
  BY FiniteFiles
<1>2. IsFiniteSet(N) /\ Cardinality(N) = n
  BY <1>1, FS_Interval
<1>3. \A f \in S : rank[f] \in N
  BY <1>1, FileRankOrder
<1>4. \A f, g \in S : rank[f] = rank[g] => f = g
  BY FileRankOrder
<1>5. rank \in Injection(S, N)
  BY <1>3, <1>4 DEF Injection, IsInjective
<1>6. rank \in Surjection(S, N)
  BY <1>1, <1>2, <1>5, FS_Injection
<1>7. Rank(t, T) \in N
  <2>1. Rank(t, T) \in Nat /\ Rank(t, T) < Cardinality(T)
    BY RankBelow
  <2>2. QED
    BY <2>1, <1>1
<1>8. QED
  BY <1>6, <1>7 DEF Surjection

-----------------------------------------------------------------------------
(* Every pass of the matching gives rows files that are there, and leaves    *)
(* what the passes before it gave.                                          *)
Fits(m)       == DOMAIN m \subseteq Rows /\ \A t \in DOMAIN m : m[t] \in Files
Extends(m, n) == DOMAIN m \subseteq DOMAIN n /\ \A t \in DOMAIN m : n[t] = m[t]

LEMMA NameFits ==
    ASSUME NEW m, Fits(m)
    PROVE  Fits(ByName(m)) /\ Extends(m, ByName(m))
<1> DEFINE first == {t \in FreeRows(m) : /\ row[t].name \in FreeFiles(m)
                                         /\ \A u \in FreeRows(m) : row[u].name = row[t].name => u >= t}
           n == [t \in DOMAIN m \cup first |-> IF t \in first THEN row[t].name ELSE m[t]]
<1>1. ByName(m) = n
  BY DEF ByName, Extended
<1>2. first \subseteq Rows \ DOMAIN m /\ \A t \in first : row[t].name \in Files
  BY DEF FreeRows, FreeFiles
<1> HIDE DEF first
<1>3. QED
  BY <1>1, <1>2 DEF Fits, Extends

LEMMA StemFits ==
    ASSUME NEW m, Fits(m)
    PROVE  Fits(ByStem(m)) /\ Extends(m, ByStem(m))
<1> DEFINE ofStem(t) == {f \in FreeFiles(m) : f[1] = row[t].name[1]}
           named == {t \in FreeRows(m) : row[t].name # Basename}
           first == {t \in named : /\ Cardinality(ofStem(t)) = 1
                                   /\ \A u \in named : row[u].name[1] = row[t].name[1] => u >= t}
           n == [t \in DOMAIN m \cup first |-> IF t \in first THEN CHOOSE f \in ofStem(t) : TRUE
                                                             ELSE m[t]]
<1>1. ByStem(m) = n
  BY DEF ByStem, Extended
<1>2. first \subseteq Rows \ DOMAIN m
  BY DEF FreeRows
<1>3. ASSUME NEW t \in first PROVE (CHOOSE f \in ofStem(t) : TRUE) \in Files
  <2>1. ofStem(t) # {}
    BY <1>3, FS_EmptySet
  <2>2. (CHOOSE f \in ofStem(t) : TRUE) \in ofStem(t)
    BY <2>1
  <2>3. QED
    BY <2>2 DEF FreeFiles
<1> HIDE DEF first, ofStem
<1>4. QED
  BY <1>1, <1>2, <1>3 DEF Fits, Extends

LEMMA PositionFits ==
    ASSUME NEW m, Fits(m)
    PROVE  Fits(ByPosition(m)) /\ Extends(m, ByPosition(m))
<1> DEFINE rows == FreeRows(m)
           files == FreeFiles(m)
           at(t) == CHOOSE f \in files : FileRank(f, files) = Rank(t, rows)
           n == [t \in DOMAIN m \cup rows |-> IF t \in rows THEN at(t) ELSE m[t]]
<1>1. ByPosition(m) = IF Cardinality(rows) # Cardinality(files) THEN m ELSE n
  BY DEF ByPosition, Extended
<1>2. rows = Rows \ DOMAIN m /\ rows \subseteq Titles /\ files \subseteq Files /\ files \subseteq FileName
  BY DEF FreeRows, FreeFiles, Rows, Files
<1>3. ASSUME Cardinality(rows) = Cardinality(files), NEW t \in rows
      PROVE  at(t) \in Files
  <2>1. \E f \in files : FileRank(f, files) = Rank(t, rows)
    BY <1>2, <1>3, SameRank
  <2>2. at(t) \in files
    BY <2>1
  <2>3. QED
    BY <1>2, <2>2
<1> HIDE DEF rows, files, at
<1>4. CASE Cardinality(rows) # Cardinality(files)
  BY <1>1, <1>4 DEF Fits, Extends
<1>5. CASE Cardinality(rows) = Cardinality(files)
  <2>1. ByPosition(m) = n
    BY <1>1, <1>5
  <2>2. Fits(n) /\ Extends(m, n)
    BY <1>2, <1>3, <1>5 DEF Fits, Extends
  <2>3. QED
    BY <2>1, <2>2
<1>6. QED
  BY <1>4, <1>5

LEMMA MapFits == Fits(ByTitleMap)
<1> DEFINE kept(c) == {t \in Rows : Length(t) >= c}
           fitting == {c \in Lengths \cup {0, MinLength} : Cardinality(kept(c)) = Cardinality(Files)}
           titles  == kept(CHOOSE c \in fitting : TRUE)
           number  == TitleMap
           named   == {t \in DOMAIN number : \E f \in Files : f[2] = number[t]}
<1>1. number = IF fitting = {} \/ Files = {} THEN << >> ELSE [t \in titles |-> Rank(t, titles)]
  BY DEF TitleMap
<1>2. DOMAIN number \subseteq Rows
  BY <1>1
<1>3. ByTitleMap = [t \in named |-> CHOOSE f \in Files : f[2] = number[t]]
  BY DEF ByTitleMap
<1> HIDE DEF number
<1>4. \A t \in named : (CHOOSE f \in Files : f[2] = number[t]) \in Files
  OBVIOUS
<1>5. QED
  BY <1>2, <1>3, <1>4 DEF Fits

LEMMA MatchingFits ==
    /\ Fits(Matching)
    /\ Import => Extends(ByTitleMap, Matching)
<1> DEFINE m0 == IF Import THEN ByTitleMap ELSE << >>
           m1 == ByName(m0)
           m2 == ByStem(m1)
           m3 == ByPosition(m2)
<1>0. Matching = m3
  BY DEF Matching
<1>1. Fits(m0)
  <2>1. Fits(<< >>)
    BY DEF Fits
  <2>2. QED
    BY <2>1, MapFits
<1>2. Fits(m1) /\ Extends(m0, m1)
  <2> HIDE DEF m0
  <2>1. QED
    BY <1>1, NameFits
<1>3. Fits(m2) /\ Extends(m1, m2)
  <2> HIDE DEF m1
  <2>1. QED
    BY <1>2, StemFits
<1>4. Fits(m3) /\ Extends(m2, m3)
  <2> HIDE DEF m2
  <2>1. QED
    BY <1>3, PositionFits
<1>5. Extends(m0, m3)
  <2> HIDE DEF m0, m1, m2, m3
  <2>1. QED
    BY <1>2, <1>3, <1>4 DEF Extends
<1>6. QED
  BY <1>0, <1>4, <1>5

-----------------------------------------------------------------------------
(* Types.                                                                   *)
LEMMA RowsTyped ==
    ASSUME TypeOK
    PROVE  /\ Rows \subseteq Titles
           /\ \A t \in Rows : row[t] \in Row
           /\ Absent \notin Row
           /\ Files \subseteq FileName
           /\ \A f \in Files : file[f] \in Titles
<1>1. Absent \notin Row
  <2>1. ASSUME Absent \in Row PROVE FALSE
    <3>1. PICK r \in Row : r = Absent
      BY <2>1
    <3>2. DOMAIN r = {"name", "enabled", "process", "ripped", "title", "custom"}
      BY DEF Row
    <3>3. DOMAIN Absent = {"absent"}
      BY DEF Absent
    <3>4. "name" \in DOMAIN r /\ "name" \notin {"absent"}
      BY <3>2
    <3>5. QED
      BY <3>1, <3>3, <3>4
  <2>2. QED
    BY <2>1
<1>2. QED
  BY <1>1 DEF TypeOK, Rows, Files

LEMMA NewRowTyped ==
    ASSUME TypeOK, NEW t \in Titles
    PROVE  /\ NewRow(t) \in Row
           /\ NewRow(t).name = <<disc.stem[t], t>> /\ ~NewRow(t).ripped
BY DEF TypeOK, NewRow, Row, Disc, FileName, Stems

LEMMA InitTyped == Init => TypeOK
BY TracksAssumption, NumberOfTitles DEF Init, TypeOK, Places

(* Of a file name, where a title goes.                                      *)
LEMMA SaveTyped ==
    ASSUME TypeOK, NEW t \in Titles, Save(t)
    PROVE  /\ file' \in [FileName -> Titles \cup {NoTitle}] /\ made' \subseteq Titles
<1>1. QED
  BY DEF TypeOK, Save

LEMMA EditTyped ==
    ASSUME TypeOK, NEW t \in Titles, NEW new \in Row, Edit(t, new)
    PROVE  TypeOK'
BY TracksAssumption DEF TypeOK, Edit, Editable

LEMMA UpdatesTyped ==
    ASSUME TypeOK, NEW t \in Titles,
           UpdateTrackFields(t) \/ UpdateTrackTitle(t) \/ ClearTrackTitle(t)
    PROVE  \E new \in Row : /\ Edit(t, new)
                            /\ new.name \in {row[t].name, Basename}
                            /\ new.ripped = row[t].ripped /\ new.process = row[t].process
<1>1. PICK new : /\ Edit(t, new)
                 /\ \/ \E b \in BOOLEAN : new = [row[t] EXCEPT !.enabled = b]
                    \/ \E c \in Customs : new = [row[t] EXCEPT !.custom = c]
                    \/ \E c \in Customs : new = [row[t] EXCEPT !.title = c]
                    \/ new = [row[t] EXCEPT !.title = Unnamed, !.name = Basename]
  BY DEF UpdateTrackFields, UpdateTrackTitle, ClearTrackTitle
<1>2. t \in Rows /\ row[t] \in Row
  BY <1>1, RowsTyped DEF Edit
<1>3. new \in Row /\ new.name \in {row[t].name, Basename}
        /\ new.ripped = row[t].ripped /\ new.process = row[t].process
  BY <1>1, <1>2 DEF Row
<1>4. QED
  BY <1>1, <1>3

LEMMA ReconcileTyped ==
    ASSUME TypeOK, Reconcile
    PROVE  TypeOK'
<1> USE DEF Reconcile
<1>1. row' \in [Titles -> Row \cup {Absent}]
  <2>1. CASE Files = {}
    BY <2>1 DEF TypeOK
  <2>2. CASE Files # {}
    <3>1. \A t \in DOMAIN Matching : t \in Rows /\ Matching[t] \in FileName
      BY MatchingFits, RowsTyped DEF Fits
    <3> DEFINE m == Matching
    <3>2. row' = [t \in Titles |-> IF t \in DOMAIN m THEN [row[t] EXCEPT !.name = m[t]] ELSE row[t]]
      BY <2>2
    <3> HIDE DEF m
    <3>3. ASSUME NEW t \in DOMAIN m PROVE [row[t] EXCEPT !.name = m[t]] \in Row
      <4>1. row[t] \in Row /\ m[t] \in FileName
        BY <3>1, <3>3, RowsTyped DEF m
      <4>2. QED
        BY <4>1 DEF Row
    <3>4. QED
      BY <3>2, <3>3 DEF TypeOK
  <2>3. QED
    BY <2>1, <2>2
<1>2. pc' \in Places
  BY DEF Places
<1>3. QED
  BY <1>1, <1>2 DEF TypeOK

-----------------------------------------------------------------------------
(* Moving. Names that occur twice are told apart by the track's number, and   *)
(* the cleaning leaves the number.                                          *)
LEMMA RenderedShort ==
    ASSUME TypeOK, NEW series, NEW clean \in Cleanings, NEW t \in Rows
    PROVE  Rendered(t, series, clean) \in Short
<1>1. t \in Titles /\ row[t].title \in Customs \cup {Unnamed} /\ row[t].custom \in Customs \cup {Unnamed}
  BY RowsTyped DEF Row
<1>2. TitleOf(t) \in Labels
  BY <1>1 DEF TitleOf, Labels
<1>3. QED
  BY <1>1, <1>2, CleaningAssumption DEF Rendered, Short

LEMMA DestinationsDiffer ==
    ASSUME TypeOK, NEW series, NEW clean \in Cleanings, NEW t \in Rows, NEW u \in Rows, t # u,
           Rendered(t, series, clean) = Rendered(u, series, clean)
    PROVE  Destination(t, series, clean) # Destination(u, series, clean)
<1> DEFINE name == Rendered(t, series, clean)
<1>1. name \in Short /\ t \in Titles /\ u \in Titles
  BY RenderedShort, RowsTyped
<1>2. clean[Numbered(name, t)] # clean[Numbered(name, u)]
  BY <1>1, CleaningAssumption
<1>3. /\ Destination(t, series, clean) = <<Folder(t, series, clean), clean[Numbered(name, t)]>>
      /\ Destination(u, series, clean) = <<Folder(u, series, clean), clean[Numbered(name, u)]>>
  BY DEF Destination
<1>4. QED
  BY <1>2, <1>3

(* Whatever was in the raw directory is there, has arrived, or clashed with  *)
(* a title of another name.                                                 *)
Arrives == \A f \in Files : file'[f] = file[f] \/ file[f] \in final' \/ file[f] \in clashed'

LEMMA TracksArrive ==
    ASSUME TypeOK, NEW series, NEW clean \in Cleanings, MoveTracks(series, clean)
    PROVE  /\ file' \in [FileName -> Titles \cup {NoTitle}]
           /\ final' \subseteq Titles /\ clashed' \subseteq Titles
           /\ Arrives
<1> DEFINE to == [t \in Moved |-> Destination(t, series, clean)]
           name(t) == Rendered(t, series, clean)
           over(t) == \E u \in Moved : u > t /\ to[u] = to[t]
           differ(t) == \E u \in Moved : to[u] = to[t] /\ name(u) # name(t)
<1>1. /\ final' = {file[row[t].name] : t \in {x \in Moved : ~over(x)}}
      /\ clashed' = {file[row[t].name] : t \in {x \in Moved : differ(x)}}
      /\ file' = [f \in FileName |-> IF f \in {row[t].name : t \in Moved} THEN NoTitle ELSE file[f]]
  BY DEF MoveTracks
<1>2. Moved \subseteq Rows /\ \A t \in Moved : row[t].name \in Files /\ t \in Nat
  BY RowsTyped, TitlesAreNumbers DEF Moved
<1>3. ASSUME NEW t \in Moved, over(t) PROVE differ(t)
  <2>1. PICK u \in Moved : u > t /\ to[u] = to[t]
    BY <1>3
  <2>2. u # t /\ Destination(u, series, clean) = Destination(t, series, clean)
    BY <1>2, <2>1
  <2>3. name(u) # name(t)
    BY <1>2, <2>2, DestinationsDiffer
  <2>4. QED
    BY <2>1, <2>3
<1> HIDE DEF to, name, over, differ
<1>4. \A t \in Moved : file[row[t].name] \in Titles
  BY <1>2, RowsTyped
<1>5. final' \subseteq Titles /\ clashed' \subseteq Titles
  BY <1>1, <1>4
<1>6. file' \in [FileName -> Titles \cup {NoTitle}]
  BY <1>1 DEF TypeOK
<1>7. ASSUME NEW f \in Files PROVE file'[f] = file[f] \/ file[f] \in final' \/ file[f] \in clashed'
  <2>1. CASE f \notin {row[t].name : t \in Moved}
    BY <1>1, <2>1, RowsTyped
  <2>2. CASE f \in {row[t].name : t \in Moved}
    <3>1. PICK t \in Moved : f = row[t].name
      BY <2>2
    <3>2. QED
      BY <1>1, <1>3, <3>1
  <2>3. QED
    BY <2>1, <2>2
<1>8. QED
  BY <1>5, <1>6, <1>7 DEF Arrives

LEMMA UntrackedArrive ==
    ASSUME TypeOK, MoveUntracked
    PROVE  /\ file' \in [FileName -> Titles \cup {NoTitle}]
           /\ final' \subseteq Titles /\ clashed' \subseteq Titles
           /\ Arrives
<1>1. \A f \in Files : file[f] \in Titles
  BY RowsTyped
<1>2. QED
  BY <1>1 DEF TypeOK, MoveUntracked, Arrives

LEMMA TypeStep ==
    ASSUME TypeOK, TriesLeft, InOwnFiles, [Next]_vars
    PROVE  TypeOK'
<1> USE DEF TypeOK, Places
<1>1. CASE PrepFails
  BY <1>1, TracksAssumption DEF PrepFails, TriesLeft
<1>2. CASE Scan
  BY <1>2, TracksAssumption DEF Scan, TriesLeft
<1>3. CASE AddTrack
  BY <1>3, NewRowTyped, TracksAssumption DEF AddTrack, Titles
<1>4. CASE ScanBreaks
  BY <1>4 DEF ScanBreaks
<1>5. CASE Retry
  BY <1>5 DEF Retry
<1>6. CASE ScanDone
  <2>1. \A t \in Rows : Filtered(t) \in Row
    BY RowsTyped DEF Filtered, Row
  <2>2. QED
    BY <1>6, <2>1 DEF ScanDone
<1>7. CASE StartRip
  <2>1. \A t \in Titles : [NewRow(t) EXCEPT !.process = IF disc.way = "all" THEN "yes" ELSE "undecided"] \in Row
    BY NewRowTyped DEF Row
  <2>2. \A t \in Rows : row[t] \in Row /\ [row[t] EXCEPT !.process = "yes"] \in Row
    BY RowsTyped DEF Row
  <2>3. row' \in [Titles -> Row \cup {Absent}]
    BY <1>7, <2>1, <2>2 DEF StartRip
  <2>4. 0 \in 0 .. LastTitle + 1
    BY TracksAssumption
  <2>5. QED
    BY <1>7, <2>3, <2>4 DEF StartRip
<1>8. CASE StartFails \/ TitleError \/ RunFails \/ TitlesDone
  BY <1>8 DEF StartFails, TitleError, RunFails, TitlesDone
<1>9. CASE SaveTitle
  <2>1. \A s : MarkByMessage(s) \in [Titles -> Row \cup {Absent}]
    <3>1. \A t \in Rows : [row[t] EXCEPT !.ripped = TRUE] \in Row
      BY RowsTyped DEF Row
    <3>2. QED
      BY <3>1 DEF MarkByMessage, WithStem
  <2>2. next + 1 \in 0 .. LastTitle + 1
    BY <1>9, TitlesAreNumbers, TracksAssumption DEF SaveTitle
  <2>3. file' \in [FileName -> Titles \cup {NoTitle}] /\ made' \subseteq Titles
    BY <1>9, SaveTyped DEF SaveTitle
  <2>4. row' \in [Titles -> Row \cup {Absent}]
    BY <1>9, <2>1 DEF SaveTitle
  <2>5. QED
    BY <1>9, <2>2, <2>3, <2>4 DEF SaveTitle
<1>10. CASE RipDone
  <2>1. \A t \in Rows : Swept(t) \in Row
    BY RowsTyped DEF Swept, Row
  <2>2. QED
    BY <1>10, <2>1 DEF RipDone
<1>11. CASE SaveUnseen
  <2>1. next + 1 \in 0 .. LastTitle + 1
    BY <1>11, TitlesAreNumbers, TracksAssumption DEF SaveUnseen
  <2>2. file' \in [FileName -> Titles \cup {NoTitle}] /\ made' \subseteq Titles
    BY <1>11, SaveTyped DEF SaveUnseen
  <2>3. QED
    BY <1>11, <2>1, <2>2 DEF SaveUnseen
<1>12. CASE RipTitle
  <2>1. next \in Rows => /\ [row[next] EXCEPT !.process = "no"] \in Row
                         /\ [row[next] EXCEPT !.process = "yes", !.ripped = TRUE] \in Row
    BY RowsTyped DEF Row
  <2>2. next + 1 \in 0 .. LastTitle + 1
    BY <1>12, TitlesAreNumbers, TracksAssumption DEF RipTitle
  <2>3. row' \in [Titles -> Row \cup {Absent}]
    BY <1>12, <2>1 DEF RipTitle
  <2>4. file' \in [FileName -> Titles \cup {NoTitle}] /\ made' \subseteq Titles
    BY <1>12 DEF RipTitle
  <2>5. QED
    BY <1>12, <2>2, <2>3, <2>4 DEF RipTitle
<1>13. CASE Reconcile
  BY <1>13, ReconcileTyped
<1>14. CASE RemoveDeselected
  BY <1>14 DEF RemoveDeselected
<1>15. CASE MarkRipped
  <2>1. \A t \in Rows : [row[t] EXCEPT !.ripped = row[t].name \in Files] \in Row
    <3>1. \A t \in Rows, b \in BOOLEAN : [row[t] EXCEPT !.ripped = b] \in Row
      BY RowsTyped DEF Row
    <3>2. \A f : (f \in Files) \in BOOLEAN
      OBVIOUS
    <3>3. QED
      BY <3>1, <3>2, Zenon
  <2>2. QED
    BY <1>15, <2>1 DEF MarkRipped
<1>16. CASE FinalizeOutput
  <2>1. (\E series \in SUBSET Rows, clean \in Cleanings : MoveTracks(series, clean)) \/ MoveUntracked
    BY <1>16 DEF FinalizeOutput
  <2>2. /\ file' \in [FileName -> Titles \cup {NoTitle}]
        /\ final' \subseteq Titles /\ clashed' \subseteq Titles
    BY <1>16, <2>1, TracksArrive, UntrackedArrive DEF FinalizeOutput
  <2>3. QED
    BY <1>16, <2>2 DEF FinalizeOutput
<1>17. CASE ChangeJobConfig
  <2>1. \A t \in Rows : \A b \in BOOLEAN : [row[t] EXCEPT !.enabled = b] \in Row
    BY RowsTyped DEF Row
  <2>2. \A mf \in BOOLEAN : AutoFlag(mf) \in [Titles -> Row \cup {Absent}]
    BY <2>1 DEF AutoFlag
  <2>3. edits + 1 \in 0 .. MaxEdits
    BY <1>17, TracksAssumption DEF ChangeJobConfig, Editable
  <2>4. QED
    BY <1>17, <2>2, <2>3 DEF ChangeJobConfig
<1>18. CASE \E t \in Titles : UpdateTrackFields(t) \/ UpdateTrackTitle(t) \/ ClearTrackTitle(t)
  BY <1>18, UpdatesTyped, EditTyped
<1>19. CASE UNCHANGED vars
  BY <1>19 DEF vars
<1>20. QED
  BY <1>1, <1>2, <1>3, <1>4, <1>5, <1>6, <1>7, <1>8, <1>9, <1>10, <1>11, <1>12, <1>13, <1>14,
     <1>15, <1>16, <1>17, <1>18, <1>19 DEF Next

-----------------------------------------------------------------------------
(* Where the titles are.                                                    *)
LEMMA FilesKeep ==
    ASSUME InOwnFiles, UNCHANGED <<disc, file, final, clashed, made>>,
           pc' # "done" => pc # "done", Untouched' => Untouched
    PROVE  InOwnFiles'
BY DEF InOwnFiles, OwnFile, Place, Untouched, Import, Files

LEMMA FilesAfter ==
    ASSUME UNCHANGED disc, pc' # "done",
           Untouched' => \A t \in made' : /\ Place(t, made') \in FileName
                                          /\ file'[Place(t, made')] = t,
           \A f \in FileName : file'[f] # NoTitle => /\ file'[f] \in made'
                                                    /\ f = Place(file'[f], made'),
           final' = {} /\ clashed' = {}
    PROVE  InOwnFiles'
BY DEF InOwnFiles, OwnFile, Place, Files

(* Which steps leave the files as they are. *)
FilesAlone == UNCHANGED <<disc, file, final, clashed, made>>

LEMMA AloneKeeps ==
    ASSUME TypeOK, SavedSoFar, InOwnFiles,
           \/ PrepFails \/ Scan \/ AddTrack \/ ScanBreaks \/ Retry \/ ScanDone
           \/ StartRip \/ StartFails \/ RipDone \/ TitleError \/ RunFails \/ TitlesDone
           \/ Reconcile \/ MarkRipped \/ ChangeJobConfig
           \/ \E t \in Titles : UpdateTrackFields(t) \/ UpdateTrackTitle(t) \/ ClearTrackTitle(t)
           \/ UNCHANGED vars
    PROVE  InOwnFiles' /\ FilesAlone
<1>1. CASE PrepFails \/ Scan \/ AddTrack \/ ScanBreaks \/ Retry \/ ScanDone \/ StartRip
  <2>1. FilesAlone /\ pc' # "done" /\ pc # "done" /\ Untouched
    BY <1>1 DEF FilesAlone, Untouched, PrepFails, Scan, AddTrack, ScanBreaks, Retry, ScanDone, StartRip
  <2>2. QED
    BY <2>1, FilesKeep DEF FilesAlone
<1>2. CASE StartFails \/ RipDone \/ TitleError \/ RunFails \/ TitlesDone \/ Reconcile
  <2>1. FilesAlone /\ pc' # "done" /\ pc # "done" /\ Untouched
    BY <1>2 DEF FilesAlone, Untouched, StartFails, RipDone, TitleError, RunFails, TitlesDone, Reconcile
  <2>2. QED
    BY <2>1, FilesKeep DEF FilesAlone
<1>3. CASE MarkRipped
  <2>1. FilesAlone /\ pc = "mark" /\ pc' = "finalize" /\ Import'
    BY <1>3 DEF FilesAlone, MarkRipped, SavedSoFar, Import
  <2>2. QED
    BY <2>1, FilesKeep DEF FilesAlone, Untouched
<1>4. CASE \/ ChangeJobConfig
           \/ \E t \in Titles : UpdateTrackFields(t) \/ UpdateTrackTitle(t) \/ ClearTrackTitle(t)
           \/ UNCHANGED vars
  <2>1. FilesAlone /\ pc' = pc
    BY <1>4, UpdatesTyped DEF FilesAlone, ChangeJobConfig, Edit, vars
  <2>2. QED
    BY <2>1, FilesKeep DEF FilesAlone, Untouched, Import
<1>5. QED
  BY <1>1, <1>2, <1>3, <1>4

LEMMA FilesNow ==
    ASSUME TypeOK, InOwnFiles, pc # "done"
    PROVE  /\ Untouched => \A t \in made : /\ Place(t, made) \in FileName
                                          /\ file[Place(t, made)] = t
           /\ \A f \in FileName : file[f] # NoTitle => /\ file[f] \in made
                                                      /\ f = Place(file[f], made)
           /\ final = {} /\ clashed = {}
           /\ \A t \in made : t \in Titles /\ t # NoTitle
BY TracksAssumption DEF TypeOK, InOwnFiles, OwnFile, Files, Titles

(* A title that is put where none is, and the places of the others stay.     *)
LEMMA PutFinds ==
    ASSUME TypeOK, InOwnFiles, pc # "done", pc' # "done", Untouched, UNCHANGED <<disc, final, clashed>>,
           NEW t \in Titles, NEW own, own = Place(t, made'), own \in FileName,
           made' = made \cup {t}, file' = [file EXCEPT ![own] = t],
           \A u \in made : Place(u, made') = Place(u, made) /\ (u # t => Place(u, made) # own)
    PROVE  InOwnFiles'
<1>1. \A f \in FileName : file'[f] = IF f = own THEN t ELSE file[f]
  BY DEF TypeOK
<1>3. \A u \in made' : Place(u, made') \in FileName /\ file'[Place(u, made')] = u
  BY <1>1, FilesNow
<1>4. \A f \in FileName : file'[f] # NoTitle => file'[f] \in made' /\ f = Place(file'[f], made')
  BY <1>1, FilesNow
<1>5. QED
  BY <1>3, <1>4, FilesAfter, FilesNow

LEMMA SaveFinds ==
    ASSUME TypeOK, InOwnFiles, disc.way # "single", made = LongTo(next),
           next \in Titles, Save(next), UNCHANGED <<disc, final, clashed>>,
           pc # "done", pc' = pc, Untouched
    PROVE  InOwnFiles'
<1> DEFINE own == <<disc.stem[next], Cardinality(made)>>
<1>1. made \subseteq Titles /\ \A t \in made : t < next
  BY DEF LongTo
<1>2. made' = made \cup {next} /\ file' = [file EXCEPT ![own] = next]
  BY DEF Save
<1>3. /\ \A t \in made : Rank(t, made') = Rank(t, made) /\ Rank(t, made) \in Nat
      /\ \A t \in made : Rank(t, made) < Cardinality(made)
      /\ Rank(next, made') = Cardinality(made)
  BY <1>1, <1>2, RankOfNext, RankBelow
<1>4. Cardinality(made) \in Titles
  <2>1. made \subseteq Titles \ {next}
    BY <1>1, TitlesAreNumbers
  <2>2. Cardinality(made) < Cardinality(Titles)
    <3>1. IsFiniteSet(Titles) /\ Cardinality(made) \in Nat /\ Cardinality(Titles) \in Nat
      BY <1>1, FiniteTitles
    <3>2. Cardinality(made) <= Cardinality(Titles) /\ (Cardinality(Titles) = Cardinality(made) => Titles = made)
      BY <1>1, <3>1, FS_Subset
    <3>3. QED
      BY <2>1, <3>1, <3>2
  <2>3. QED
    BY <1>1, <2>2, FiniteTitles, NumberOfTitles, TracksAssumption DEF Titles
<1>5. own \in FileName
  BY <1>4 DEF TypeOK, Disc, FileName
<1>6. own = Place(next, made')
  BY <1>3 DEF Place
<1>7. \A t \in made : Place(t, made') = Place(t, made) /\ Place(t, made) # own
  <2>1. ASSUME NEW t \in made PROVE Place(t, made') = Place(t, made) /\ Place(t, made) # own
    <3>1. Rank(t, made') = Rank(t, made) /\ Rank(t, made) # Cardinality(made)
      BY <1>3, <1>1, FiniteTitles
    <3>2. QED
      BY <3>1 DEF Place
  <2>2. QED
    BY <2>1
<1> HIDE DEF own
<1>8. pc' # "done" /\ UNCHANGED disc /\ UNCHANGED final /\ UNCHANGED clashed
  OBVIOUS
<1>9. QED
  BY ONLY TypeOK, InOwnFiles, pc # "done", Untouched, next \in Titles, <1>2, <1>5, <1>6, <1>7, <1>8, PutFinds

LEMMA SingleFinds ==
    ASSUME TypeOK, SavedSoFar, InOwnFiles, RipTitle
    PROVE  InOwnFiles'
<1> DEFINE own == <<disc.stem[next], next>>
<1>1. disc.way = "single" /\ pc = "titles" /\ pc' = "titles" /\ next \in Titles
        /\ UNCHANGED <<disc, final, clashed>>
  BY DEF RipTitle, SavedSoFar
<1>2. CASE UNCHANGED <<file, made>>
  BY <1>1, <1>2, FilesKeep DEF Untouched, Import
<1>3. CASE file' = [file EXCEPT ![own] = next] /\ made' = made \cup {next}
  <2>1. \A t, S : Place(t, S) = <<disc.stem[t], t>>
    BY <1>1 DEF Place
  <2>2. own \in FileName /\ own = Place(next, made')
    BY <1>1, <2>1 DEF TypeOK, Disc, FileName
  <2>3. \A t \in made : t # next => Place(t, made) # own
    BY <2>1
  <2>4. Untouched
    BY <1>1 DEF Untouched
  <2> HIDE DEF own
  <2>5. QED
    BY <1>1, <1>3, <2>1, <2>2, <2>3, <2>4, PutFinds
<1>4. QED
  BY <1>2, <1>3 DEF RipTitle

LEMMA OwnFilesStep ==
    ASSUME TypeOK, SavedSoFar, InOwnFiles, [Next]_vars
    PROVE  InOwnFiles'
<1>1. CASE SaveTitle \/ SaveUnseen
  <2>1. /\ pc # "done" /\ pc' = pc /\ Untouched /\ next \in Titles /\ UNCHANGED <<disc, final, clashed>>
        /\ disc.way # "single" /\ made = LongTo(next)
        /\ UNCHANGED <<file, made>> \/ Save(next)
    BY <1>1 DEF SaveTitle, SaveUnseen, SavedSoFar, Untouched
  <2>2. CASE UNCHANGED <<file, made>>
    BY <2>1, <2>2, FilesKeep DEF Untouched
  <2>3. CASE Save(next)
    BY <2>1, <2>3, SaveFinds
  <2>4. QED
    BY <2>1, <2>2, <2>3
<1>2. CASE RipTitle
  BY <1>2, SingleFinds
<1>3. CASE RemoveDeselected
  <2>1. /\ pc = "remove" /\ pc' = "mark" /\ UNCHANGED <<disc, final, clashed, made>> /\ Import'
        /\ file' = [f \in FileName |-> IF f \in Removed THEN NoTitle ELSE file[f]]
    BY <1>3 DEF RemoveDeselected, SavedSoFar, Import
  <2>2. \A f \in FileName : file'[f] # NoTitle => file[f] # NoTitle /\ file'[f] = file[f]
    BY <2>1
  <2>3. QED
    BY <2>1, <2>2, FilesNow, FilesAfter DEF Untouched
<1>4. CASE FinalizeOutput
  BY <1>4 DEF FinalizeOutput, InOwnFiles, Untouched
<1>5. QED
  BY <1>1, <1>2, <1>3, <1>4, AloneKeeps DEF Next

-----------------------------------------------------------------------------
(* What has been saved.                                                     *)
LEMMA Longer ==
    ASSUME TypeOK, next \in Titles, made = LongTo(next), UNCHANGED disc, next' = next + 1,
           IF Length(next) < disc.skip THEN UNCHANGED made ELSE Save(next)
    PROVE  made' = LongTo(next)'
<1>1. LongTo(next)' = {t \in Titles : t < next + 1 /\ ~(Length(t) < disc.skip)}
  BY DEF LongTo, Length, Titles
<1>2. \A t \in Titles : t < next + 1 <=> t < next \/ t = next
  BY TitlesAreNumbers
<1>3. made = {t \in Titles : t < next /\ ~(Length(t) < disc.skip)}
  BY DEF LongTo
<1>4. CASE Length(next) < disc.skip
  BY <1>1, <1>2, <1>3, <1>4
<1>5. CASE ~(Length(next) < disc.skip)
  <2>1. made' = made \cup {next}
    BY <1>5 DEF Save
  <2>2. QED
    BY <2>1, <1>1, <1>2, <1>3, <1>5
<1>6. QED
  BY <1>4, <1>5

LEMMA LongAlone ==
    ASSUME UNCHANGED <<disc, next>>
    PROVE  LongTo(next)' = LongTo(next) /\ LongTo(LastTitle + 1)' = LongTo(LastTitle + 1)
BY DEF LongTo, Length, Titles

LEMMA NoneLong ==
    ASSUME TypeOK, UNCHANGED disc, next' = 0
    PROVE  LongTo(next)' = {}
<1>1. \A t \in Titles : ~(t < 0)
  BY TitlesAreNumbers
<1>2. QED
  BY <1>1 DEF LongTo, Titles

LEMMA SavedStep ==
    ASSUME TypeOK, SavedSoFar, [Next]_vars
    PROVE  SavedSoFar'
<1> USE DEF SavedSoFar, Early, Import
<1>1. CASE PrepFails \/ Scan \/ AddTrack \/ ScanBreaks \/ Retry \/ ScanDone
  BY <1>1 DEF PrepFails, Scan, AddTrack, ScanBreaks, Retry, ScanDone
<1>2. CASE StartRip
  BY <1>2, NoneLong DEF StartRip
<1>3. CASE StartFails \/ RunFails
  BY <1>3 DEF StartFails, RunFails
<1>4. CASE SaveTitle \/ SaveUnseen
  <2>1. /\ pc' = pc /\ pc \in {"rip", "closing"} /\ disc' = disc /\ next \in Titles
        /\ made = LongTo(next) /\ next' = next + 1 /\ disc.way # "single"
        /\ IF Length(next) < disc.skip THEN UNCHANGED made ELSE Save(next)
    BY <1>4 DEF SaveTitle, SaveUnseen
  <2>2. made' = LongTo(next)'
    BY <2>1, Longer
  <2>3. QED
    BY <2>1, <2>2
<1>5. CASE RipDone
  <2>1. next = LastTitle + 1
    BY <1>5, TracksAssumption DEF RipDone, TypeOK, Titles
  <2>2. pc = "rip" /\ pc' = "reconcile" /\ UNCHANGED <<disc, next, made>>
    BY <1>5 DEF RipDone
  <2>3. QED
    BY <2>1, <2>2, LongAlone
<1>6. CASE TitleError
  BY <1>6, LongAlone DEF TitleError
<1>7. CASE RipTitle
  BY <1>7 DEF RipTitle
<1>8. CASE TitlesDone
  BY <1>8 DEF TitlesDone
<1>9. CASE Reconcile \/ RemoveDeselected \/ MarkRipped \/ FinalizeOutput
  BY <1>9 DEF Reconcile, RemoveDeselected, MarkRipped, FinalizeOutput
<1>10. CASE \/ ChangeJobConfig
            \/ \E t \in Titles : UpdateTrackFields(t) \/ UpdateTrackTitle(t) \/ ClearTrackTitle(t)
            \/ UNCHANGED vars
  <2>1. UNCHANGED <<disc, pc, next, made>>
    BY <1>10, UpdatesTyped DEF ChangeJobConfig, Edit, vars
  <2>2. QED
    BY <2>1, LongAlone
<1>11. QED
  BY <1>1, <1>2, <1>3, <1>4, <1>5, <1>6, <1>7, <1>8, <1>9, <1>10 DEF Next

LEMMA TriesStep ==
    ASSUME TypeOK, TriesLeft, [Next]_vars
    PROVE  TriesLeft'
<1> USE DEF TriesLeft
<1>1. CASE PrepFails \/ Scan \/ AddTrack \/ ScanBreaks \/ Retry \/ ScanDone \/ StartRip
  BY <1>1 DEF PrepFails, Scan, AddTrack, ScanBreaks, Retry, ScanDone, StartRip
<1>2. CASE StartFails \/ SaveTitle \/ RipDone \/ TitleError \/ SaveUnseen \/ RunFails
             \/ RipTitle \/ TitlesDone
  BY <1>2 DEF StartFails, SaveTitle, RipDone, TitleError, SaveUnseen, RunFails, RipTitle, TitlesDone
<1>3. CASE Reconcile \/ RemoveDeselected \/ MarkRipped \/ FinalizeOutput
  BY <1>3 DEF Reconcile, RemoveDeselected, MarkRipped, FinalizeOutput
<1>4. CASE \/ ChangeJobConfig
           \/ \E t \in Titles : UpdateTrackFields(t) \/ UpdateTrackTitle(t) \/ ClearTrackTitle(t)
           \/ UNCHANGED vars
  <2>1. UNCHANGED <<pc, scans>>
    BY <1>4, UpdatesTyped DEF ChangeJobConfig, Edit, vars
  <2>2. QED
    BY <2>1
<1>5. QED
  BY <1>1, <1>2, <1>3, <1>4 DEF Next

-----------------------------------------------------------------------------
(* The rows. What the user does changes no mark and at most clears a name.   *)
UserStep ==
    \/ ChangeJobConfig
    \/ \E t \in Titles : UpdateTrackFields(t) \/ UpdateTrackTitle(t) \/ ClearTrackTitle(t)
    \/ UNCHANGED vars

LEMMA UserRows ==
    ASSUME TypeOK, UserStep
    PROVE  /\ UNCHANGED <<disc, pc, scans, next, file, final, clashed, made>>
           /\ Rows' = Rows
           /\ \A t \in Rows : /\ row'[t].name \in {row[t].name, Basename}
                              /\ row'[t].ripped = row[t].ripped
                              /\ row'[t].process = row[t].process
<1>1. CASE ChangeJobConfig
  <2>1. \A t \in Rows, b \in BOOLEAN :
          LET r == [row[t] EXCEPT !.enabled = b] IN
          /\ r \in Row /\ r.name = row[t].name /\ r.ripped = row[t].ripped /\ r.process = row[t].process
    BY RowsTyped DEF Row
  <2>2. PICK mf \in BOOLEAN : row' = AutoFlag(mf)
    BY <1>1 DEF ChangeJobConfig
  <2>3. \A t \in Titles : row'[t] = IF t \notin Rows THEN Absent
                                     ELSE [row[t] EXCEPT !.enabled = mf => t = BestTrack]
    BY <2>2 DEF AutoFlag
  <2>4. Rows' = Rows
    <3>1. \A t \in Rows : row'[t] # Absent
      <4>1. \A t \in Rows : \E b \in BOOLEAN : row'[t] = [row[t] EXCEPT !.enabled = b]
        BY <2>3, RowsTyped
      <4>2. QED
        BY <4>1, <2>1, RowsTyped
    <3>2. \A t \in Titles \ Rows : row'[t] = Absent
      BY <2>3
    <3>3. Rows' = {t \in Titles : row'[t] # Absent} /\ Rows \subseteq Titles
      BY DEF Rows, Titles
    <3>4. QED
      BY <3>1, <3>2, <3>3
  <2>5. \A t \in Rows : /\ row'[t].name = row[t].name /\ row'[t].ripped = row[t].ripped
                         /\ row'[t].process = row[t].process
    BY <2>1, <2>3, RowsTyped
  <2>6. QED
    BY <1>1, <2>4, <2>5 DEF ChangeJobConfig
<1>2. CASE \E t \in Titles : UpdateTrackFields(t) \/ UpdateTrackTitle(t) \/ ClearTrackTitle(t)
  <2>1. PICK t \in Titles, new \in Row :
                    /\ Edit(t, new)
                    /\ new.name \in {row[t].name, Basename}
                    /\ new.ripped = row[t].ripped /\ new.process = row[t].process
    BY <1>2, UpdatesTyped
  <2>2. t \in Rows /\ row' = [row EXCEPT ![t] = new]
    BY <2>1 DEF Edit
  <2>3. Rows' = Rows
    BY <2>2, RowsTyped DEF Rows, TypeOK
  <2>4. QED
    BY <2>1, <2>2, <2>3, RowsTyped DEF Edit, TypeOK
<1>3. CASE UNCHANGED vars
  BY <1>3 DEF vars, Rows
<1>4. QED
  BY <1>1, <1>2, <1>3 DEF UserStep

(* Up to the matching a row has its scanned name, or none of a file.        *)
LEMMA NamesOfRows ==
    ASSUME TypeOK, [Next]_vars, ~Reconcile, ~RemoveDeselected, ~MarkRipped, ~FinalizeOutput
    PROVE  /\ disc' = disc
           /\ \A t \in Rows' : \/ t \in Rows /\ row'[t].name \in {row[t].name, Basename}
                               \/ row'[t].name = <<disc.stem[t], t>>
<1> DEFINE Goal == /\ disc' = disc
                   /\ \A t \in Titles : row'[t] # Absent =>
                          \/ row[t] # Absent /\ row'[t].name \in {row[t].name, Basename}
                          \/ row'[t].name = <<disc.stem[t], t>>
<1>0. SUFFICES Goal
  BY DEF Rows
<1>1. CASE \/ PrepFails \/ ScanBreaks \/ Retry \/ StartFails \/ TitleError \/ SaveUnseen
           \/ RunFails \/ TitlesDone
  BY <1>1 DEF PrepFails, ScanBreaks, Retry, StartFails, TitleError, SaveUnseen, RunFails, TitlesDone
<1>2. CASE Scan
  BY <1>2 DEF Scan
<1>3. CASE AddTrack
  BY <1>3, NewRowTyped DEF AddTrack, TypeOK
<1>4. CASE ScanDone
  <2>1. \A t \in Rows : Filtered(t).name = row[t].name
    BY RowsTyped DEF Filtered, Row
  <2>2. QED
    BY <1>4, <2>1 DEF ScanDone, Rows
<1>5. CASE StartRip
  <2>1. \A t \in Titles : [NewRow(t) EXCEPT !.process = IF disc.way = "all" THEN "yes" ELSE "undecided"].name
                            = <<disc.stem[t], t>>
    BY DEF NewRow
  <2>2. \A t \in Rows : [row[t] EXCEPT !.process = "yes"].name = row[t].name
    BY RowsTyped DEF Row
  <2>3. disc' = disc
    BY <1>5 DEF StartRip
  <2>4. \A t \in Titles : row'[t] = IF Rows = {} THEN [NewRow(t) EXCEPT !.process =
                                       IF disc.way = "all" THEN "yes" ELSE "undecided"]
                                   ELSE IF t \notin Rows THEN Absent
                                   ELSE IF disc.way = "all" THEN [row[t] EXCEPT !.process = "yes"]
                                   ELSE row[t]
    BY <1>5 DEF StartRip
  <2>5. \A t \in Titles : t \in Rows <=> row[t] # Absent
    BY DEF Rows
  <2>6. QED
    BY <2>1, <2>2, <2>3, <2>4, <2>5
<1>6. CASE SaveTitle
  <2>1. \A t \in Rows : [row[t] EXCEPT !.ripped = TRUE].name = row[t].name
    BY RowsTyped DEF Row
  <2>2. \A s : \A t \in Titles :
               MarkByMessage(s)[t] = row[t]
               \/ (t \in Rows /\ MarkByMessage(s)[t].name = row[t].name)
    BY <2>1 DEF MarkByMessage, WithStem
  <2>3. disc' = disc /\ (row' = row \/ row' = MarkByMessage(disc.stem[next]))
    BY <1>6 DEF SaveTitle
  <2>4. QED
    BY <2>2, <2>3 DEF Rows
<1>7. CASE RipDone
  <2>1. \A t \in Rows : Swept(t).name = row[t].name
    BY RowsTyped DEF Swept, Row
  <2>2. QED
    BY <1>7, <2>1 DEF RipDone, Rows
<1>8. CASE RipTitle
  <2>1. \A t \in Rows : /\ [row[t] EXCEPT !.process = "no"].name = row[t].name
                         /\ [row[t] EXCEPT !.process = "yes", !.ripped = TRUE].name = row[t].name
    BY RowsTyped DEF Row
  <2>2. disc' = disc /\ \/ row' = row
                        \/ /\ next \in Rows
                           /\ \/ row' = [row EXCEPT ![next].process = "no"]
                              \/ row' = [row EXCEPT ![next].process = "yes", ![next].ripped = TRUE]
    BY <1>8 DEF RipTitle
  <2>3. QED
    BY <2>1, <2>2 DEF TypeOK, Rows
<1>9. CASE UserStep
  BY <1>9, UserRows DEF Rows
<1>10. QED
  BY <1>1, <1>2, <1>3, <1>4, <1>5, <1>6, <1>7, <1>8, <1>9 DEF Next, UserStep

LEMMA NamesStep ==
    ASSUME TypeOK, ScannedNames, [Next]_vars
    PROVE  ScannedNames'
<1> DEFINE Unmatched == Early \cup {"rip", "titles", "closing", "reconcile"}
<1>1. CASE Reconcile \/ RemoveDeselected \/ MarkRipped \/ FinalizeOutput
  BY <1>1 DEF Reconcile, RemoveDeselected, MarkRipped, FinalizeOutput, ScannedNames, Early
<1>2. CASE ~Reconcile /\ ~RemoveDeselected /\ ~MarkRipped /\ ~FinalizeOutput
  <2>1. pc' \in Unmatched => pc \in Unmatched
    <3>1. CASE UserStep
      BY <3>1, UserRows
    <3>2. CASE PrepFails \/ Scan \/ AddTrack \/ ScanBreaks \/ Retry \/ ScanDone \/ StartRip
      BY <3>2 DEF PrepFails, Scan, AddTrack, ScanBreaks, Retry, ScanDone, StartRip, Early
    <3>3. CASE StartFails \/ SaveTitle \/ RipDone \/ TitleError \/ SaveUnseen \/ RunFails
                 \/ RipTitle \/ TitlesDone
      BY <3>3 DEF StartFails, SaveTitle, RipDone, TitleError, SaveUnseen, RunFails, RipTitle, TitlesDone, Early
    <3>4. QED
      BY <1>2, <3>1, <3>2, <3>3 DEF Next, UserStep
  <2>2. /\ disc' = disc
        /\ \A t \in Rows' : \/ t \in Rows /\ row'[t].name \in {row[t].name, Basename}
                            \/ row'[t].name = <<disc.stem[t], t>>
    BY <1>2, NamesOfRows
  <2>3. SUFFICES ASSUME pc' \in Unmatched, NEW t \in Rows'
                 PROVE  row'[t].name \in {<<disc'.stem[t], t>>, Basename}
    BY DEF ScannedNames, Early, Basename
  <2>4. \A u \in Rows : row[u].name \in {<<disc.stem[u], u>>, Basename}
    BY <2>1, <2>3 DEF ScannedNames
  <2>5. QED
    BY <2>2, <2>4
<1>3. QED
  BY <1>1, <1>2

-----------------------------------------------------------------------------
(* The marks.                                                               *)
LEMMA SweepMarks ==
    ASSUME TypeOK, InOwnFiles, ScannedNames, pc = "rip", NEW t \in made \cap Rows
    PROVE  Swept(t).ripped \/ Swept(t).name = Basename
<1>1. file[OwnFile(t)] = t /\ OwnFile(t) \in FileName /\ t \in Titles /\ t # NoTitle
  BY FilesNow DEF Untouched, OwnFile
<1>2. OwnFile(t) \in Files /\ OwnFile(t)[1] = disc.stem[t]
  BY <1>1 DEF Files, OwnFile, Place
<1>3. row[t] \in Row
  BY RowsTyped
<1>4. Swept(t).name = row[t].name
  BY <1>3 DEF Swept, Row
<1>5. Swept(t).ripped = (\/ row[t].ripped
                         \/ row[t].name \in Files
                         \/ row[t].name # Basename /\ \E f \in Files : f[1] = row[t].name[1])
  BY <1>3 DEF Swept, Row
<1>6. CASE row[t].name = Basename
  BY <1>4, <1>6
<1>7. CASE row[t].name # Basename
  <2>1. row[t].name = <<disc.stem[t], t>>
    BY <1>7 DEF ScannedNames
  <2>2. row[t].name[1] = disc.stem[t]
    BY <2>1
  <2>3. \E f \in Files : f[1] = row[t].name[1]
    BY <1>2, <2>2
  <2>4. QED
    BY <1>5, <1>7, <2>3
<1>8. QED
  BY <1>6, <1>7

LEMMA MarkedStep ==
    ASSUME TypeOK, SavedSoFar, InOwnFiles, ScannedNames, MarkedRipped, [Next]_vars
    PROVE  MarkedRipped'
<1>1. CASE PrepFails \/ ScanBreaks \/ Retry
  BY <1>1 DEF PrepFails, ScanBreaks, Retry, MarkedRipped, Early, Rows
<1>2. CASE Scan
  BY <1>2 DEF Scan, MarkedRipped, Early, Rows
<1>3. CASE AddTrack
  <2>1. pc = "adding" /\ pc' = pc /\ next \in Titles /\ row' = [row EXCEPT ![next] = NewRow(next)]
    BY <1>3 DEF AddTrack
  <2>2. \A t \in Titles : row[t] # Absent => ~row[t].ripped
    BY <2>1 DEF MarkedRipped, Early, Rows
  <2>3. \A t \in Titles : row'[t] # Absent => ~row'[t].ripped
    BY <2>1, <2>2, NewRowTyped DEF TypeOK
  <2>4. QED
    BY <2>1, <2>3 DEF MarkedRipped, Early, Rows
<1>4. CASE ScanDone
  <2>1. \A t \in Rows : Filtered(t).ripped = row[t].ripped
    BY RowsTyped DEF Filtered, Row
  <2>2. pc = "adding" /\ pc' = "review"
          /\ row' = [t \in Titles |-> IF t \in Rows THEN Filtered(t) ELSE Absent]
    BY <1>4 DEF ScanDone
  <2>3. \A t \in Titles : row'[t] # Absent => ~row'[t].ripped
    BY <2>1, <2>2 DEF MarkedRipped, Early
  <2>4. QED
    BY <2>2, <2>3 DEF MarkedRipped, Early, Rows
<1>5. CASE StartRip
  <2>1. \A t \in Titles : ~[NewRow(t) EXCEPT !.process = IF disc.way = "all" THEN "yes" ELSE "undecided"].ripped
    BY DEF NewRow
  <2>2. \A t \in Rows : [row[t] EXCEPT !.process = "yes"].ripped = row[t].ripped
    BY RowsTyped DEF Row
  <2>3. \A t \in Rows : ~row[t].ripped
    BY <1>5 DEF StartRip, MarkedRipped, Early
  <2>4. made' = {} /\ pc' \in {"titles", "rip"}
    BY <1>5 DEF StartRip, SavedSoFar, Early
  <2>5. \A t \in Titles : row'[t] = IF Rows = {} THEN [NewRow(t) EXCEPT !.process =
                                       IF disc.way = "all" THEN "yes" ELSE "undecided"]
                                   ELSE IF t \notin Rows THEN Absent
                                   ELSE IF disc.way = "all" THEN [row[t] EXCEPT !.process = "yes"]
                                   ELSE row[t]
    BY <1>5 DEF StartRip
  <2>6. \A t \in Titles : row'[t] # Absent => ~row'[t].ripped
    BY <2>1, <2>2, <2>3, <2>5
  <2>7. QED
    BY <2>4, <2>6 DEF MarkedRipped, Early, Rows
<1>6. CASE StartFails \/ SaveTitle \/ TitleError \/ SaveUnseen \/ RunFails
  BY <1>6 DEF StartFails, SaveTitle, TitleError, SaveUnseen, RunFails, MarkedRipped, Early
<1>7. CASE RipDone
  <2>1. pc = "rip" /\ pc' = "reconcile" /\ made # {} /\ UNCHANGED <<disc, made>> /\ disc.way # "single"
    BY <1>7 DEF RipDone, SavedSoFar
  <2>2. ASSUME disc.way = "all", NEW t \in made \cap Rows'
        PROVE  row'[t].ripped \/ row'[t].name = Basename
    <3>1. row' = [u \in Titles |-> IF u \in Rows THEN Swept(u) ELSE Absent]
      BY <1>7, <2>2 DEF RipDone, Import
    <3>2. t \in Titles /\ row'[t] # Absent
      BY <2>2 DEF Rows
    <3>3. t \in Rows /\ row'[t] = Swept(t)
      BY <3>1, <3>2
    <3>4. QED
      BY <2>1, <3>3, SweepMarks
  <2>3. QED
    BY <2>1, <2>2 DEF MarkedRipped, Early, Basename
<1>8. CASE RipTitle
  <2>1. pc = "titles" /\ pc' = "titles" /\ next \in Titles /\ disc.way = "single" /\ disc' = disc
    BY <1>8 DEF RipTitle, SavedSoFar
  <2>2. made \subseteq Rows /\ \A t \in Rows : row[t].ripped <=> t \in made
    BY <2>1 DEF MarkedRipped
  <2>3. CASE UNCHANGED <<row, made>>
    BY <2>1, <2>3 DEF MarkedRipped, Early, Rows
  <2>4. CASE next \in Rows /\ row' = [row EXCEPT ![next].process = "no"] /\ UNCHANGED made
    <3>1. [row[next] EXCEPT !.process = "no"] # Absent
            /\ [row[next] EXCEPT !.process = "no"].ripped = row[next].ripped
      <4>1. [row[next] EXCEPT !.process = "no"] \in Row
        BY <2>4, RowsTyped DEF Row
      <4>2. QED
        BY <4>1, <2>4, RowsTyped DEF Row
    <3>2. Rows' = Rows /\ \A t \in Rows : row'[t].ripped = row[t].ripped
      BY <2>4, <3>1 DEF TypeOK, Rows
    <3>3. QED
      BY <2>1, <2>2, <2>4, <3>2 DEF MarkedRipped, Early
  <2>5. CASE /\ next \in Rows /\ made' = made \cup {next}
             /\ row' = [row EXCEPT ![next].process = "yes", ![next].ripped = TRUE]
    <3> DEFINE r == [row[next] EXCEPT !.process = "yes", !.ripped = TRUE]
    <3>1. r # Absent /\ r.ripped = TRUE
      <4>1. r \in Row
        BY <2>5, RowsTyped DEF Row
      <4>2. QED
        BY <4>1, <2>5, RowsTyped DEF Row
    <3>2. Rows' = Rows /\ \A t \in Rows : row'[t] = IF t = next THEN r ELSE row[t]
      BY <2>5, <3>1 DEF TypeOK, Rows
    <3> HIDE DEF r
    <3>3. \A t \in Rows' : row'[t].ripped <=> t \in made'
      BY <2>2, <2>5, <3>1, <3>2
    <3>4. QED
      BY <2>1, <2>2, <2>5, <3>2, <3>3 DEF MarkedRipped, Early
  <2>6. QED
    BY <1>8, <2>1, <2>3, <2>4, <2>5 DEF RipTitle
<1>9. CASE TitlesDone
  BY <1>9 DEF TitlesDone, MarkedRipped, SavedSoFar, Early, Rows
<1>10. CASE Reconcile \/ RemoveDeselected \/ MarkRipped \/ FinalizeOutput
  BY <1>10 DEF Reconcile, RemoveDeselected, MarkRipped, FinalizeOutput, MarkedRipped, Early
<1>11. CASE UserStep
  <2>1. /\ UNCHANGED <<disc, pc, made>> /\ Rows' = Rows
        /\ \A t \in Rows : /\ row'[t].name \in {row[t].name, Basename}
                           /\ row'[t].ripped = row[t].ripped
    BY <1>11, UserRows
  <2>2. QED
    BY <2>1 DEF MarkedRipped, Early, Basename
<1>12. QED
  BY <1>1, <1>2, <1>3, <1>4, <1>5, <1>6, <1>7, <1>8, <1>9, <1>10, <1>11 DEF Next, UserStep

-----------------------------------------------------------------------------
(* The matching of an import. Of the sets of rows that are long enough for   *)
(* some cutoff one contains the other, so the one with as many rows as there  *)
(* are files is the set of the titles that were saved.                      *)
LEMMA AsManyFiles ==
    ASSUME TypeOK, InOwnFiles, Untouched
    PROVE  Cardinality(Files) = Cardinality(made)
<1>1. /\ \A t \in made : OwnFile(t) \in Files /\ file[OwnFile(t)] = t
      /\ \A f \in Files : file[f] \in made /\ f = OwnFile(file[f])
  <2>1. pc # "done"
    BY DEF Untouched
  <2>2. QED
    BY <2>1, FilesNow DEF OwnFile, Files
<1>2. [t \in made |-> OwnFile(t)] \in Injection(made, Files)
  BY <1>1 DEF Injection, IsInjective
<1>3. [f \in Files |-> file[f]] \in Injection(Files, made)
  BY <1>1 DEF Injection, IsInjective
<1>4. /\ IsFiniteSet(made) /\ Cardinality(made) \in Nat
      /\ IsFiniteSet(Files) /\ Cardinality(Files) \in Nat
  BY FiniteTitles, FiniteFiles, RowsTyped DEF TypeOK
<1>5. Cardinality(made) <= Cardinality(Files)
  BY <1>2, <1>4, FS_Injection
<1>6. Cardinality(Files) <= Cardinality(made)
  BY <1>3, <1>4, FS_Injection
<1>7. QED
  BY <1>4, <1>5, <1>6

LEMMA MapOfSaved ==
    ASSUME TypeOK, InOwnFiles, Untouched, Scanned, Files # {}, made = LongTo(LastTitle + 1)
    PROVE  TitleMap = [t \in made |-> Rank(t, made)]
<1> DEFINE kept(c) == {t \in Rows : Length(t) >= c}
           cutoffs == Lengths \cup {0, MinLength}
           fitting == {c \in cutoffs : Cardinality(kept(c)) = Cardinality(Files)}
           c0      == CHOOSE c \in fitting : TRUE
<1>1. /\ disc.skip \in cutoffs
      /\ cutoffs \subseteq Nat
      /\ \A t \in Titles : Length(t) \in Nat
  <2>1. disc.skip \in Lengths \cup {MinLength} /\ disc.length \in [Titles -> Lengths]
    BY DEF TypeOK, Disc
  <2>2. Lengths \subseteq Nat /\ MinLength \in Nat /\ 0 \in Nat
    BY TracksAssumption
  <2>3. QED
    BY <2>1, <2>2 DEF Length
<1>2. kept(disc.skip) = made
  <2>1. \A t \in Titles : t < LastTitle + 1
    BY TitlesAreNumbers, TracksAssumption
  <2>2. \A t \in Titles : Length(t) >= disc.skip <=> ~(Length(t) < disc.skip)
    BY <1>1
  <2>3. QED
    BY <2>1, <2>2 DEF LongTo, Scanned
<1>3. disc.skip \in fitting
  BY <1>1, <1>2, AsManyFiles
<1>4. c0 \in fitting
  BY <1>3
<1>5. kept(c0) \subseteq made \/ made \subseteq kept(c0)
  <2>1. c0 \in Nat /\ disc.skip \in Nat
    BY <1>1, <1>4
  <2>2. \A t \in Rows : Length(t) \in Nat
    BY <1>1, RowsTyped
  <2>3. ASSUME NEW c \in Nat, NEW d \in Nat, c <= d PROVE kept(d) \subseteq kept(c)
    BY <2>2, <2>3
  <2> HIDE DEF c0, kept
  <2>4. QED
    BY <1>2, <2>1, <2>3
<1>6. Cardinality(kept(c0)) = Cardinality(made)
  BY <1>4, AsManyFiles
<1>7. IsFiniteSet(kept(c0)) /\ IsFiniteSet(made)
  BY FiniteTitles, RowsTyped DEF TypeOK
<1>8. kept(c0) = made
  BY <1>5, <1>6, <1>7, FS_Subset
<1>9. TitleMap = IF fitting = {} \/ Files = {} THEN << >>
                 ELSE [t \in kept(c0) |-> Rank(t, kept(c0))]
  BY DEF TitleMap
<1>10. QED
  BY <1>3, <1>8, <1>9

LEMMA MatchingFinds ==
    ASSUME TypeOK, InOwnFiles, Untouched, Import, Scanned, Files # {},
           made = LongTo(LastTitle + 1), NEW t \in made
    PROVE  t \in DOMAIN Matching /\ Matching[t] = OwnFile(t)
<1> DEFINE number == TitleMap
           named  == {u \in DOMAIN number : \E f \in Files : f[2] = number[u]}
<1>1. number = [u \in made |-> Rank(u, made)]
  BY MapOfSaved
<1>2. ByTitleMap = [u \in named |-> CHOOSE f \in Files : f[2] = number[u]]
  BY DEF ByTitleMap
<1> HIDE DEF number
<1>3. /\ \A u \in made : OwnFile(u) \in Files /\ file[OwnFile(u)] = u
      /\ \A f \in Files : file[f] \in made /\ f = OwnFile(file[f])
  <2>1. pc # "done"
    BY DEF Untouched
  <2>2. QED
    BY <2>1, FilesNow DEF OwnFile, Files
<1>4. \A u : OwnFile(u)[2] = Rank(u, made)
  BY DEF OwnFile, Place, Import
<1>5. made \subseteq Titles
  BY DEF TypeOK
<1>6. ASSUME NEW f \in Files, f[2] = Rank(t, made) PROVE f = OwnFile(t)
  <2>1. PICK u \in made : f = OwnFile(u)
    BY <1>3
  <2>2. Rank(u, made) = Rank(t, made)
    BY <1>4, <1>6, <2>1
  <2>3. QED
    BY <1>5, <2>1, <2>2, RankInjective
<1>7. t \in named /\ (CHOOSE f \in Files : f[2] = number[t]) = OwnFile(t)
  <2>1. number[t] = Rank(t, made) /\ t \in DOMAIN number
    BY <1>1
  <2>2. OwnFile(t) \in Files /\ OwnFile(t)[2] = number[t]
    BY <1>3, <1>4, <2>1
  <2>3. QED
    BY <1>6, <2>1, <2>2
<1>8. t \in DOMAIN ByTitleMap /\ ByTitleMap[t] = OwnFile(t)
  BY <1>2, <1>7
<1>9. QED
  BY <1>8, MatchingFits DEF Extends

LEMMA FindStep ==
    ASSUME TypeOK, SavedSoFar, InOwnFiles, RowsFindTheirFiles, [Next]_vars
    PROVE  RowsFindTheirFiles'
<1> DEFINE Goal == (disc'.way = "import" /\ (\A t \in Titles : row'[t] # Absent)
                      /\ pc' \in {"remove", "mark", "finalize"}) =>
                   \A f \in FileName : file'[f] # NoTitle => row'[file'[f]].name \in {f, Basename}
<1>0. SUFFICES Goal
  BY DEF RowsFindTheirFiles, Import, Scanned, Rows, Files, Basename
<1>a. RowsFindTheirFiles =>
        ((Import /\ Rows = Titles /\ pc \in {"remove", "mark", "finalize"}) =>
            \A f \in FileName : file[f] # NoTitle => row[file[f]].name \in {f, Basename})
  BY DEF RowsFindTheirFiles, Scanned, Files
<1>1. CASE PrepFails \/ Scan \/ AddTrack \/ ScanBreaks \/ Retry \/ ScanDone \/ StartRip
  BY <1>1 DEF PrepFails, Scan, AddTrack, ScanBreaks, Retry, ScanDone, StartRip
<1>2. CASE StartFails \/ SaveTitle \/ RipDone \/ TitleError \/ SaveUnseen \/ RunFails
             \/ RipTitle \/ TitlesDone \/ FinalizeOutput
  BY <1>2 DEF StartFails, SaveTitle, RipDone, TitleError, SaveUnseen, RunFails, RipTitle, TitlesDone, FinalizeOutput
<1>3. CASE Reconcile
  <2>1. SUFFICES ASSUME disc'.way = "import", \A t \in Titles : row'[t] # Absent,
                        NEW f \in FileName, file'[f] # NoTitle
                 PROVE  row'[file'[f]].name \in {f, Basename}
    OBVIOUS
  <2>2. pc = "reconcile" /\ UNCHANGED <<disc, file, final, clashed, made>>
    BY <1>3 DEF Reconcile
  <2>3. Import /\ Untouched /\ f \in Files /\ Files # {} /\ made = LongTo(LastTitle + 1)
    BY <2>1, <2>2 DEF Import, Untouched, Files, SavedSoFar
  <2> DEFINE m == Matching
  <2>4. row' = [t \in Titles |-> IF t \in DOMAIN m THEN [row[t] EXCEPT !.name = m[t]] ELSE row[t]]
    BY <1>3, <2>3 DEF Reconcile
  <2>5. DOMAIN m \subseteq Rows
    BY MatchingFits DEF Fits
  <2> HIDE DEF m
  <2>6. Scanned
    <3>1. \A t \in Titles : t \in Rows
      BY <2>1, <2>4, <2>5 DEF Rows
    <3>2. QED
      BY <3>1, RowsTyped DEF Scanned
  <2>7. file[f] \in made /\ f = OwnFile(file[f]) /\ file[f] \in Titles
    BY <2>3, RowsTyped DEF InOwnFiles, Untouched
  <2>8. file[f] \in DOMAIN m /\ m[file[f]] = f
    BY <2>3, <2>6, <2>7, MatchingFinds DEF m
  <2>9. row[file[f]] \in Row
    BY <2>5, <2>8, RowsTyped
  <2>10. row'[file[f]].name = f
    BY <2>4, <2>7, <2>8, <2>9 DEF Row
  <2>11. QED
    BY <2>2, <2>10
<1>4. CASE RemoveDeselected
  <2>1. pc = "remove" /\ UNCHANGED <<disc, row>>
          /\ file' = [f \in FileName |-> IF f \in Removed THEN NoTitle ELSE file[f]]
    BY <1>4 DEF RemoveDeselected
  <2>2. \A f \in FileName : file'[f] # NoTitle => file[f] # NoTitle /\ file'[f] = file[f]
    BY <2>1
  <2>3. QED
    BY <1>a, <2>1, <2>2 DEF Import, Rows
<1>5. CASE MarkRipped
  <2>1. pc = "mark" /\ UNCHANGED <<disc, file>>
          /\ row' = [t \in Titles |-> IF t \in Rows THEN [row[t] EXCEPT !.ripped = row[t].name \in Files]
                                                    ELSE Absent]
    BY <1>5 DEF MarkRipped
  <2>2. \A t \in Rows : row'[t].name = row[t].name
    BY <2>1, RowsTyped DEF Row
  <2>3. (\A t \in Titles : row'[t] # Absent) => Rows = Titles
    BY <2>1, RowsTyped
  <2>4. QED
    BY <1>a, <2>1, <2>2, <2>3, RowsTyped DEF Import, Files
<1>6. CASE UserStep
  <2>1. /\ UNCHANGED <<disc, pc, file>> /\ Rows' = Rows
        /\ \A t \in Rows : row'[t].name \in {row[t].name, Basename}
    BY <1>6, UserRows
  <2>2. (\A t \in Titles : row'[t] # Absent) => Rows = Titles
    BY <2>1, RowsTyped DEF Rows
  <2>3. QED
    BY <1>a, <2>1, <2>2, RowsTyped DEF Import, Files
<1>7. QED
  BY <1>1, <1>2, <1>3, <1>4, <1>5, <1>6 DEF Next, UserStep

-----------------------------------------------------------------------------
(* Nothing is lost.                                                         *)
LEMMA SavedOnDisk ==
    ASSUME TypeOK, InOwnFiles, Untouched
    PROVE  \A t \in made : t \in OnDisk
<1>1. \A t \in made : OwnFile(t) \in Files /\ file[OwnFile(t)] = t
  <2>1. pc # "done"
    BY DEF Untouched
  <2>2. QED
    BY <2>1, FilesNow DEF OwnFile, Files
<1>2. QED
  BY <1>1 DEF OnDisk

LEMMA AllSurvive ==
    ASSUME TypeOK, InOwnFiles, KeptLate
    PROVE  KeptSurvive
BY SavedOnDisk DEF KeptLate, KeptSurvive

(* A title of this row need not be there any more. *)
Dropped(t) == Import /\ (row[t].process = "no" \/ row[t].name = Basename)

LEMMA KeptLateStep ==
    ASSUME TypeOK, SavedSoFar, InOwnFiles, RowsFindTheirFiles, KeptLate, [Next]_vars
    PROVE  KeptLate'
<1> DEFINE There == {file'[f] : f \in {g \in FileName : file'[g] # NoTitle}}
                      \cup final'
           DroppedThen(t) == disc'.way = "import" /\ (row'[t].process = "no" \/ row'[t].name = Basename)
           Late == pc' = "done" \/ (disc'.way = "import" /\ pc' \in {"mark", "finalize"})
<1>0. SUFFICES ASSUME Late, \A t \in Titles : row'[t] # Absent, NEW t \in made'
               PROVE  t \in There \/ t \in clashed' \/ DroppedThen(t)
  BY DEF KeptLate, KeptSurvive, Untouched, OnDisk, Scanned, Files, Rows, Import, Basename
<1>a. Scanned => \A u \in made : u \in OnDisk \/ u \in clashed \/ Dropped(u)
  BY AllSurvive DEF KeptSurvive, Dropped
<1>1. CASE PrepFails \/ Scan \/ AddTrack \/ ScanBreaks \/ Retry \/ ScanDone \/ StartRip
  BY <1>0, <1>1 DEF PrepFails, Scan, AddTrack, ScanBreaks, Retry, ScanDone, StartRip
<1>2. CASE StartFails \/ SaveTitle \/ RipDone \/ TitleError \/ SaveUnseen \/ RunFails
             \/ RipTitle \/ TitlesDone
  BY <1>0, <1>2 DEF StartFails, SaveTitle, RipDone, TitleError, SaveUnseen, RunFails, RipTitle, TitlesDone
<1>3. CASE Reconcile
  BY <1>0, <1>3 DEF Reconcile, Import
<1>4. CASE RemoveDeselected
  <2>1. /\ pc = "remove" /\ UNCHANGED <<disc, row, final, clashed, made>>
        /\ file' = [f \in FileName |-> IF f \in Removed THEN NoTitle ELSE file[f]]
    BY <1>4 DEF RemoveDeselected
  <2>2. Scanned /\ Import /\ Untouched /\ t \in made
    BY <1>0, <2>1, RowsTyped DEF Scanned, Rows, SavedSoFar, Untouched
  <2>3. PICK f \in Files : file[f] = t
    BY <2>1, <2>2, FilesNow DEF Files
  <2>4. t \in Rows /\ row[t].name \in {f, Basename} /\ f \in FileName /\ t # NoTitle
    BY <2>1, <2>2, <2>3, RowsTyped, FilesNow DEF RowsFindTheirFiles, Scanned
  <2>5. CASE f \notin Removed
    BY <2>1, <2>3, <2>4, <2>5
  <2>6. CASE f \in Removed
    <3>1. f \notin {row[u].name : u \in {v \in Rows : row[v].process # "no"}}
      BY <2>6 DEF Removed
    <3>2. row[t].process = "no" \/ row[t].name = Basename
      BY <2>4, <3>1
    <3>3. QED
      BY <2>1, <2>2, <3>2 DEF Import
  <2>7. QED
    BY <2>5, <2>6
<1>5. CASE MarkRipped
  <2>1. /\ UNCHANGED <<disc, file, final, clashed, made>>
        /\ row' = [u \in Titles |-> IF u \in Rows THEN [row[u] EXCEPT !.ripped = row[u].name \in Files]
                                                  ELSE Absent]
    BY <1>5 DEF MarkRipped
  <2>2. \A u \in Rows : row'[u].name = row[u].name /\ row'[u].process = row[u].process
    BY <2>1, RowsTyped DEF Row
  <2>3. Scanned
    BY <1>0, <2>1, RowsTyped DEF Scanned
  <2>4. t \in Rows /\ (t \in OnDisk \/ t \in clashed \/ Dropped(t))
    BY <1>a, <2>1, <2>3 DEF Scanned, TypeOK
  <2>5. OnDisk = There
    BY <2>1 DEF OnDisk, Files
  <2>6. QED
    BY <2>1, <2>2, <2>4, <2>5 DEF Dropped, Import
<1>6. CASE FinalizeOutput
  <2>1. pc = "finalize" /\ UNCHANGED <<disc, row, made>> /\ t \in made
    BY <1>6 DEF FinalizeOutput
  <2>2. Scanned
    BY <1>0, <2>1, RowsTyped DEF Scanned, Rows
  <2>3. Arrives
    <3>1. (\E series \in SUBSET Rows, clean \in Cleanings : MoveTracks(series, clean)) \/ MoveUntracked
      BY <1>6 DEF FinalizeOutput
    <3>2. QED
      BY <3>1, TracksArrive, UntrackedArrive
  <2>4. t # NoTitle /\ final = {} /\ clashed = {}
    BY <2>1, FilesNow
  <2>5. CASE t \in OnDisk
    <3>1. PICK f \in Files : t = file[f]
      BY <2>4, <2>5 DEF OnDisk
    <3>2. f \in FileName /\ (file'[f] = t \/ t \in final' \/ t \in clashed')
      BY <2>3, <3>1 DEF Arrives, Files
    <3>3. QED
      BY <2>4, <3>2
  <2>6. CASE Dropped(t)
    BY <2>1, <2>6 DEF Dropped, Import
  <2>7. QED
    BY <1>a, <2>1, <2>2, <2>4, <2>5, <2>6
<1>7. CASE UserStep
  <2>1. /\ UNCHANGED <<disc, file, final, clashed, made>> /\ Rows' = Rows
        /\ \A u \in Rows : /\ row'[u].name \in {row[u].name, Basename}
                           /\ row'[u].process = row[u].process
    BY <1>7, UserRows
  <2>2. Scanned
    BY <1>0, <2>1, RowsTyped DEF Scanned, Rows
  <2>3. t \in Rows /\ (t \in OnDisk \/ t \in clashed \/ Dropped(t))
    BY <1>a, <2>1, <2>2 DEF Scanned, TypeOK
  <2>4. OnDisk = There
    BY <2>1 DEF OnDisk, Files
  <2>5. QED
    BY <2>1, <2>3, <2>4 DEF Dropped, Import
<1>8. QED
  BY <1>1, <1>2, <1>3, <1>4, <1>5, <1>6, <1>7 DEF Next, UserStep

-----------------------------------------------------------------------------
LEMMA TracksInit == Init => TracksInv
<1> SUFFICES ASSUME Init PROVE TracksInv
  OBVIOUS
<1>1. pc = "scan" /\ made = {} /\ Rows = {} /\ Files = {} /\ final = {} /\ clashed = {}
  BY DEF Init, Rows, Files
<1>2. scans < MaxScans
  BY TracksAssumption DEF Init
<1>3. QED
  BY <1>1, <1>2, InitTyped
     DEF TracksInv, TriesLeft, InOwnFiles, SavedSoFar, ScannedNames, MarkedRipped,
         RowsFindTheirFiles, KeptLate, Untouched, Early

LEMMA TracksStep == TracksInv /\ [Next]_vars => TracksInv'
BY TypeStep, TriesStep, OwnFilesStep, SavedStep, NamesStep, MarkedStep, FindStep, KeptLateStep
   DEF TracksInv

LEMMA TracksInvariant == Spec => []TracksInv
BY TracksInit, TracksStep, PTL DEF Spec

(* Only the matching leaves its place, and it judges a disc by the marks.    *)
LEMMA EmptyStep ==
    ASSUME TracksInv, [Next]_vars, pc = "reconcile", pc' # pc, Scanned,
           \A t \in Titles : row[t].name # Basename
    PROVE  pc' = "failed" <=> made = {} /\ ~Import
<1>1. Reconcile
  <2>1. ~(PrepFails \/ Scan \/ AddTrack \/ ScanBreaks \/ Retry \/ ScanDone \/ StartRip)
    BY DEF PrepFails, Scan, AddTrack, ScanBreaks, Retry, ScanDone, StartRip
  <2>2. ~(StartFails \/ SaveTitle \/ RipDone \/ TitleError \/ SaveUnseen \/ RunFails
             \/ RipTitle \/ TitlesDone)
    BY DEF StartFails, SaveTitle, RipDone, TitleError, SaveUnseen, RunFails, RipTitle, TitlesDone
  <2>3. ~(RemoveDeselected \/ MarkRipped \/ FinalizeOutput)
    BY DEF RemoveDeselected, MarkRipped, FinalizeOutput
  <2>4. ~UserStep
    BY UserRows DEF TracksInv
  <2>5. QED
    BY <2>1, <2>2, <2>3, <2>4 DEF Next, UserStep
<1>2. /\ TypeOK /\ MarkedRipped /\ Rows = Titles
      /\ pc' = IF Import THEN "remove"
               ELSE IF Rows # {} /\ \A t \in Rows : ~row[t].ripped THEN "failed" ELSE "finalize"
  BY <1>1 DEF Reconcile, TracksInv, Scanned
<1>3. 0 \in Titles /\ made \subseteq Titles /\ disc.way \in Ways
  BY <1>2, TracksAssumption DEF Titles, TypeOK, Disc
<1>4. CASE Import
  BY <1>2, <1>4
<1>5. CASE disc.way = "single"
  <2>1. \A t \in Titles : row[t].ripped <=> t \in made
    BY <1>2, <1>5 DEF MarkedRipped
  <2>2. QED
    BY <1>2, <1>3, <1>5, <2>1 DEF Import
<1>6. CASE disc.way = "all"
  <2>1. made # {} /\ \A t \in made : row[t].ripped
    BY <1>2, <1>3, <1>6 DEF MarkedRipped
  <2>2. QED
    BY <1>2, <1>3, <2>1
<1>7. QED
  BY <1>3, <1>4, <1>5, <1>6 DEF Ways, Import

(* Every variable keeps its type: no scan is tried more often than           *)
(* PRESCAN_RETRIES, and titles are numbered as MakeMKV does (main.py).       *)
THEOREM TracksTypeCorrect == Spec => []TypeOK
<1>1. TracksInv => TypeOK
  BY DEF TracksInv
<1>2. QED
  BY <1>1, TracksInvariant, PTL

(* No title that was saved and is not deselected is lost, whatever is edited,  *)
(* removed or has one name with another (folder_ripper.py 155-161, naming.py  *)
(* 345-352).                                                                *)
THEOREM TitlesSurvive == Spec => []KeptSurvive
<1>1. TracksInv => KeptSurvive
  BY AllSurvive DEF TracksInv
<1>2. QED
  BY <1>1, TracksInvariant, PTL

(* The rows of an import name the files their titles are in, whatever        *)
(* MakeMKV skipped and however it renumbered (folder_ripper.py 33-99).       *)
THEOREM RowsFindFiles == Spec => []RowsFindTheirFiles
<1>1. TracksInv => RowsFindTheirFiles
  BY DEF TracksInv
<1>2. QED
  BY <1>1, TracksInvariant, PTL

(* A rip is given up as empty when and only when it left no file             *)
(* (arm_ripper.py 124-138).                                                 *)
THEOREM EmptyRipsTold == Spec => EmptyRipTrue
<1>1. TracksInv /\ [Next]_vars =>
        [(pc = "reconcile" /\ pc' # pc /\ Scanned /\ \A t \in Titles : row[t].name # Basename) =>
            (pc' = "failed" <=> made = {} /\ ~Import)]_vars
  BY EmptyStep
<1>2. QED
  BY <1>1, TracksInvariant, PTL DEF Spec, EmptyRipTrue
=============================================================================
