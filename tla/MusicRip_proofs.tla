---------------------------- MODULE MusicRip_proofs ----------------------------
(***************************************************************************)
(* ShownTruly, VerdictTrue and OneSource for any number of discs, tracks,   *)
(* releases, edits of the user and writes that the database refuses.        *)
(*                                                                          *)
(* A disc's steps touch what is of this disc: one lemma says that the       *)
(* others stay as they are, and what is left is one disc. What its rows say *)
(* before abcde starts, while it runs and after its verdict are three       *)
(* stories, each with an invariant of its own on top of the types.          *)
(***************************************************************************)
EXTENDS MusicRip, SequenceTheorems, TLAPS

Origins == {"user", "MusicBrainz", "TOC"}
Row     == [no : Nat, source : Origins,
            status : {"pending", "ripping", "encoding", "success", "failed"}]

Before == {"lookup", "ask", "put", "toc", "putToc", "art", "wait", "clean", "spawn"}
During == {"stream", "apply", "last", "judge"}
After  == {"succeeded", "failing", "done"}

TypeOK ==
    /\ pc \in [Jobs -> Before \cup During \cup After]
    /\ status \in [Jobs -> {"idle", "ripping", "success", "failure"}]
    /\ named \in [Jobs -> BOOLEAN]
    /\ rows \in [Jobs -> Seq(Row)]
    /\ listed \in [Jobs -> Seq(Nat)]
    /\ abcde \in [Jobs -> {"none", "running", "hung", "stuck", "ok", "bad"}]
    /\ phase \in [Jobs -> [1..Toc -> 0..3]]
    /\ erred \in [Jobs -> BOOLEAN]
    /\ mixed \in [Jobs -> BOOLEAN]
    /\ late \in [Jobs -> BOOLEAN]

-----------------------------------------------------------------------------
(* Rows and lists as sequences.                                             *)

LEMMA Places ==
    /\ \A s \in Seq(Row) : Len(s) \in Nat /\ DOMAIN s = 1..Len(s)
    /\ \A s \in Seq(Row), i \in Nat : i \in DOMAIN s => s[i] \in Row
BY LenProperties, ElementOfSeq

LEMMA PutRow ==
    ASSUME NEW s \in Seq(Row), NEW r \in Row
    PROVE  /\ Append(s, r) \in Seq(Row)
           /\ Len(Append(s, r)) = Len(s) + 1
           /\ DOMAIN Append(s, r) = DOMAIN s \cup {Len(s) + 1}
           /\ \A i \in DOMAIN s : Append(s, r)[i] = s[i]
           /\ Append(s, r)[Len(s) + 1] = r
BY AppendProperties, LenProperties

(* Rows that are written over, one by one.                                  *)
LEMMA MapRows ==
    ASSUME NEW s \in Seq(Row), NEW t, DOMAIN t = DOMAIN s, t = [i \in DOMAIN s |-> t[i]],
           \A i \in DOMAIN s : t[i] \in Row
    PROVE  t \in Seq(Row) /\ Len(t) = Len(s)
<1>1. DOMAIN s = 1..Len(s) /\ Len(s) \in Nat
  BY LenProperties
<1>2. t \in [1..Len(s) -> Row]
  BY <1>1
<1>3. t \in Seq(Row)
  BY <1>1, <1>2, SeqDef
<1> QED
  BY <1>1, <1>3, LenProperties

LEMMA UserRows ==
    ASSUME NEW n \in Nat
    PROVE  LET t == [i \in 1..n |-> Fresh(i, "user")]
           IN  t \in Seq(Row) /\ DOMAIN t = 1..n /\ \A i \in 1..n : t[i] = Fresh(i, "user")
<1> DEFINE t == [i \in 1..n |-> Fresh(i, "user")]
<1>1. t \in [1..n -> Row]
  BY DEF Row, Origins, Fresh
<1>2. t \in Seq(Row)
  BY <1>1, SeqDef
<1> QED
  BY <1>2

LEMMA Counting ==
    ASSUME NEW n \in Nat
    PROVE  /\ Tracks(n) \in Seq(Nat) /\ Len(Tracks(n)) = n
           /\ \A i \in 1..n : Tracks(n)[i] = i
<1>1. Tracks(n) \in [1..n -> Nat]
  BY DEF Tracks
<1>2. Tracks(n) \in Seq(Nat)
  BY <1>1, SeqDef
<1>3. Len(Tracks(n)) = n
  BY DEF Tracks
<1> QED
  BY <1>2, <1>3 DEF Tracks

-----------------------------------------------------------------------------
(* The types, and what is of a disc.                                        *)

(* What a step of disc j leaves to the others.                              *)
Others(j) ==
    \A k \in Jobs \ {j} :
        /\ pc'[k] = pc[k] /\ status'[k] = status[k] /\ named'[k] = named[k]
        /\ rows'[k] = rows[k] /\ listed'[k] = listed[k] /\ abcde'[k] = abcde[k]
        /\ phase'[k] = phase[k] /\ erred'[k] = erred[k]
        /\ mixed'[k] = mixed[k] /\ late'[k] = late[k]

StepOf(j) == Ripper(j) \/ Waited(j) \/ SetJobTracks(j) \/ Hang(j)

LEMMA OthersStay ==
    ASSUME TypeOK, NEW j \in Jobs, StepOf(j)
    PROVE  Others(j)
<1> USE DEF TypeOK, Others, Goto, SetStatus, SetRows, Process, History
<1>1. CASE NoDiscId(j) \/ NoLookup(j) \/ DeleteJobTracks(j) \/ GetDiscInfo(j)
  BY <1>1 DEF NoDiscId, NoLookup, DeleteJobTracks, GetDiscInfo
<1>2. CASE PutTrack(j) \/ Malformed(j) \/ Describe(j) \/ GetCdArt(j) \/ PutTocTrack(j)
  BY <1>2 DEF PutTrack, Malformed, Describe, GetCdArt, PutTocTrack
<1>3. CASE CleanWorkdirs(j) \/ Spawn(j) \/ SpawnFails(j) \/ End(j) \/ Stall(j)
  BY <1>3 DEF CleanWorkdirs, Spawn, SpawnFails, End, Stall
<1>4. CASE Line(j)
  BY <1>4 DEF Line
<1>5. CASE ApplyTrackPhases(j)
  BY <1>5 DEF ApplyTrackPhases
<1>6. CASE Succeed(j) \/ Done(j) \/ Upset(j) \/ Fail(j) \/ FailTracks(j)
  BY <1>6 DEF Succeed, Done, Upset, Fail, FailTracks, UpdateMusicTracks
<1>7. CASE Waited(j) \/ SetJobTracks(j) \/ Hang(j)
  BY <1>7 DEF Waited, SetJobTracks, Hang
<1> QED
  BY <1>1, <1>2, <1>3, <1>4, <1>5, <1>6, <1>7 DEF StepOf, Ripper

LEMMA ShownRow ==
    ASSUME NEW j, phase[j] \in [1..Toc -> 0..3], NEW r \in Row
    PROVE  /\ Shown(j, r) \in Row
           /\ Shown(j, r).no = r.no /\ Shown(j, r).source = r.source
           /\ \/ Shown(j, r).status = r.status
              \/ \E p \in 1..3 : Shown(j, r).status = Phases[p] /\ p <= phase[j][r.no]
<1>1. CASE r.no \in 1..Toc /\ phase[j][r.no] > 0
  <2> DEFINE p == phase[j][r.no]
  <2>1. p \in 1..3
    <3>1. p \in 0..3 /\ p > 0
      BY <1>1
    <3> HIDE DEF p
    <3> QED
      BY <3>1
  <2>2. Shown(j, r) = [r EXCEPT !.status = Phases[p]]
    BY <1>1 DEF Shown
  <2>3. p = 1 \/ p = 2 \/ p = 3
    BY <2>1
  <2>4. Phases[p] \in {"ripping", "encoding", "success"}
    BY <2>3 DEF Phases
  <2> HIDE DEF p
  <2>5. /\ Shown(j, r) \in Row /\ Shown(j, r).status = Phases[p]
        /\ Shown(j, r).no = r.no /\ Shown(j, r).source = r.source
    BY <2>2, <2>4 DEF Row
  <2>6. p <= phase[j][r.no]
    BY <2>1 DEF p
  <2> QED
    BY <2>1, <2>5, <2>6
<1>2. CASE ~(r.no \in 1..Toc /\ phase[j][r.no] > 0)
  BY <1>2 DEF Shown
<1> QED
  BY <1>1, <1>2

(* How the rows of a disc change, if they do.                               *)
LEMMA RowsOfStep ==
    ASSUME TypeOK, NEW j \in Jobs, StepOf(j)
    PROVE  rows'[j] \in Seq(Row) /\ listed'[j] \in Seq(Nat)
<1>1. /\ rows[j] \in Seq(Row) /\ listed[j] \in Seq(Nat)
      /\ phase[j] \in [1..Toc -> 0..3]
  BY DEF TypeOK
<1>2. \A n \in Nat : Fresh(n, "MusicBrainz") \in Row /\ Fresh(n, "TOC") \in Row
  BY DEF Fresh, Row, Origins
<1>3. CASE rows'[j] = rows[j] /\ listed'[j] = listed[j]
  BY <1>1, <1>3
<1>4. CASE SetJobTracks(j)
  <2>1. PICK n \in Listings : rows'[j] = [i \in 1..n |-> Fresh(i, "user")]
    BY <1>4 DEF SetJobTracks, SetRows, TypeOK
  <2>2. n \in Nat
    BY MusicRipAssumption
  <2> QED
    BY <1>1, <1>4, <2>1, <2>2, UserRows DEF SetJobTracks
<1>5. CASE DeleteJobTracks(j)
  <2>1. << >> \in Seq(Row) /\ \A n \in Nat : Tracks(n) \in Seq(Nat)
    BY Counting
  <2>2. rows'[j] \in {<< >>, rows[j]} /\ listed'[j] \in {Tracks(Toc), Tracks(0)}
    BY <1>5 DEF DeleteJobTracks, SetRows, TypeOK
  <2> QED
    BY <1>1, <2>1, <2>2, MusicRipAssumption
<1>6. CASE GetDiscInfo(j)
  <2>1. rows'[j] = rows[j] /\ (listed'[j] = listed[j] \/ \E n \in Listings : listed'[j] = Tracks(n))
    BY <1>6 DEF GetDiscInfo, TypeOK
  <2> QED
    BY <1>1, <2>1, Counting, MusicRipAssumption
<1>7. CASE PutTrack(j) \/ PutTocTrack(j)
  <2>1. CASE listed[j] # << >> /\ listed'[j] = Tail(listed[j])
             /\ \E from \in {"MusicBrainz", "TOC"} :
                  rows'[j] = Append(rows[j], Fresh(Head(listed[j]), from))
    <3>1. Head(listed[j]) \in Nat /\ Tail(listed[j]) \in Seq(Nat)
      BY <1>1, <2>1, HeadTailProperties
    <3> QED
      BY <1>1, <1>2, <2>1, <3>1, PutRow
  <2> QED
    BY <1>3, <1>7, <2>1 DEF PutTrack, PutTocTrack, SetRows, TypeOK
<1>8. CASE ApplyTrackPhases(j)
  <2>1. CASE rows'[j] = [i \in DOMAIN rows[j] |-> Shown(j, rows[j][i])]
    <3>1. \A i \in DOMAIN rows[j] : rows[j][i] \in Row
      BY <1>1, Places
    <3>2. \A r \in Row : Shown(j, r) \in Row
      BY <1>1, ShownRow
    <3>3. \A i \in DOMAIN rows[j] : rows'[j][i] \in Row
      BY <2>1, <3>1, <3>2
    <3> QED
      BY <1>1, <1>8, <2>1, <3>3, MapRows DEF ApplyTrackPhases
  <2> QED
    BY <1>3, <1>8, <2>1 DEF ApplyTrackPhases, SetRows, TypeOK
<1>9. CASE Succeed(j) \/ FailTracks(j)
  <2>1. CASE \E s \in {"success", "failed"} :
               rows'[j] = [i \in DOMAIN rows[j] |-> [rows[j][i] EXCEPT !.status = s]]
    <3>1. PICK s \in {"success", "failed"} :
               rows'[j] = [i \in DOMAIN rows[j] |-> [rows[j][i] EXCEPT !.status = s]]
      BY <2>1
    <3>2. \A i \in DOMAIN rows[j] : rows[j][i] \in Row
      BY <1>1, Places
    <3>3. \A i \in DOMAIN rows[j] : rows'[j][i] \in Row
      BY <3>1, <3>2 DEF Row
    <3> QED
      BY <1>1, <1>9, <3>1, <3>3, MapRows DEF Succeed, FailTracks
  <2> QED
    BY <1>3, <1>9, <2>1 DEF Succeed, FailTracks, UpdateMusicTracks, SetRows, TypeOK
<1>10. CASE NoDiscId(j) \/ NoLookup(j) \/ Malformed(j) \/ Describe(j) \/ GetCdArt(j)
  BY <1>3, <1>10 DEF NoDiscId, NoLookup, Malformed, Describe, GetCdArt
<1>11. CASE CleanWorkdirs(j) \/ Spawn(j) \/ SpawnFails(j) \/ Line(j) \/ End(j) \/ Stall(j)
  BY <1>3, <1>11 DEF CleanWorkdirs, Spawn, SpawnFails, Line, End, Stall
<1>12. CASE Done(j) \/ Upset(j) \/ Fail(j) \/ Waited(j) \/ Hang(j)
  BY <1>3, <1>12 DEF Done, Upset, Fail, Waited, Hang
<1> QED
  BY <1>4, <1>5, <1>6, <1>7, <1>8, <1>9, <1>10, <1>11, <1>12 DEF StepOf, Ripper

LEMMA TypeStep ==
    ASSUME TypeOK, NEW j \in Jobs, StepOf(j)
    PROVE  TypeOK'
<1>1. rows' \in [Jobs -> Seq(Row)] /\ listed' \in [Jobs -> Seq(Nat)]
  <2>2. \A k \in Jobs : rows'[k] \in Seq(Row) /\ listed'[k] \in Seq(Nat)
    BY RowsOfStep, OthersStay DEF Others, TypeOK
  <2>3. rows' = [k \in Jobs |-> rows'[k]] /\ listed' = [k \in Jobs |-> listed'[k]]
    <3> USE DEF SetRows, Process, History, TypeOK
    <3>1. CASE DeleteJobTracks(j) \/ GetDiscInfo(j) \/ PutTrack(j) \/ PutTocTrack(j)
      BY <3>1 DEF DeleteJobTracks, GetDiscInfo, PutTrack, PutTocTrack
    <3>2. CASE ApplyTrackPhases(j) \/ Succeed(j) \/ FailTracks(j) \/ SetJobTracks(j)
      BY <3>2 DEF ApplyTrackPhases, Succeed, FailTracks, UpdateMusicTracks, SetJobTracks
    <3>3. CASE NoDiscId(j) \/ NoLookup(j) \/ Malformed(j) \/ Describe(j) \/ GetCdArt(j)
      BY <3>3 DEF NoDiscId, NoLookup, Malformed, Describe, GetCdArt
    <3>4. CASE CleanWorkdirs(j) \/ Spawn(j) \/ SpawnFails(j) \/ Line(j) \/ End(j) \/ Stall(j)
      BY <3>4 DEF CleanWorkdirs, Spawn, SpawnFails, Line, End, Stall
    <3>5. CASE Done(j) \/ Upset(j) \/ Fail(j) \/ Waited(j) \/ Hang(j)
      BY <3>5 DEF Done, Upset, Fail, Waited, Hang
    <3> QED
      BY <3>1, <3>2, <3>3, <3>4, <3>5 DEF StepOf, Ripper
  <2> QED
    BY <2>2, <2>3
<1> DEFINE Rest ==
      /\ pc' \in [Jobs -> Before \cup During \cup After]
      /\ status' \in [Jobs -> {"idle", "ripping", "success", "failure"}]
      /\ named' \in [Jobs -> BOOLEAN]
      /\ abcde' \in [Jobs -> {"none", "running", "hung", "stuck", "ok", "bad"}]
      /\ phase' \in [Jobs -> [1..Toc -> 0..3]]
      /\ erred' \in [Jobs -> BOOLEAN]
      /\ mixed' \in [Jobs -> BOOLEAN]
      /\ late' \in [Jobs -> BOOLEAN]
<1>2. Rest
  <2> USE DEF Goto, SetStatus, Process, History, TypeOK, Before, During, After
  <2>1. CASE NoDiscId(j) \/ NoLookup(j) \/ DeleteJobTracks(j) \/ GetDiscInfo(j)
    BY <2>1 DEF NoDiscId, NoLookup, DeleteJobTracks, GetDiscInfo
  <2>2. CASE PutTrack(j) \/ Malformed(j) \/ Describe(j) \/ GetCdArt(j) \/ PutTocTrack(j)
    BY <2>2 DEF PutTrack, Malformed, Describe, GetCdArt, PutTocTrack
  <2>3. CASE CleanWorkdirs(j) \/ Spawn(j) \/ SpawnFails(j)
    BY <2>3 DEF CleanWorkdirs, Spawn, SpawnFails
  <2>4. CASE Line(j)
    <3>1. phase' = phase \/ \E n \in 1..Toc : phase[j][n] < 3 /\ phase' = [phase EXCEPT ![j][n] = @ + 1]
      BY <2>4 DEF Line
    <3>2. ASSUME NEW n \in 1..Toc, phase[j][n] < 3, phase' = [phase EXCEPT ![j][n] = @ + 1]
          PROVE  phase' \in [Jobs -> [1..Toc -> 0..3]]
      <4>1. phase[j] \in [1..Toc -> 0..3] /\ phase[j][n] \in 0..3
        OBVIOUS
      <4>2. phase[j][n] + 1 \in 0..3
        BY <3>2, <4>1
      <4>3. [phase[j] EXCEPT ![n] = @ + 1] \in [1..Toc -> 0..3]
        BY <4>1, <4>2
      <4> QED
        BY <3>2, <4>3
    <3>3. phase' \in [Jobs -> [1..Toc -> 0..3]]
      BY <3>1, <3>2
    <3> QED
      BY <2>4, <3>3 DEF Line
  <2>5. CASE ApplyTrackPhases(j)
    BY <2>5 DEF ApplyTrackPhases
  <2>6. CASE Succeed(j) \/ Done(j) \/ Upset(j) \/ Fail(j) \/ FailTracks(j)
    BY <2>6 DEF Succeed, Done, Upset, Fail, FailTracks, UpdateMusicTracks
  <2>7. CASE Waited(j)
    BY <2>7 DEF Waited
  <2>8. CASE SetJobTracks(j)
    BY <2>8 DEF SetJobTracks
  <2>9. CASE Hang(j)
    BY <2>9 DEF Hang
  <2>10. CASE End(j)
    BY <2>10 DEF End
  <2>11. CASE Stall(j)
    BY <2>11 DEF Stall
  <2> QED
    BY <2>1, <2>2, <2>3, <2>4, <2>5, <2>6, <2>7, <2>8, <2>9, <2>10, <2>11 DEF StepOf, Ripper
<1> QED
  BY <1>1, <1>2 DEF TypeOK

-----------------------------------------------------------------------------
(* What the rows show: nothing before abcde has begun, and no more than it  *)
(* has told of while it runs.                                               *)

Reached(j, row) ==
    row.status = "pending" \/ \E p \in 1..3 : row.status = Phases[p] /\ p <= phase[j][row.no]

ShownOf(j) ==
    /\ pc[j] \in Before => \A i \in DOMAIN rows[j] : rows[j][i].status = "pending"
    /\ pc[j] \in During => \A i \in DOMAIN rows[j] : Reached(j, rows[j][i])

ShownInv == \A j \in Jobs : ShownOf(j)

LEMMA LineReaches ==
    ASSUME TypeOK, NEW j \in Jobs, Line(j), NEW row \in Row, Reached(j, row)
    PROVE  Reached(j, row)'
<1>1. CASE row.status = "pending"
  BY <1>1 DEF Reached
<1>2. CASE \E p \in 1..3 : row.status = Phases[p] /\ p <= phase[j][row.no]
  <2> PICK p \in 1..3 : row.status = Phases[p] /\ p <= phase[j][row.no]
    BY <1>2
  <2>1. phase[j] \in [1..Toc -> 0..3]
    BY DEF TypeOK
  <2>2. CASE phase' = phase
    BY <2>2 DEF Reached
  <2>3. ASSUME NEW n \in 1..Toc, phase' = [phase EXCEPT ![j][n] = @ + 1]
        PROVE  p <= phase'[j][row.no]
    <3>1. phase'[j] = [phase[j] EXCEPT ![n] = @ + 1]
      BY <2>3 DEF TypeOK
    <3>2. CASE row.no = n
      <4>1. phase'[j][row.no] = phase[j][n] + 1 /\ phase[j][n] \in 0..3
        BY <2>1, <3>1, <3>2
      <4> QED
        BY <3>2, <4>1
    <3>3. CASE row.no # n
      BY <2>1, <3>1, <3>3
    <3> QED
      BY <3>2, <3>3
  <2> QED
    BY <2>2, <2>3 DEF Line, Reached
<1> QED
  BY <1>1, <1>2 DEF Reached

LEMMA ShownSelf ==
    ASSUME TypeOK, TypeOK', ShownInv, NEW j \in Jobs, StepOf(j)
    PROVE  ShownOf(j)'
<1>1. /\ rows[j] \in Seq(Row) /\ rows'[j] \in Seq(Row) /\ listed[j] \in Seq(Nat)
      /\ phase[j] \in [1..Toc -> 0..3]
      /\ \A i \in DOMAIN rows[j] : rows[j][i] \in Row
  BY Places DEF TypeOK
<1>2. ShownOf(j)
  BY DEF ShownInv
<1> DEFINE Same == rows'[j] = rows[j] /\ phase'[j] = phase[j]
<1>3. ASSUME Same,
             \/ pc'[j] \in Before /\ pc[j] \in Before
             \/ pc'[j] \in During /\ pc[j] \in Before \cup During
             \/ pc'[j] \in After
      PROVE  ShownOf(j)'
  BY <1>2, <1>3 DEF ShownOf, Reached, Before, During, After
<1>4. CASE NoDiscId(j) \/ NoLookup(j) \/ GetDiscInfo(j) \/ Malformed(j) \/ Describe(j) \/ GetCdArt(j)
  <2>1. Same
    BY <1>4 DEF NoDiscId, NoLookup, GetDiscInfo, Malformed, Describe, GetCdArt, Process
  <2>2. pc[j] \in Before /\ pc'[j] \in Before \cup After
    BY <1>4 DEF NoDiscId, NoLookup, GetDiscInfo, Malformed, Describe, GetCdArt, Goto,
                Before, After, TypeOK
  <2> QED
    BY <1>3, <2>1, <2>2
<1>5. CASE Waited(j) \/ CleanWorkdirs(j) \/ Spawn(j) \/ SpawnFails(j)
  <2>1. Same
    BY <1>5 DEF Waited, CleanWorkdirs, Spawn, SpawnFails, Process
  <2>2. pc[j] \in Before
    BY <1>5 DEF Waited, CleanWorkdirs, Spawn, SpawnFails, Before
  <2>3. pc'[j] \in Before \cup During \cup After
    BY DEF TypeOK
  <2> QED
    BY <1>3, <2>1, <2>2, <2>3
<1>6. CASE End(j) \/ Stall(j) \/ Fail(j) \/ Done(j) \/ Upset(j)
  <2>1. Same
    BY <1>6 DEF End, Stall, Fail, Done, Upset, Process
  <2>2. (pc[j] \in During /\ pc'[j] \in During) \/ pc'[j] \in After
    BY <1>6 DEF End, Stall, Fail, Done, Upset, Goto, During, After, TypeOK
  <2> QED
    BY <1>3, <2>1, <2>2
<1>7. CASE Hang(j)
  <2>1. Same /\ pc'[j] = pc[j] /\ pc[j] \in Before \cup During \cup After
    BY <1>7 DEF Hang, TypeOK
  <2> QED
    BY <1>3, <2>1
<1>8. CASE Succeed(j) \/ FailTracks(j)
  <2>1. pc'[j] \in After
    BY <1>8 DEF Succeed, FailTracks, Goto, After, TypeOK
  <2> QED
    BY <2>1 DEF ShownOf, Before, During, After
<1>9. CASE SetJobTracks(j)
  <2>1. PICK n \in Listings : rows'[j] = [i \in 1..n |-> Fresh(i, "user")]
    BY <1>9 DEF SetJobTracks, SetRows, TypeOK
  <2>2. \A i \in DOMAIN rows'[j] : rows'[j][i].status = "pending"
    BY <2>1 DEF Fresh
  <2> QED
    BY <2>2 DEF ShownOf, Reached
<1>10. CASE DeleteJobTracks(j)
  <2>1. pc[j] \in Before /\ pc'[j] \in Before
    BY <1>10 DEF DeleteJobTracks, Goto, Before, TypeOK
  <2>2. CASE Same
    BY <1>3, <2>1, <2>2
  <2>3. CASE rows'[j] = << >>
    BY <2>1, <2>3 DEF ShownOf, Before, During
  <2> QED
    BY <1>10, <2>2, <2>3 DEF DeleteJobTracks, SetRows, Process, TypeOK
<1>11. CASE PutTrack(j) \/ PutTocTrack(j)
  <2>1. pc[j] \in Before /\ pc'[j] \in Before
    BY <1>11 DEF PutTrack, PutTocTrack, Goto, Before, TypeOK
  <2>2. CASE Same
    BY <1>3, <2>1, <2>2
  <2>3. ASSUME NEW from \in {"MusicBrainz", "TOC"}, listed[j] # << >>,
               rows'[j] = Append(rows[j], Fresh(Head(listed[j]), from))
        PROVE  ShownOf(j)'
    <3> DEFINE new == Fresh(Head(listed[j]), from)
    <3>1. new \in Row /\ new.status = "pending"
      BY <1>1, <2>3, HeadTailProperties DEF Fresh, Row, Origins
    <3> HIDE DEF new
    <3>2. \A i \in DOMAIN rows'[j] : rows'[j][i].status = "pending"
      BY <1>1, <1>2, <2>1, <2>3, <3>1, PutRow DEF ShownOf, new
    <3> QED
      BY <2>1, <3>2 DEF ShownOf, Before, During
  <2> QED
    BY <1>11, <2>2, <2>3 DEF PutTrack, PutTocTrack, SetRows, Process, TypeOK
<1>12. CASE Line(j)
  <2>1. rows'[j] = rows[j] /\ pc[j] \in During /\ pc'[j] \in During
    BY <1>12 DEF Line, Goto, During, TypeOK
  <2>2. \A i \in DOMAIN rows[j] : Reached(j, rows[j][i])
    BY <1>2, <2>1 DEF ShownOf
  <2>3. ASSUME NEW i \in DOMAIN rows[j] PROVE Reached(j, rows[j][i])'
    BY <1>1, <1>12, <2>1, <2>2, LineReaches DEF Reached
  <2> QED
    BY <2>1, <2>3 DEF ShownOf, Before, During
<1>13. CASE ApplyTrackPhases(j)
  <2>1. pc[j] \in During /\ pc'[j] \in During /\ phase'[j] = phase[j]
    BY <1>13 DEF ApplyTrackPhases, Goto, Process, During, TypeOK
  <2>2. CASE rows'[j] = rows[j]
    BY <1>3, <2>1, <2>2
  <2>3. CASE rows'[j] = [i \in DOMAIN rows[j] |-> Shown(j, rows[j][i])]
    <3>1. ASSUME NEW i \in DOMAIN rows[j] PROVE Reached(j, rows[j][i])'
      <4> DEFINE r == rows[j][i]
                 s == Shown(j, r)
      <4>1. r \in Row /\ Reached(j, r) /\ rows'[j][i] = s
        BY <1>1, <1>2, <2>1, <2>3 DEF ShownOf
      <4>2. s.no = r.no /\ (s.status = r.status
                            \/ \E p \in 1..3 : s.status = Phases[p] /\ p <= phase[j][r.no])
        BY <1>1, <4>1, ShownRow
      <4>3. Reached(j, s)
        <5> HIDE DEF s
        <5> QED
          BY <4>1, <4>2 DEF Reached
      <4> HIDE DEF s
      <4> QED
        BY <2>1, <4>1, <4>3 DEF Reached
    <3> QED
      BY <2>1, <2>3, <3>1 DEF ShownOf, Before, During
  <2> QED
    BY <1>13, <2>2, <2>3 DEF ApplyTrackPhases, SetRows, TypeOK
<1> QED
  BY <1>4, <1>5, <1>6, <1>7, <1>8, <1>9, <1>10, <1>11, <1>12, <1>13 DEF StepOf, Ripper

LEMMA ShownStep ==
    ASSUME TypeOK, TypeOK', ShownInv, NEW j \in Jobs, StepOf(j)
    PROVE  ShownInv'
<1>1. ShownOf(j)'
  BY ShownSelf
<1>2. ASSUME NEW k \in Jobs \ {j} PROVE ShownOf(k)'
  BY OthersStay DEF Others, ShownInv, ShownOf, Reached
<1>3. ASSUME NEW k \in Jobs PROVE ShownOf(k)'
  BY <1>1, <1>2
<1> QED
  BY <1>3 DEF ShownInv

-----------------------------------------------------------------------------
(* The verdict: a good rip marks its rows and is done, a bad one fails and  *)
(* marks them; between the two nobody's rows count but those of the user,   *)
(* who makes the job `late`.                                                *)

VerdictOf(j) ==
    /\ pc[j] = "succeeded" =>
         /\ abcde[j] = "ok" /\ ~erred[j]
         /\ ~late[j] => \A i \in DOMAIN rows[j] : rows[j][i].status = "success"
    /\ pc[j] = "failing" => status[j] = "failure" /\ ~Good(j)
    /\ pc[j] = "done" =>
         /\ status[j] \in {"success", "failure"}
         /\ status[j] = "success" => abcde[j] = "ok" /\ ~erred[j]
         /\ ~late[j] => \A i \in DOMAIN rows[j] :
               rows[j][i].status = IF Good(j) THEN "success" ELSE "failed"

VerdictInv == \A j \in Jobs : VerdictOf(j)

LEMMA VerdictSelf ==
    ASSUME TypeOK, TypeOK', VerdictInv, NEW j \in Jobs, StepOf(j)
    PROVE  VerdictOf(j)'
<1>1. rows[j] \in Seq(Row) /\ \A i \in DOMAIN rows[j] : rows[j][i] \in Row
  BY Places DEF TypeOK
<1>2. VerdictOf(j)
  BY DEF VerdictInv
<1>3. CASE NoDiscId(j) \/ Malformed(j) \/ SpawnFails(j)
  <2>1. pc'[j] = "done" /\ status'[j] = "failure" /\ late'[j]
    BY <1>3 DEF NoDiscId, Malformed, SpawnFails, Goto, SetStatus, TypeOK
  <2> QED
    BY <2>1 DEF VerdictOf
<1>4. CASE NoLookup(j) \/ DeleteJobTracks(j) \/ GetDiscInfo(j) \/ PutTrack(j) \/ Describe(j)
           \/ GetCdArt(j) \/ PutTocTrack(j) \/ Waited(j)
  <2>1. pc'[j] \in Before
    BY <1>4 DEF NoLookup, DeleteJobTracks, GetDiscInfo, PutTrack, Describe, GetCdArt,
                PutTocTrack, Waited, Goto, TypeOK, Before
  <2> QED
    BY <2>1 DEF VerdictOf, Before
<1>5. CASE CleanWorkdirs(j) \/ Spawn(j) \/ Line(j) \/ End(j) \/ ApplyTrackPhases(j) \/ Stall(j)
  <2>1. pc'[j] \in {"spawn", "stream", "apply", "last", "judge"}
    BY <1>5 DEF CleanWorkdirs, Spawn, Line, End, ApplyTrackPhases, Stall, Goto, TypeOK
  <2> QED
    BY <2>1 DEF VerdictOf
<1>6. CASE SetJobTracks(j)
  <2>1. /\ pc'[j] = pc[j] /\ status'[j] = status[j]
        /\ abcde'[j] = abcde[j] /\ erred'[j] = erred[j]
        /\ late'[j] = (pc[j] \in {"succeeded", "done"})
    BY <1>6 DEF SetJobTracks, Process, TypeOK
  <2> QED
    BY <1>2, <2>1 DEF VerdictOf, Good
<1>7. CASE Hang(j)
  <2>1. /\ pc'[j] = pc[j] /\ status'[j] = status[j] /\ rows'[j] = rows[j]
        /\ erred'[j] = erred[j] /\ late'[j] = late[j]
        /\ abcde[j] = "running" /\ abcde'[j] \in {"hung", "stuck"}
    BY <1>7 DEF Hang, History, TypeOK
  <2>2. Good(j) = FALSE /\ Good(j)' = FALSE
    BY <2>1 DEF Good
  <2> QED
    BY <1>2, <2>1, <2>2 DEF VerdictOf
<1>8. CASE Fail(j)
  <2>1. /\ status'[j] = "failure" /\ ~Good(j)'
        /\ pc'[j] = "failing" \/ (pc'[j] = "done" /\ late'[j])
    BY <1>8 DEF Fail, Good, Goto, SetStatus, Process, TypeOK
  <2> QED
    BY <2>1 DEF VerdictOf
<1>9. ASSUME NEW s \in {"success", "failed"}, UpdateMusicTracks(j, s)
      PROVE  ~late'[j] => \A i \in DOMAIN rows'[j] : rows'[j][i].status = s
  <2>1. CASE rows' = rows /\ late' = [late EXCEPT ![j] = TRUE]
    BY <2>1 DEF TypeOK
  <2>2. CASE rows'[j] = [i \in DOMAIN rows[j] |-> [rows[j][i] EXCEPT !.status = s]]
    BY <1>1, <2>2 DEF Row
  <2> QED
    BY <1>9, <2>1, <2>2 DEF UpdateMusicTracks, SetRows, TypeOK
<1>10. CASE Succeed(j)
  <2>1. /\ pc'[j] = "succeeded"
        /\ abcde'[j] = "ok" /\ ~erred'[j]
        /\ UpdateMusicTracks(j, "success")
    BY <1>10 DEF Succeed, Good, Goto, Process, TypeOK
  <2> QED
    BY <1>9, <2>1 DEF VerdictOf
<1>11. CASE Done(j) \/ Upset(j)
  <2>1. /\ pc[j] = "succeeded" /\ pc'[j] = "done" /\ status'[j] \in {"success", "failure"}
        /\ abcde'[j] = abcde[j] /\ erred'[j] = erred[j]
        /\ rows'[j] = rows[j] /\ late'[j] = late[j]
    BY <1>11 DEF Done, Upset, Goto, SetStatus, Process, History, TypeOK
  <2> QED
    BY <1>2, <2>1 DEF VerdictOf, Good
<1>12. CASE FailTracks(j)
  <2>1. /\ pc[j] = "failing" /\ pc'[j] = "done" /\ status'[j] = status[j]
        /\ UpdateMusicTracks(j, "failed")
        /\ abcde'[j] = abcde[j] /\ erred'[j] = erred[j]
    BY <1>12 DEF FailTracks, Goto, Process, TypeOK
  <2> QED
    BY <1>2, <1>9, <2>1 DEF VerdictOf, Good
<1> QED
  BY <1>3, <1>4, <1>5, <1>6, <1>7, <1>8, <1>10, <1>11, <1>12 DEF StepOf, Ripper

LEMMA VerdictStep ==
    ASSUME TypeOK, TypeOK', VerdictInv, NEW j \in Jobs, StepOf(j)
    PROVE  VerdictInv'
<1>1. VerdictOf(j)'
  BY VerdictSelf
<1>2. ASSUME NEW k \in Jobs \ {j} PROVE VerdictOf(k)'
  BY OthersStay DEF Others, VerdictInv, VerdictOf, Good
<1>3. ASSUME NEW k \in Jobs PROVE VerdictOf(k)'
  BY <1>1, <1>2
<1> QED
  BY <1>3 DEF VerdictInv

-----------------------------------------------------------------------------
(* Where the rows come from. Unless rows of somebody else's are among them  *)
(* (`mixed`), they are numbered as they were put, and what is still listed  *)
(* goes on from there.                                                      *)

Putting == {"lookup", "ask", "put", "toc", "putToc"}

SourceOf(j) == ~mixed[j] =>
    /\ \A a \in DOMAIN rows[j] : rows[j][a].no = a
    /\ pc[j] \in {"ask", "toc"} => rows[j] = << >>
    /\ pc[j] \in {"put", "putToc"} =>
         \A b \in DOMAIN listed[j] : listed[j][b] = Len(rows[j]) + b
    /\ pc[j] = "lookup" => \A a \in DOMAIN rows[j] : rows[j][a].source = "user"
    /\ pc[j] = "put" => \A a \in DOMAIN rows[j] : rows[j][a].source = "MusicBrainz"
    /\ pc[j] = "putToc" => \A a \in DOMAIN rows[j] : rows[j][a].source = "TOC"
    /\ pc[j] \notin Putting \cup {"done"} =>
         \E from \in Origins :
            /\ \A a \in DOMAIN rows[j] : rows[j][a].source = from
            /\ from = "MusicBrainz" => named[j]

SourceInv == \A j \in Jobs : SourceOf(j)

(* A step that leaves the rows and where they come from alone.              *)
LEMMA SourceKept ==
    ASSUME TypeOK, NEW j \in Jobs, SourceOf(j), mixed'[j] = mixed[j],
           DOMAIN rows'[j] = DOMAIN rows[j],
           \A a \in DOMAIN rows[j] : rows'[j][a].no = rows[j][a].no
                                     /\ rows'[j][a].source = rows[j][a].source,
           pc[j] \notin Putting \cup {"done"}, pc'[j] \notin Putting, named'[j] = named[j]
    PROVE  SourceOf(j)'
BY DEF SourceOf, Putting

LEMMA SourceSelf ==
    ASSUME TypeOK, TypeOK', SourceInv, NEW j \in Jobs, StepOf(j)
    PROVE  SourceOf(j)'
<1>1. /\ rows[j] \in Seq(Row) /\ rows'[j] \in Seq(Row) /\ listed[j] \in Seq(Nat)
      /\ phase[j] \in [1..Toc -> 0..3]
      /\ \A i \in DOMAIN rows[j] : rows[j][i] \in Row
      /\ Len(rows[j]) \in Nat /\ DOMAIN rows[j] = 1..Len(rows[j])
  BY Places DEF TypeOK
<1>2. SourceOf(j)
  BY DEF SourceInv
<1>3. CASE NoDiscId(j) \/ Malformed(j)
  <2>1. pc'[j] = "done" /\ rows'[j] = rows[j] /\ mixed'[j] = mixed[j]
    BY <1>3 DEF NoDiscId, Malformed, Goto, TypeOK
  <2> QED
    BY <1>2, <2>1 DEF SourceOf, Putting
<1>4. CASE NoLookup(j)
  <2>1. /\ pc[j] = "lookup" /\ pc'[j] = "wait" /\ rows'[j] = rows[j] /\ mixed'[j] = mixed[j]
        /\ named'[j] = named[j]
    BY <1>4 DEF NoLookup, Goto, History, TypeOK
  <2>2. "user" \in Origins /\ "user" # "MusicBrainz"
    BY DEF Origins
  <2> QED
    BY <1>2, <2>1, <2>2 DEF SourceOf, Putting
<1>5. CASE DeleteJobTracks(j)
  <2>1. /\ \/ pc'[j] = "ask"
           \/ pc'[j] = "putToc" /\ listed'[j] = Tracks(Toc)
        /\ ~mixed'[j] => rows'[j] = << >>
    BY <1>5 DEF DeleteJobTracks, Goto, SetRows, TypeOK
  <2>2. \A b \in DOMAIN Tracks(Toc) : Tracks(Toc)[b] = 0 + b
    BY MusicRipAssumption DEF Tracks
  <2> QED
    BY <2>1, <2>2 DEF SourceOf, Putting
<1>6. CASE GetDiscInfo(j)
  <2>1. /\ pc[j] = "ask" /\ rows'[j] = rows[j] /\ mixed'[j] = mixed[j]
        /\ \/ pc'[j] = "toc"
           \/ pc'[j] = "put" /\ \E n \in Listings : listed'[j] = Tracks(n)
    BY <1>6 DEF GetDiscInfo, Goto, History, TypeOK
  <2>2. \A n \in Listings : \A b \in DOMAIN Tracks(n) : Tracks(n)[b] = 0 + b
    BY MusicRipAssumption DEF Tracks
  <2> QED
    BY <1>2, <2>1, <2>2 DEF SourceOf, Putting
<1>7. CASE Describe(j)
  <2>1. /\ pc[j] = "put" /\ pc'[j] \in {"art", "wait"} /\ rows'[j] = rows[j]
        /\ mixed'[j] = mixed[j] /\ named'[j]
    BY <1>7 DEF Describe, Goto, History, TypeOK
  <2>2. "MusicBrainz" \in Origins
    BY DEF Origins
  <2> QED
    BY <1>2, <2>1, <2>2 DEF SourceOf, Putting
<1>8. CASE SetJobTracks(j)
  <2>1. PICK n \in Listings : rows'[j] = [i \in 1..n |-> Fresh(i, "user")]
    BY <1>8 DEF SetJobTracks, SetRows, TypeOK
  <2>2. pc'[j] = pc[j] /\ mixed'[j] = (pc[j] \in {"ask", "put", "toc", "putToc"})
    BY <1>8 DEF SetJobTracks, TypeOK
  <2>3. "user" \in Origins /\ "user" # "MusicBrainz"
    BY DEF Origins
  <2>4. \A a \in DOMAIN rows'[j] : rows'[j][a].no = a /\ rows'[j][a].source = "user"
    BY <2>1 DEF Fresh
  <2> QED
    BY <2>2, <2>3, <2>4 DEF SourceOf, Putting
<1>9. ASSUME NEW from \in {"MusicBrainz", "TOC"}, listed[j] # << >>,
             rows'[j] = Append(rows[j], Fresh(Head(listed[j]), from)),
             listed'[j] = Tail(listed[j]), mixed'[j] = mixed[j], pc'[j] = pc[j],
             pc[j] = IF from = "TOC" THEN "putToc" ELSE "put"
      PROVE  SourceOf(j)'
  <2> SUFFICES ASSUME ~mixed[j]
               PROVE  /\ \A a \in DOMAIN rows'[j] : rows'[j][a].no = a /\ rows'[j][a].source = from
                      /\ \A b \in DOMAIN listed'[j] : listed'[j][b] = Len(rows'[j]) + b
    BY <1>9 DEF SourceOf, Putting
  <2> DEFINE new == Fresh(Head(listed[j]), from)
             n == Len(rows[j])
  <2>1. new \in Row /\ new.source = from /\ new.no = Head(listed[j])
    BY <1>1, <1>9, HeadTailProperties DEF Fresh, Row, Origins
  <2>2. /\ Len(listed[j]) \in Nat \ {0} /\ DOMAIN listed[j] = 1..Len(listed[j])
        /\ Head(listed[j]) = listed[j][1]
        /\ Len(listed'[j]) = Len(listed[j]) - 1 /\ DOMAIN listed'[j] = 1..Len(listed'[j])
        /\ \A b \in 1..Len(listed'[j]) : listed'[j][b] = listed[j][b + 1]
    BY <1>1, <1>9, HeadTailProperties, EmptySeq, LenProperties
  <2>3. \A b \in DOMAIN listed[j] : listed[j][b] = n + b
    BY <1>2, <1>9 DEF SourceOf
  <2>4. new.no = n + 1
    BY <2>1, <2>2, <2>3
  <2>5. /\ DOMAIN rows'[j] = DOMAIN rows[j] \cup {n + 1} /\ Len(rows'[j]) = n + 1
        /\ \A a \in DOMAIN rows[j] : rows'[j][a] = rows[j][a]
        /\ rows'[j][n + 1] = new
    BY <1>1, <1>9, <2>1, PutRow
  <2>6. \A a \in DOMAIN rows[j] : rows[j][a].no = a /\ rows[j][a].source = from
    BY <1>2, <1>9 DEF SourceOf
  <2>7. \A b \in DOMAIN listed'[j] : listed'[j][b] = Len(rows'[j]) + b
    <3> SUFFICES ASSUME NEW b \in 1..Len(listed'[j])
                 PROVE  listed'[j][b] = Len(rows'[j]) + b
      BY <2>2
    <3>1. b + 1 \in 1..Len(listed[j]) /\ b \in Nat
      BY <2>2
    <3>2. listed'[j][b] = n + (b + 1)
      BY <2>2, <2>3, <3>1
    <3>3. Len(rows'[j]) = n + 1 /\ n \in Nat
      BY <1>1, <2>5
    <3> HIDE DEF n
    <3> QED
      BY <3>1, <3>2, <3>3
  <2> HIDE DEF new
  <2> QED
    BY <2>1, <2>4, <2>5, <2>6, <2>7
<1>10. CASE PutTrack(j)
  BY <1>9, <1>10 DEF PutTrack, SetRows, History, TypeOK
<1>11. CASE PutTocTrack(j)
  <2>1. CASE listed[j] # << >> /\ listed'[j] = Tail(listed[j]) /\ pc'[j] = pc[j]
             /\ rows'[j] = Append(rows[j], Fresh(Head(listed[j]), "TOC"))
    BY <1>9, <1>11, <2>1 DEF PutTocTrack, History, TypeOK
  <2>2. CASE pc'[j] = "wait" /\ rows'[j] = rows[j]
    <3>1. pc[j] = "putToc" /\ mixed'[j] = mixed[j] /\ "TOC" \in Origins /\ "TOC" # "MusicBrainz"
      BY <1>11 DEF PutTocTrack, History, Origins
    <3> QED
      BY <1>2, <2>2, <3>1 DEF SourceOf, Putting
  <2> QED
    BY <1>11, <2>1, <2>2 DEF PutTocTrack, Goto, SetRows, TypeOK
<1>12. CASE GetCdArt(j) \/ Waited(j) \/ CleanWorkdirs(j) \/ Spawn(j) \/ SpawnFails(j)
  <2>1. /\ rows'[j] = rows[j] /\ mixed'[j] = mixed[j] /\ named'[j] = named[j]
        /\ pc[j] \in {"art", "wait", "clean", "spawn"}
        /\ pc'[j] \in {"wait", "clean", "spawn", "stream", "done"}
    BY <1>12 DEF GetCdArt, Waited, CleanWorkdirs, Spawn, SpawnFails, Goto, History, TypeOK
  <2> QED
    BY <1>2, <2>1, SourceKept DEF Putting
<1>13. CASE Line(j) \/ End(j) \/ Stall(j) \/ Done(j) \/ Upset(j) \/ Fail(j)
  <2>1. /\ rows'[j] = rows[j] /\ mixed'[j] = mixed[j] /\ named'[j] = named[j]
        /\ pc[j] \in {"stream", "judge", "succeeded"}
        /\ pc'[j] \in {"stream", "apply", "last", "judge", "failing", "done"}
    BY <1>13 DEF Line, End, Stall, Done, Upset, Fail, Goto, History, TypeOK
  <2> QED
    BY <1>2, <2>1, SourceKept DEF Putting
<1>14. CASE Hang(j)
  <2>1. /\ rows'[j] = rows[j] /\ mixed'[j] = mixed[j] /\ named'[j] = named[j]
        /\ pc'[j] = pc[j] /\ listed'[j] = listed[j]
    BY <1>14 DEF Hang, History
  <2> QED
    BY <1>2, <2>1 DEF SourceOf
<1>15. CASE ApplyTrackPhases(j)
  <2>1. /\ mixed'[j] = mixed[j] /\ named'[j] = named[j]
        /\ pc[j] \in {"apply", "last"} /\ pc'[j] \in {"stream", "judge"}
    BY <1>15 DEF ApplyTrackPhases, Goto, History, TypeOK
  <2>2. CASE rows'[j] = rows[j]
    BY <1>2, <2>1, <2>2, SourceKept DEF Putting
  <2>3. CASE rows'[j] = [i \in DOMAIN rows[j] |-> Shown(j, rows[j][i])]
    <3>1. \A a \in DOMAIN rows[j] : /\ Shown(j, rows[j][a]).no = rows[j][a].no
                                    /\ Shown(j, rows[j][a]).source = rows[j][a].source
      BY <1>1, ShownRow
    <3> QED
      BY <1>2, <2>1, <2>3, <3>1, SourceKept DEF Putting
  <2> QED
    BY <1>15, <2>2, <2>3 DEF ApplyTrackPhases, SetRows, TypeOK
<1>16. CASE Succeed(j) \/ FailTracks(j)
  <2>1. /\ mixed'[j] = mixed[j] /\ named'[j] = named[j]
        /\ pc[j] \in {"judge", "failing"} /\ pc'[j] \in {"succeeded", "done"}
    BY <1>16 DEF Succeed, FailTracks, Goto, TypeOK
  <2>2. CASE rows'[j] = rows[j]
    BY <1>2, <2>1, <2>2, SourceKept DEF Putting
  <2>3. ASSUME NEW s \in {"success", "failed"},
               rows'[j] = [i \in DOMAIN rows[j] |-> [rows[j][i] EXCEPT !.status = s]]
        PROVE  SourceOf(j)'
    <3>1. \A a \in DOMAIN rows[j] : /\ rows'[j][a].no = rows[j][a].no
                                    /\ rows'[j][a].source = rows[j][a].source
      BY <1>1, <2>3 DEF Row
    <3> QED
      BY <1>2, <2>1, <2>3, <3>1, SourceKept DEF Putting
  <2> QED
    BY <1>16, <2>2, <2>3 DEF Succeed, FailTracks, UpdateMusicTracks, SetRows, TypeOK
<1> QED
  BY <1>3, <1>4, <1>5, <1>6, <1>7, <1>8, <1>10, <1>11, <1>12, <1>13, <1>14, <1>15, <1>16
  DEF StepOf, Ripper

LEMMA SourceStep ==
    ASSUME TypeOK, TypeOK', SourceInv, NEW j \in Jobs, StepOf(j)
    PROVE  SourceInv'
<1>1. SourceOf(j)'
  BY SourceSelf
<1>2. ASSUME NEW k \in Jobs \ {j} PROVE SourceOf(k)'
  BY OthersStay DEF Others, SourceInv, SourceOf
<1>3. ASSUME NEW k \in Jobs PROVE SourceOf(k)'
  BY <1>1, <1>2
<1> QED
  BY <1>3 DEF SourceInv

-----------------------------------------------------------------------------
(* All of it.                                                               *)

MusicInv == TypeOK /\ ShownInv /\ VerdictInv /\ SourceInv

LEMMA MusicInit == Init => MusicInv
<1> SUFFICES ASSUME Init PROVE MusicInv
  OBVIOUS
<1>1. << >> \in Seq(Row) /\ << >> \in Seq(Nat)
  OBVIOUS
<1>2. TypeOK
  BY <1>1 DEF Init, TypeOK, Before
<1>3. ASSUME NEW j \in Jobs PROVE ShownOf(j) /\ VerdictOf(j) /\ SourceOf(j)
  <2>1. pc[j] = "lookup" /\ rows[j] = << >>
    BY DEF Init
  <2> QED
    BY <2>1 DEF ShownOf, VerdictOf, SourceOf, During, Putting
<1> QED
  BY <1>2, <1>3 DEF MusicInv, ShownInv, VerdictInv, SourceInv

LEMMA MusicStep == MusicInv /\ [Next]_vars => MusicInv'
<1> SUFFICES ASSUME MusicInv, [Next]_vars PROVE MusicInv'
  OBVIOUS
<1>1. CASE Next
  <2> PICK j \in Jobs : StepOf(j)
    BY <1>1 DEF Next, StepOf
  <2>1. TypeOK'
    BY TypeStep DEF MusicInv
  <2> QED
    BY <2>1, ShownStep, VerdictStep, SourceStep DEF MusicInv
<1>2. CASE UNCHANGED vars
  <2>1. TypeOK'
    BY <1>2 DEF MusicInv, TypeOK, vars
  <2>2. \A j \in Jobs : ShownOf(j)' /\ VerdictOf(j)' /\ SourceOf(j)'
    BY <1>2 DEF MusicInv, ShownInv, VerdictInv, SourceInv, ShownOf, VerdictOf, SourceOf,
                Reached, Good, vars
  <2> QED
    BY <2>1, <2>2 DEF MusicInv, ShownInv, VerdictInv, SourceInv
<1> QED
  BY <1>1, <1>2

LEMMA MusicInvariant == Spec => []MusicInv
BY MusicInit, MusicStep, PTL DEF Spec

-----------------------------------------------------------------------------
(* However long a disc is, whatever abcde prints and whatever writes fail:   *)
(* what a ripper that dies on the way leaves in its rows is never ahead of   *)
(* abcde (utils.py _apply_track_phases).                                     *)
THEOREM RowsShownTruly == Spec => []ShownTruly
<1>1. MusicInv => ShownTruly
  BY DEF MusicInv, ShownInv, ShownOf, Reached, ShownTruly, During
<1> QED
  BY <1>1, MusicInvariant, PTL

(* A music job says success only of a rip that was one; and whatever raises   *)
(* on the way to the job's verdict, the rows say what the rip was unless they *)
(* could not be written or the user set them afterwards (utils.py rip_music,  *)
(* _update_music_tracks; main.py).                                           *)
THEOREM MusicVerdictTrue == Spec => []VerdictTrue
<1>1. MusicInv => VerdictTrue
  BY DEF MusicInv, VerdictInv, VerdictOf, VerdictTrue, Good
<1> QED
  BY <1>1, MusicInvariant, PTL

(* From the wait for the user on, a disc's rows are one list of tracks, each *)
(* once and all from one source, with the album's title if that is           *)
(* MusicBrainz (music_brainz.py).                                            *)
THEOREM RowsOfOneSource == Spec => []OneSource
<1>1. SourceInv => OneSource
  <2> SUFFICES ASSUME SourceInv, NEW j \in Jobs, ~mixed[j],
                      pc[j] \notin {"lookup", "ask", "put", "toc", "putToc", "done"}
               PROVE  /\ \A a, b \in DOMAIN rows[j] :
                           /\ rows[j][a].no = rows[j][b].no => a = b
                           /\ rows[j][a].source = rows[j][b].source
                      /\ \A a \in DOMAIN rows[j] : rows[j][a].source = "MusicBrainz" => named[j]
    BY DEF OneSource
  <2> QED
    BY DEF SourceInv, SourceOf, Putting
<1> QED
  BY <1>1, MusicInvariant, PTL DEF MusicInv
=============================================================================
