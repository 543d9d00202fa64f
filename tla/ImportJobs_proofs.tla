-------------------------- MODULE ImportJobs_proofs --------------------------
(***************************************************************************)
(* Attended, RippedFirst and OnePerSource for any sources, ids and number   *)
(* of calls.                                                                *)
(*                                                                          *)
(* Attended needs nothing but the types: every thing under way either goes  *)
(* on, and still works for its job, or ends by writing a status that is not *)
(* a working one, or has forsaken the job, which stays so until somebody    *)
(* writes its status. RippedFirst needs to know what a thread that is about to  *)
(* hand a job over has done before.                                         *)
(***************************************************************************)
EXTENDS ImportJobs, TLAPS

HandsOverRipped ==
    \A i \in Ids : HasRow(i) /\ busy[<<"hand off", i>>] > 0 => job[i].ripped \/ job[i].reused

ImportInv == TypeOK /\ Attended /\ RippedFirst /\ HandsOverRipped

LEMMA RowsAreRows == \A r \in Rows : r # NoRow
<1>1. \A r \in Rows : r.status \in Status
  BY DEF Rows
<1>2. NoRow.status = "no row" /\ "no row" \notin Status
  BY DEF NoRow, Status, Finished, Waiting, Working
<1>3. QED
  BY <1>1, <1>2

(* Of what is under way, Move and End change what they name, and no more.   *)
LEMMA MoveKeeps ==
    ASSUME TypeOK, NEW a \in Activities, NEW b \in Activities, a # b, Move(a, b)
    PROVE  /\ busy' \in [Activities -> Nat]
           /\ busy'[b] > 0
           /\ \A x \in Activities : x # b /\ busy'[x] > 0 => busy[x] > 0
           /\ \A x \in Activities : x # a /\ busy[x] > 0 => busy'[x] > 0
<1>1. busy \in [Activities -> Nat] /\ busy[a] > 0
  BY DEF TypeOK, Move
<1>2. busy' = [busy EXCEPT ![a] = @ - 1, ![b] = @ + 1]
  BY DEF Move
<1>3. \A x \in Activities :
        busy'[x] = IF x = b THEN busy[x] + 1 ELSE IF x = a THEN busy[x] - 1 ELSE busy[x]
  BY <1>1, <1>2
<1>4. \A x \in Activities : busy[x] \in Nat
  BY <1>1
<1>5. \A x \in Activities : busy'[x] \in Nat
  BY <1>1, <1>3, <1>4
<1>6. busy' \in [Activities -> Nat]
  BY <1>1, <1>2, <1>5
<1>7. QED
  BY <1>1, <1>3, <1>4, <1>6

LEMMA EndKeeps ==
    ASSUME TypeOK, NEW a \in Activities, End(a)
    PROVE  /\ busy' \in [Activities -> Nat]
           /\ \A x \in Activities : busy'[x] > 0 => busy[x] > 0
           /\ \A x \in Activities : x # a => busy'[x] = busy[x]
<1>1. busy \in [Activities -> Nat] /\ busy[a] > 0
  BY DEF TypeOK, End
<1>2. busy' = [busy EXCEPT ![a] = @ - 1]
  BY DEF End
<1>3. \A x \in Activities : busy'[x] = IF x = a THEN busy[x] - 1 ELSE busy[x]
  BY <1>1, <1>2
<1>4. \A x \in Activities : busy[x] \in Nat /\ busy'[x] \in Nat
  BY <1>1, <1>3
<1>5. busy' \in [Activities -> Nat]
  BY <1>1, <1>2, <1>4
<1>6. QED
  BY <1>1, <1>3, <1>4, <1>5

LEMMA BeginKeeps ==
    ASSUME TypeOK, NEW a \in Activities, Begin(a)
    PROVE  /\ busy' \in [Activities -> Nat]
           /\ \A x \in Activities : busy[x] > 0 => busy'[x] > 0
           /\ \A x \in Activities : x # a => busy'[x] = busy[x]
<1>1. busy \in [Activities -> Nat]
  BY DEF TypeOK
<1>2. busy' = [busy EXCEPT ![a] = @ + 1]
  BY DEF Begin
<1>3. \A x \in Activities : busy'[x] = IF x = a THEN busy[x] + 1 ELSE busy[x]
  BY <1>1, <1>2
<1>4. \A x \in Activities : busy[x] \in Nat
  BY <1>1
<1>5. \A x \in Activities : busy'[x] \in Nat
  BY <1>3, <1>4
<1>6. busy' \in [Activities -> Nat]
  BY <1>1, <1>2, <1>5
<1>7. QED
  BY <1>3, <1>4, <1>6

LEMMA Places ==
    /\ \A i \in Ids : \A p \in Calls \cup Threads : <<p, i>> \in Activities
    /\ \A s \in Sources : <<"create", s>> \in Activities
    /\ Workers \subseteq Calls \cup Threads
    /\ "create" \notin Calls \cup Threads
BY DEF Activities, Calls, Threads, Workers

(* Writing a status.                                                        *)
LEMMA WriteKeeps ==
    ASSUME TypeOK, NEW i \in Ids, HasRow(i), NEW s \in Status, Write(i, s)
    PROVE  /\ job' \in [Ids -> Rows \cup {NoRow}]
           /\ \A k \in Ids : k # i => job'[k] = job[k]
           /\ job'[i] \in Rows
           /\ job'[i] = [job[i] EXCEPT !.status = s]
BY DEF TypeOK, HasRow, Write, Rows

(* Of the jobs that were forsaken only i's may not be any more.             *)
Noted(i) ==
    /\ forsaken' \subseteq Ids /\ twice' \subseteq Ids
    /\ \A k \in Ids \ {i} : k \in forsaken => k \in forsaken'

-----------------------------------------------------------------------------
(* The kinds of steps.                                                      *)

(* Something under way for i goes on, without a write of the row.           *)
LEMMA MoveStep ==
    ASSUME ImportInv, NEW i \in Ids, NEW p \in Calls \cup Threads, NEW q \in Workers,
           p # q, q # "hand off", Move(<<p, i>>, <<q, i>>), job' = job, disk' = disk,
           UNCHANGED history
    PROVE  ImportInv'
<1> DEFINE a == <<p, i>>
           b == <<q, i>>
<1>1. a \in Activities /\ b \in Activities /\ a # b
  BY Places
<1>2. /\ busy' \in [Activities -> Nat]
      /\ busy'[b] > 0
      /\ \A x \in Activities : x # b /\ busy'[x] > 0 => busy[x] > 0
      /\ \A x \in Activities : x # a /\ busy[x] > 0 => busy'[x] > 0
  BY <1>1, MoveKeeps DEF ImportInv
<1>3. TypeOK'
  BY <1>2 DEF ImportInv, TypeOK, history
<1>4. Attended'
  <2> SUFFICES ASSUME NEW k \in Ids, HasRow(k), job[k].status \in Working, k \notin forsaken
               PROVE  Doing(k, Workers)'
    BY DEF Attended, HasRow, history
  <2>1. PICK w \in Workers : busy[<<w, k>>] > 0
    BY DEF ImportInv, Attended, Doing
  <2>2. CASE <<w, k>> = a
    BY <2>2, <1>2 DEF Doing
  <2>3. CASE <<w, k>> # a
    <3>1. <<w, k>> \in Activities
      BY Places
    <3>2. busy'[<<w, k>>] > 0
      BY <2>1, <2>3, <3>1, <1>2
    <3>3. QED
      BY <3>2 DEF Doing
  <2>4. QED
    BY <2>2, <2>3
<1>5. RippedFirst'
  BY DEF ImportInv, RippedFirst, HasRow
<1>6. HandsOverRipped'
  <2>1. \A k \in Ids : busy'[<<"hand off", k>>] > 0 => busy[<<"hand off", k>>] > 0
    <3> SUFFICES ASSUME NEW k \in Ids, busy'[<<"hand off", k>>] > 0
                 PROVE  busy[<<"hand off", k>>] > 0
      OBVIOUS
    <3>1. <<"hand off", k>> \in Activities /\ <<"hand off", k>> # b
      BY Places DEF Threads
    <3>2. QED
      BY <3>1, <1>2
  <2>2. QED
    BY <2>1 DEF ImportInv, HandsOverRipped, HasRow
<1>7. QED
  BY <1>3, <1>4, <1>5, <1>6 DEF ImportInv

(* A call begins.                                                           *)
LEMMA BeginStep ==
    ASSUME ImportInv, NEW a \in Activities, \A k \in Ids : a # <<"hand off", k>>,
           Begin(a), job' = job, disk' = disk, forsaken' = forsaken, twice' \subseteq Ids
    PROVE  ImportInv'
<1>1. /\ busy' \in [Activities -> Nat]
      /\ \A x \in Activities : busy[x] > 0 => busy'[x] > 0
      /\ \A x \in Activities : x # a => busy'[x] = busy[x]
  BY BeginKeeps DEF ImportInv
<1>2. TypeOK'
  BY <1>1 DEF ImportInv, TypeOK
<1>3. Attended'
  BY <1>1, Places DEF ImportInv, Attended, HasRow, Doing
<1>4. RippedFirst'
  BY DEF ImportInv, RippedFirst, HasRow
<1>5. \A k \in Ids : busy'[<<"hand off", k>>] = busy[<<"hand off", k>>]
  BY <1>1, Places DEF Threads
<1>6. HandsOverRipped'
  BY <1>5 DEF ImportInv, HandsOverRipped, HasRow
<1>7. QED
  BY <1>2, <1>3, <1>4, <1>6 DEF ImportInv

(* Something under way for i goes on and writes its row: a row handed over   *)
(* was ripped, and none is taken for ripped that was not.                    *)
LEMMA RowStep ==
    ASSUME ImportInv, NEW i \in Ids, NEW p \in Calls \cup Threads, NEW q \in Workers,
           p # q, Move(<<p, i>>, <<q, i>>), HasRow(i), disk' = disk,
           NEW r \in Rows, job' = [job EXCEPT ![i] = r],
           r.reused = job[i].reused, job[i].ripped => r.ripped,
           q = "hand off" => r.ripped,
           r.status \in {"SUCCESS", "TRANSCODE_WAITING"} => r.status = job[i].status,
           Noted(i)
    PROVE  ImportInv'
<1> DEFINE a == <<p, i>>
           b == <<q, i>>
<1>1. a \in Activities /\ b \in Activities /\ a # b
  BY Places
<1>2. /\ busy' \in [Activities -> Nat]
      /\ busy'[b] > 0
      /\ \A x \in Activities : x # b /\ busy'[x] > 0 => busy[x] > 0
      /\ \A x \in Activities : x # a /\ busy[x] > 0 => busy'[x] > 0
  BY <1>1, MoveKeeps DEF ImportInv
<1>3. /\ job' \in [Ids -> Rows \cup {NoRow}]
      /\ job'[i] = r
      /\ \A k \in Ids : k # i => job'[k] = job[k]
  BY DEF ImportInv, TypeOK
<1>4. TypeOK'
  BY <1>2, <1>3 DEF ImportInv, TypeOK, Noted
<1>5. Attended'
  <2> SUFFICES ASSUME NEW k \in Ids, HasRow(k)', job'[k].status \in Working, k \notin forsaken'
               PROVE  Doing(k, Workers)'
    BY DEF Attended
  <2>1. CASE k = i
    BY <2>1, <1>2 DEF Doing
  <2>2. CASE k # i
    <3>1. PICK w \in Workers : busy[<<w, k>>] > 0
      BY <2>2, <1>3 DEF ImportInv, Attended, Doing, HasRow, Noted
    <3>2. <<w, k>> \in Activities /\ <<w, k>> # a
      BY <2>2, Places
    <3>3. QED
      BY <3>1, <3>2, <1>2 DEF Doing
  <2>3. QED
    BY <2>1, <2>2
<1>6. RippedFirst'
  BY <1>3 DEF ImportInv, RippedFirst, HasRow
<1>7. HandsOverRipped'
  <2> SUFFICES ASSUME NEW k \in Ids, HasRow(k)', busy'[<<"hand off", k>>] > 0
               PROVE  job'[k].ripped \/ job'[k].reused
    BY DEF HandsOverRipped
  <2>1. <<"hand off", k>> \in Activities
    BY Places DEF Threads
  <2>2. CASE <<"hand off", k>> = b
    BY <2>2, <1>3
  <2>3. CASE <<"hand off", k>> # b
    <3>1. busy[<<"hand off", k>>] > 0
      BY <2>1, <2>3, <1>2
    <3>2. CASE k = i
      BY <3>1, <3>2, <1>3 DEF ImportInv, HandsOverRipped
    <3>3. CASE k # i
      BY <3>1, <3>3, <1>3 DEF ImportInv, HandsOverRipped, HasRow
    <3>4. QED
      BY <3>2, <3>3
  <2>4. QED
    BY <2>2, <2>3
<1>8. QED
  BY <1>4, <1>5, <1>6, <1>7 DEF ImportInv

(* A row gets a status that nobody has to attend to; what did it, if it was  *)
(* under way, ends.                                                          *)
LEMMA WriteStep ==
    ASSUME ImportInv, NEW i \in Ids, HasRow(i), NEW s \in Status \ Working, Write(i, s),
           \/ busy' = busy
           \/ \E p \in Calls \cup Threads : End(<<p, i>>),
           s \in {"SUCCESS", "TRANSCODE_WAITING"} =>
             \/ busy[<<"hand off", i>>] > 0
             \/ job[i].status = "TRANSCODE_WAITING",
           disk' = disk
    PROVE  ImportInv'
<1> DEFINE Fewer ==
      /\ busy' \in [Activities -> Nat]
      /\ \A k \in Ids, p \in Calls \cup Threads : busy'[<<p, k>>] > 0 => busy[<<p, k>>] > 0
      /\ \A k \in Ids, p \in Calls \cup Threads : k # i => busy'[<<p, k>>] = busy[<<p, k>>]
<1>1. Fewer
  <2>1. CASE busy' = busy
    BY <2>1 DEF ImportInv, TypeOK
  <2>2. ASSUME NEW p \in Calls \cup Threads, End(<<p, i>>)
        PROVE  Fewer
    BY <2>2, EndKeeps, Places DEF ImportInv
  <2>3. QED
    BY <2>1, <2>2
<1>2. /\ job' \in [Ids -> Rows \cup {NoRow}]
      /\ \A k \in Ids : k # i => job'[k] = job[k]
      /\ job'[i] = [job[i] EXCEPT !.status = s]
      /\ job[i] \in Rows
  BY WriteKeeps DEF ImportInv, TypeOK, HasRow
<1>3. /\ job'[i].status = s
      /\ job'[i].ripped = job[i].ripped
      /\ job'[i].reused = job[i].reused
  BY <1>2 DEF Rows
<1>9. Noted(i)
  BY DEF Write, Noted, ImportInv, TypeOK
<1>4. TypeOK'
  BY <1>1, <1>2, <1>9 DEF ImportInv, TypeOK, Noted
<1>5. Attended'
  <2> SUFFICES ASSUME NEW k \in Ids, HasRow(k)', job'[k].status \in Working, k \notin forsaken'
               PROVE  Doing(k, Workers)'
    BY DEF Attended
  <2>1. k # i
    BY <1>3
  <2>2. PICK w \in Workers : busy[<<w, k>>] > 0
    BY <2>1, <1>2, <1>9 DEF ImportInv, Attended, Doing, HasRow, Noted
  <2>3. QED
    BY <2>1, <2>2, <1>1, Places DEF Doing
<1>6. RippedFirst'
  BY <1>2, <1>3 DEF ImportInv, RippedFirst, HandsOverRipped, HasRow
<1>7. HandsOverRipped'
  <2>1. "hand off" \in Calls \cup Threads
    BY DEF Threads
  <2>2. QED
    BY <1>1, <1>2, <1>3, <2>1 DEF ImportInv, HandsOverRipped, HasRow
<1>8. QED
  BY <1>4, <1>5, <1>6, <1>7 DEF ImportInv

-----------------------------------------------------------------------------
(* The steps.                                                               *)

LEMMA UserStep == ImportInv /\ User => ImportInv'
<1> SUFFICES ASSUME ImportInv, User PROVE ImportInv'
  OBVIOUS
<1>1. ASSUME NEW s \in Folders, Touch(s)
      PROVE  ImportInv'
  <2>1. disk' \in [Folders -> {"disc", "no disc", "gone"}]
    BY <1>1 DEF Touch, ImportInv, TypeOK
  <2>2. UNCHANGED <<job, busy>> /\ UNCHANGED history
    BY <1>1 DEF Touch
  <2>3. QED
    BY <2>1, <2>2
    DEF ImportInv, TypeOK, Attended, RippedFirst, HandsOverRipped, HasRow, Doing, history
<1>2. ASSUME NEW s \in Sources, CheckSource(s)
      PROVE  ImportInv'
  <2>1. \A k \in Ids : <<"create", s>> # <<"hand off", k>>
    OBVIOUS
  <2>2. /\ Begin(<<"create", s>>) /\ job' = job /\ disk' = disk
        /\ forsaken' = forsaken /\ twice' \subseteq Ids
    BY <1>2 DEF CheckSource, ImportInv, TypeOK
  <2>3. QED
    BY <2>1, <2>2, Places, BeginStep
<1>3. ASSUME NEW i \in Ids, NEW call \in {"start", "cancel"}, Ask(i, call)
      PROVE  ImportInv'
  <2>1. <<call, i>> \in Activities /\ \A k \in Ids : <<call, i>> # <<"hand off", k>>
    BY Places DEF Calls
  <2>2. /\ Begin(<<call, i>>) /\ job' = job /\ disk' = disk
        /\ forsaken' = forsaken /\ twice' \subseteq Ids
    BY <1>3 DEF Ask, ImportInv, TypeOK
  <2>3. QED
    BY <2>1, <2>2, BeginStep
<1>4. ASSUME NEW i \in Ids, AbandonJob(i)
      PROVE  ImportInv'
  <2>1. /\ HasRow(i) /\ Write(i, "FAILURE") /\ busy' = busy /\ disk' = disk
        /\ "FAILURE" \in Status \ Working
    BY <1>4 DEF AbandonJob, Status, Finished, Working
  <2>2. QED
    BY <2>1, WriteStep
<1>5. ASSUME NEW i \in Ids, DeleteJob(i)
      PROVE  ImportInv'
  <2>1. /\ job' = [job EXCEPT ![i] = NoRow] /\ busy' = busy /\ disk' = disk
        /\ UNCHANGED history
    BY <1>5 DEF DeleteJob
  <2>2. QED
    BY <2>1 DEF ImportInv, TypeOK, Attended, RippedFirst, HandsOverRipped, HasRow, Doing, history
<1>6. QED
  BY <1>1, <1>2, <1>3, <1>4, <1>5 DEF User

LEMMA ServerStep == ImportInv /\ Server => ImportInv'
<1> SUFFICES ASSUME ImportInv, Server PROVE ImportInv'
  OBVIOUS
<1>1. ASSUME NEW s \in Sources, CreateJob(s)
      PROVE  ImportInv'
  <2> PICK i \in Ids :
        /\ Move(<<"create", s>>, <<"begin scan", i>>)
        /\ job' = [job EXCEPT ![i] =
                     [status |-> "IDENTIFYING", source |-> s, scanned |-> FALSE,
                      ripped |-> FALSE, reused |-> Doing(i, Calls \cup Threads)]]
        /\ forsaken' = forsaken \ {i} /\ twice' = twice \ {i}
    BY <1>1 DEF CreateJob
  <2> DEFINE new == [status |-> "IDENTIFYING", source |-> s, scanned |-> FALSE,
                     ripped |-> FALSE, reused |-> Doing(i, Calls \cup Threads)]
             a == <<"create", s>>
             b == <<"begin scan", i>>
  <2>1. a \in Activities /\ b \in Activities /\ a # b
    BY Places DEF Calls
  <2>2. /\ busy' \in [Activities -> Nat]
        /\ busy'[b] > 0
        /\ \A x \in Activities : x # b /\ busy'[x] > 0 => busy[x] > 0
        /\ \A x \in Activities : x # a /\ busy[x] > 0 => busy'[x] > 0
    BY <2>1, MoveKeeps DEF ImportInv
  <2>3. new \in Rows
    BY DEF Rows, Status, Working, Doing
  <2>4. /\ job' \in [Ids -> Rows \cup {NoRow}]
        /\ job'[i] = new
        /\ \A k \in Ids : k # i => job'[k] = job[k]
    BY <2>3 DEF ImportInv, TypeOK
  <2>5. disk' = disk
    BY <1>1 DEF CreateJob
  <2>6. TypeOK'
    BY <2>2, <2>4, <2>5 DEF ImportInv, TypeOK
  <2>7. Attended'
    <3> SUFFICES ASSUME NEW k \in Ids, HasRow(k)', job'[k].status \in Working, k \notin forsaken'
                 PROVE  Doing(k, Workers)'
      BY DEF Attended
    <3>1. CASE k = i
      BY <3>1, <2>2 DEF Doing, Workers
    <3>2. CASE k # i
      <4>1. PICK w \in Workers : busy[<<w, k>>] > 0
        BY <3>2, <2>4 DEF ImportInv, Attended, Doing, HasRow
      <4>2. <<w, k>> \in Activities /\ <<w, k>> # a
        BY Places
      <4>3. QED
        BY <4>1, <4>2, <2>2 DEF Doing
    <3>3. QED
      BY <3>1, <3>2
  <2>8. RippedFirst'
    BY <2>4 DEF ImportInv, RippedFirst, HasRow
  <2>9. HandsOverRipped'
    <3> SUFFICES ASSUME NEW k \in Ids, HasRow(k)', busy'[<<"hand off", k>>] > 0
                 PROVE  job'[k].ripped \/ job'[k].reused
      BY DEF HandsOverRipped
    <3>1. busy[<<"hand off", k>>] > 0
      <4>1. <<"hand off", k>> \in Activities /\ <<"hand off", k>> # b
        BY Places DEF Threads
      <4>2. QED
        BY <4>1, <2>2
    <3>2. CASE k = i
      BY <3>1, <3>2, <2>4 DEF Doing, Threads
    <3>3. CASE k # i
      BY <3>1, <3>3, <2>4 DEF ImportInv, HandsOverRipped, HasRow
    <3>4. QED
      BY <3>2, <3>3
  <2>10. QED
    BY <2>6, <2>7, <2>8, <2>9 DEF ImportInv
<1>2. ASSUME NEW i \in Ids, BeginScan(i)
      PROVE  ImportInv'
  <2>1. /\ Move(<<"begin scan", i>>, <<"scan load", i>>) /\ job' = job /\ disk' = disk
        /\ UNCHANGED history
    BY <1>2 DEF BeginScan
  <2>2. "begin scan" \in Calls \cup Threads /\ "scan load" \in Workers
    BY DEF Calls, Workers, Threads
  <2>3. QED
    BY <2>1, <2>2, MoveStep
<1>3. ASSUME NEW i \in Ids, BeginRip(i)
      PROVE  ImportInv'
  <2>1. /\ Move(<<"begin rip", i>>, <<"rip load", i>>) /\ job' = job /\ disk' = disk
        /\ UNCHANGED history
    BY <1>3 DEF BeginRip
  <2>2. "begin rip" \in Calls \cup Threads /\ "rip load" \in Workers
    BY DEF Calls, Workers, Threads
  <2>3. QED
    BY <2>1, <2>2, MoveStep
<1>4. ASSUME NEW i \in Ids, StartJob(i)
      PROVE  ImportInv'
  <2> DEFINE r == [job[i] EXCEPT !.status = "VIDEO_RIPPING"]
  <2>1. /\ HasRow(i) /\ Move(<<"start", i>>, <<"begin rip", i>>) /\ disk' = disk
        /\ job' = [job EXCEPT ![i] = r] /\ Noted(i)
    BY <1>4 DEF StartJob, Write, Noted, ImportInv, TypeOK
  <2>2. job[i] \in Rows
    BY <2>1 DEF ImportInv, TypeOK, HasRow
  <2>3. r \in Rows /\ r.reused = job[i].reused /\ r.ripped = job[i].ripped
        /\ r.status = "VIDEO_RIPPING"
    BY <2>2 DEF Rows, Status, Working
  <2>4. "start" \in Calls \cup Threads /\ "begin rip" \in Workers
    BY DEF Calls, Workers
  <2> HIDE DEF r
  <2>5. QED
    BY <2>1, <2>3, <2>4, RowStep
<1>5. ASSUME NEW i \in Ids, CancelJob(i)
      PROVE  ImportInv'
  <2>1. /\ HasRow(i) /\ Write(i, "FAILURE") /\ End(<<"cancel", i>>) /\ disk' = disk
        /\ "FAILURE" \in Status \ Working /\ "cancel" \in Calls \cup Threads
    BY <1>5 DEF CancelJob, Status, Finished, Working, Calls
  <2>2. QED
    BY <2>1, WriteStep
<1>6. ASSUME NEW i \in Ids, RowGone(i)
      PROVE  ImportInv'
  <2>1. PICK p \in Threads \cup {"start", "cancel"} : End(<<p, i>>)
    BY <1>6 DEF RowGone
  <2>2. ~HasRow(i) /\ job' = job /\ disk' = disk /\ UNCHANGED history
    BY <1>6 DEF RowGone
  <2>3. p \in Calls \cup Threads
    BY DEF Calls
  <2>4. /\ busy' \in [Activities -> Nat]
        /\ \A x \in Activities : busy'[x] > 0 => busy[x] > 0
        /\ \A x \in Activities : x # <<p, i>> => busy'[x] = busy[x]
    BY <2>1, <2>3, Places, EndKeeps DEF ImportInv
  <2>5. TypeOK'
    BY <2>2, <2>4 DEF ImportInv, TypeOK, history
  <2>6. Attended'
    BY <2>2, <2>4, Places DEF ImportInv, Attended, HasRow, Doing, history
  <2>7. RippedFirst'
    BY <2>2 DEF ImportInv, RippedFirst, HasRow
  <2>8. HandsOverRipped'
    <3>1. \A k \in Ids : <<"hand off", k>> \in Activities
      BY Places DEF Threads
    <3>2. QED
      BY <2>2, <2>4, <3>1 DEF ImportInv, HandsOverRipped, HasRow
  <2>9. QED
    BY <2>5, <2>6, <2>7, <2>8 DEF ImportInv
<1>7. ASSUME NEW i \in Ids, Forsake(i)
      PROVE  ImportInv'
  <2>1. PICK p \in Workers : End(<<p, i>>)
    BY <1>7 DEF Forsake
  <2>2. /\ HasRow(i) /\ job' = job /\ disk' = disk
        /\ forsaken' = forsaken \cup {i} /\ twice' = twice
    BY <1>7 DEF Forsake
  <2>3. p \in Calls \cup Threads
    BY Places
  <2>4. /\ busy' \in [Activities -> Nat]
        /\ \A x \in Activities : busy'[x] > 0 => busy[x] > 0
        /\ \A x \in Activities : x # <<p, i>> => busy'[x] = busy[x]
    BY <2>1, <2>3, Places, EndKeeps DEF ImportInv
  <2>5. TypeOK'
    BY <2>2, <2>4 DEF ImportInv, TypeOK
  <2>6. Attended'
    BY <2>2, <2>4, Places DEF ImportInv, Attended, HasRow, Doing
  <2>7. RippedFirst'
    BY <2>2 DEF ImportInv, RippedFirst, HasRow
  <2>8. HandsOverRipped'
    <3>1. \A k \in Ids : <<"hand off", k>> \in Activities
      BY Places DEF Threads
    <3>2. QED
      BY <2>2, <2>4, <3>1 DEF ImportInv, HandsOverRipped, HasRow
  <2>9. QED
    BY <2>5, <2>6, <2>7, <2>8 DEF ImportInv
<1>8. QED
  BY <1>1, <1>2, <1>3, <1>4, <1>5, <1>6, <1>7 DEF Server

LEMMA ThreadStep == ImportInv /\ Thread => ImportInv'
<1> SUFFICES ASSUME ImportInv, Thread PROVE ImportInv'
  OBVIOUS
<1>1. ASSUME NEW i \in Ids, LoadForScan(i)
      PROVE  ImportInv'
  <2>1. /\ Move(<<"scan load", i>>, <<"scan", i>>) /\ job' = job /\ disk' = disk
        /\ UNCHANGED history
    BY <1>1 DEF LoadForScan
  <2>2. "scan load" \in Calls \cup Threads /\ "scan" \in Workers
    BY DEF Workers, Threads
  <2>3. QED
    BY <2>1, <2>2, MoveStep
<1>2. ASSUME NEW i \in Ids, Scan(i)
      PROVE  ImportInv'
  <2>1. PICK found \in BOOLEAN : job' = [job EXCEPT ![i].scanned = @ \/ found]
    BY <1>2 DEF Scan
  <2> DEFINE r == [job[i] EXCEPT !.scanned = @ \/ found]
  <2>2. HasRow(i) /\ Move(<<"scan", i>>, <<"park", i>>) /\ disk' = disk /\ Noted(i)
    BY <1>2 DEF Scan, history, Noted, ImportInv, TypeOK
  <2>3. job[i] \in Rows
    BY <2>2 DEF ImportInv, TypeOK, HasRow
  <2>4. /\ r \in Rows /\ r.reused = job[i].reused /\ r.ripped = job[i].ripped
        /\ r.status = job[i].status
    BY <2>3 DEF Rows
  <2>5. "scan" \in Calls \cup Threads /\ "park" \in Workers
    BY DEF Workers, Threads
  <2>6. job' = [job EXCEPT ![i] = r]
    BY <2>1
  <2> HIDE DEF r
  <2>7. QED
    BY <2>2, <2>4, <2>5, <2>6, RowStep
<1>3. ASSUME NEW i \in Ids, Park(i)
      PROVE  ImportInv'
  <2>1. /\ HasRow(i) /\ Write(i, "MANUAL_PAUSED") /\ End(<<"park", i>>) /\ disk' = disk
        /\ "MANUAL_PAUSED" \in Status \ Working /\ "park" \in Calls \cup Threads
    BY <1>3 DEF Park, Status, Working, Threads
  <2>2. QED
    BY <2>1, WriteStep
<1>4. ASSUME NEW i \in Ids, LoadForRip(i)
      PROVE  ImportInv'
  <2>1. /\ Move(<<"rip load", i>>, <<"prepare", i>>) /\ job' = job /\ disk' = disk
        /\ UNCHANGED history
    BY <1>4 DEF LoadForRip
  <2>2. "rip load" \in Calls \cup Threads /\ "prepare" \in Workers
    BY DEF Workers, Threads
  <2>3. QED
    BY <2>1, <2>2, MoveStep
<1>5. ASSUME NEW i \in Ids, RipFails(i)
      PROVE  ImportInv'
  <2>1. /\ HasRow(i) /\ Write(i, "FAILURE") /\ disk' = disk
        /\ \E p \in Calls \cup Threads : End(<<p, i>>)
        /\ "FAILURE" \in Status \ Working
    BY <1>5 DEF RipFails, Status, Finished, Working, Threads
  <2>2. QED
    BY <2>1, WriteStep
<1>6. ASSUME NEW i \in Ids, Prepare(i)
      PROVE  ImportInv'
  <2> DEFINE r == [job[i] EXCEPT !.status = "VIDEO_RIPPING"]
  <2>1. /\ HasRow(i) /\ Move(<<"prepare", i>>, <<"rip", i>>) /\ disk' = disk
        /\ job' = [job EXCEPT ![i] = r] /\ Noted(i)
    BY <1>6 DEF Prepare, Write, Noted, ImportInv, TypeOK
  <2>2. job[i] \in Rows
    BY <2>1 DEF ImportInv, TypeOK, HasRow
  <2>3. r \in Rows /\ r.reused = job[i].reused /\ r.ripped = job[i].ripped
        /\ r.status = "VIDEO_RIPPING"
    BY <2>2 DEF Rows, Status, Working
  <2>4. "prepare" \in Calls \cup Threads /\ "rip" \in Workers
    BY DEF Workers, Threads
  <2> HIDE DEF r
  <2>5. QED
    BY <2>1, <2>3, <2>4, RowStep
<1>7. ASSUME NEW i \in Ids, Rip(i)
      PROVE  ImportInv'
  <2> DEFINE r == [job[i] EXCEPT !.scanned = TRUE, !.ripped = TRUE]
  <2>1. /\ HasRow(i) /\ Move(<<"rip", i>>, <<"hand off", i>>) /\ disk' = disk
        /\ job' = [job EXCEPT ![i] = r] /\ Noted(i)
    BY <1>7 DEF Rip, history, Noted, ImportInv, TypeOK
  <2>2. job[i] \in Rows
    BY <2>1 DEF ImportInv, TypeOK, HasRow
  <2>3. r \in Rows /\ r.reused = job[i].reused /\ r.ripped /\ r.status = job[i].status
    BY <2>2 DEF Rows
  <2>4. "rip" \in Calls \cup Threads /\ "hand off" \in Workers
    BY DEF Workers, Threads
  <2> HIDE DEF r
  <2>5. QED
    BY <2>1, <2>3, <2>4, RowStep
<1>8. ASSUME NEW i \in Ids, HandOff(i)
      PROVE  ImportInv'
  <2>1. PICK s \in {"SUCCESS", "TRANSCODE_WAITING", "FAILURE"} : Write(i, s)
    BY <1>8 DEF HandOff
  <2>2. HasRow(i) /\ End(<<"hand off", i>>) /\ disk' = disk /\ busy[<<"hand off", i>>] > 0
    BY <1>8 DEF HandOff, End
  <2>3. s \in Status \ Working /\ "hand off" \in Calls \cup Threads
    BY DEF Status, Finished, Waiting, Working, Threads
  <2>4. QED
    BY <2>1, <2>2, <2>3, WriteStep
<1>9. QED
  BY <1>1, <1>2, <1>3, <1>4, <1>5, <1>6, <1>7, <1>8 DEF Thread

LEMMA RestartStep == ImportInv /\ Restart => ImportInv'
<1> SUFFICES ASSUME ImportInv, Restart PROVE ImportInv'
  OBVIOUS
<1>1. /\ busy' = [a \in Activities |-> 0]
      /\ disk' = disk /\ forsaken' = {} /\ twice' = {}
      /\ job' = [i \in Ids |-> IF i \in Orphans THEN [job[i] EXCEPT !.status = "FAILURE"]
                                                 ELSE job[i]]
  BY DEF Restart
<1>2. /\ \A i \in Orphans : job[i] \in Rows
      /\ \A i \in Ids \ Orphans : HasRow(i) => job[i].status \notin Working
  <2>1. \A i \in Orphans : job[i] \in Rows
    BY DEF ImportInv, TypeOK, Orphans, Unfinished, HasRow
  <2>2. Working \cap (Finished \cup Waiting) = {}
    BY DEF Working, Finished, Waiting
  <2>3. \A i \in Ids \ Orphans : HasRow(i) => job[i].status \notin Working
    BY <2>2 DEF Orphans, Unfinished
  <2>4. QED
    BY <2>1, <2>3
<1>3. \A i \in Ids :
        \/ job'[i] = job[i] /\ i \notin Orphans
        \/ job'[i] \in Rows /\ job'[i].status = "FAILURE"
  BY <1>1, <1>2 DEF Rows, Status, Finished
<1>4. TypeOK'
  <2>1. \A i \in Ids : job'[i] \in Rows \cup {NoRow}
    BY <1>3 DEF ImportInv, TypeOK
  <2>2. job' \in [Ids -> Rows \cup {NoRow}]
    BY <1>1, <2>1
  <2>3. busy' \in [Activities -> Nat]
    BY <1>1
  <2>4. QED
    BY <1>1, <2>2, <2>3 DEF ImportInv, TypeOK
<1>5. Attended'
  BY <1>2, <1>3 DEF Attended, HasRow, Working
<1>6. RippedFirst'
  BY <1>3 DEF ImportInv, RippedFirst, HasRow
<1>7. HandsOverRipped'
  <2>1. \A i \in Ids : <<"hand off", i>> \in Activities
    BY Places DEF Threads
  <2>2. \A i \in Ids : busy'[<<"hand off", i>>] = 0
    BY <1>1, <2>1
  <2>3. ASSUME NEW i \in Ids
        PROVE  ~(busy'[<<"hand off", i>>] > 0)
    <3>1. busy'[<<"hand off", i>>] = 0
      BY <2>2
    <3>2. ~(0 > 0)
      OBVIOUS
    <3>3. QED
      BY <3>1, <3>2, Zenon
  <2>4. QED
    BY <2>3, Zenon DEF HandsOverRipped
<1>8. QED
  BY <1>4, <1>5, <1>6, <1>7 DEF ImportInv

LEMMA ImportStep == ImportInv /\ [Next]_vars => ImportInv'
<1> SUFFICES ASSUME ImportInv, [Next]_vars PROVE ImportInv'
  OBVIOUS
<1>1. CASE User
  BY <1>1, UserStep
<1>2. CASE Server
  BY <1>2, ServerStep
<1>3. CASE Thread
  BY <1>3, ThreadStep
<1>4. CASE Restart
  BY <1>4, RestartStep
<1>5. ASSUME NEW i \in Ids, Transcoded(i)
      PROVE  ImportInv'
  <2>1. PICK s \in Finished : Write(i, s)
    BY <1>5 DEF Transcoded
  <2>2. /\ HasRow(i) /\ job[i].status = "TRANSCODE_WAITING" /\ busy' = busy
        /\ disk' = disk
    BY <1>5 DEF Transcoded, Waiting
  <2>3. s \in Status \ Working
    BY DEF Status, Finished, Working
  <2>4. QED
    BY <2>1, <2>2, <2>3, WriteStep
<1>6. CASE UNCHANGED vars
  BY <1>6
  DEF vars, ImportInv, TypeOK, Attended, RippedFirst, HandsOverRipped, HasRow, Doing
<1>7. QED
  BY <1>1, <1>2, <1>3, <1>4, <1>5, <1>6 DEF Next

LEMMA ImportInit == Init => ImportInv
<1> SUFFICES ASSUME Init PROVE ImportInv
  OBVIOUS
<1>1. \A i \in Ids : ~HasRow(i)
  BY DEF Init, HasRow
<1>2. TypeOK
  BY DEF Init, TypeOK
<1>3. QED
  BY <1>1, <1>2 DEF ImportInv, Attended, RippedFirst, HandsOverRipped

LEMMA ImportInvariant == Spec => []ImportInv
BY ImportInit, ImportStep, PTL DEF Spec

-----------------------------------------------------------------------------
(* One unfinished job per source. A call that has passed the check vouches  *)
(* for its source: nobody else works on it, and no other call has passed.   *)
(* Whoever breaks that is excused from the moment he does.                  *)

Vouched ==
    \A s \in Sources \ excused :
        /\ busy[<<"create", s>>] <= 1
        /\ busy[<<"create", s>>] > 0 => ~Active(s)

SourceInv == OnePerSource /\ Vouched

(* What all steps but the two of a creation do: no more calls are under way, *)
(* no job changes its source, and a job that is unfinished again is excused. *)
CreatesStay == \A s \in Sources : busy'[<<"create", s>>] <= busy[<<"create", s>>]

JobsStay ==
    /\ excused \subseteq excused'
    /\ \A i \in Ids : Unfinished(i)' =>
           \/ Unfinished(i) /\ job'[i].source = job[i].source
           \/ job'[i].source \in excused'

LEMMA StayKeeps ==
    ASSUME TypeOK, TypeOK', SourceInv, CreatesStay, JobsStay
    PROVE  SourceInv'
<1>1. \A s \in Sources : busy[<<"create", s>>] \in Nat /\ busy'[<<"create", s>>] \in Nat
  BY Places DEF TypeOK
<1>2. \A s \in Sources \ excused' : Active(s)' => Active(s)
  BY DEF JobsStay, Active
<1>3. OnePerSource'
  BY DEF SourceInv, OnePerSource, JobsStay
<1>4. Vouched'
  <2> SUFFICES ASSUME NEW s \in Sources \ excused'
               PROVE  /\ busy'[<<"create", s>>] <= 1
                      /\ busy'[<<"create", s>>] > 0 => ~Active(s)'
    BY DEF Vouched
  <2>1. s \in Sources \ excused
    BY DEF JobsStay
  <2>2. /\ busy[<<"create", s>>] <= 1
        /\ busy[<<"create", s>>] > 0 => ~Active(s)
    BY <2>1 DEF SourceInv, Vouched
  <2>3. busy'[<<"create", s>>] <= busy[<<"create", s>>]
    BY DEF CreatesStay
  <2> QED
    BY <1>1, <1>2, <2>2, <2>3
<1> QED
  BY <1>3, <1>4 DEF SourceInv

LEMMA NoMoreUnderWay ==
    ASSUME TypeOK,
           \A s \in Sources : \/ busy'[<<"create", s>>] = busy[<<"create", s>>]
                             \/ busy'[<<"create", s>>] = 0
    PROVE  CreatesStay
<1> SUFFICES ASSUME NEW s \in Sources
             PROVE  busy'[<<"create", s>>] <= busy[<<"create", s>>]
  BY DEF CreatesStay
<1> DEFINE n == busy[<<"create", s>>]
<1>1. n \in Nat
  BY Places DEF TypeOK
<1>2. busy'[<<"create", s>>] = n \/ busy'[<<"create", s>>] = 0
  OBVIOUS
<1> HIDE DEF n
<1>3. busy'[<<"create", s>>] <= n
  BY <1>1, <1>2
<1> QED
  BY <1>3 DEF n

LEMMA UnderWay ==
    ASSUME TypeOK, NEW i \in Ids, NEW p \in Calls \cup Threads, NEW q \in Calls \cup Threads,
           Move(<<p, i>>, <<q, i>>) \/ End(<<p, i>>) \/ Begin(<<p, i>>) \/ busy' = busy
    PROVE  CreatesStay
<1> SUFFICES ASSUME NEW s \in Sources
             PROVE  busy'[<<"create", s>>] <= busy[<<"create", s>>]
  BY DEF CreatesStay
<1>1. <<"create", s>> # <<p, i>> /\ <<"create", s>> # <<q, i>>
  BY Places
<1>2. <<"create", s>> \in Activities /\ busy \in [Activities -> Nat]
  BY Places DEF TypeOK
<1>3. busy'[<<"create", s>>] = busy[<<"create", s>>]
  BY <1>1, <1>2 DEF Move, End, Begin
<1> QED
  BY <1>2, <1>3

LEMMA WriteStays ==
    ASSUME TypeOK, NEW i \in Ids, HasRow(i), NEW s \in Status, Write(i, s)
    PROVE  JobsStay
<1>0. /\ \A k \in Ids : k # i => job'[k] = job[k]
      /\ job'[i] = [job[i] EXCEPT !.status = s]
      /\ job[i] \in Rows
  BY WriteKeeps DEF TypeOK, HasRow
<1>1. /\ \A k \in Ids : k # i => job'[k] = job[k]
      /\ job'[i].status = s /\ job'[i].source = job[i].source
  BY <1>0 DEF Rows
<1>2. excused' = IF ~Unfinished(i) /\ s \notin Finished
                   THEN excused \cup {job[i].source} ELSE excused
  BY DEF Write
<1>3. Unfinished(i)' => s \notin Finished
  BY <1>1 DEF Unfinished
<1> QED
  BY <1>1, <1>2, <1>3 DEF JobsStay, Unfinished, HasRow

LEMMA SameStays ==
    ASSUME UNCHANGED <<job, excused>>
    PROVE  JobsStay
BY DEF JobsStay, Unfinished, HasRow

(* What a thread notes of its work does not touch the status or the source. *)
LEMMA NoteStays ==
    ASSUME TypeOK, NEW i \in Ids, HasRow(i), NEW r, job' = [job EXCEPT ![i] = r],
           r.status = job[i].status, r.source = job[i].source, excused' = excused
    PROVE  JobsStay
BY DEF JobsStay, Unfinished, HasRow, TypeOK

LEMMA CheckSourceKeeps ==
    ASSUME TypeOK, SourceInv, NEW s \in Sources, CheckSource(s)
    PROVE  SourceInv'
<1>1. /\ ~Active(s) /\ job' = job
      /\ busy' = [busy EXCEPT ![<<"create", s>>] = @ + 1]
      /\ excused' = IF busy[<<"create", s>>] > 0 THEN excused \cup {s} ELSE excused
  BY DEF CheckSource, Begin
<1>2. \A t \in Sources : <<"create", t>> \in Activities /\ busy[<<"create", t>>] \in Nat
  BY Places DEF TypeOK
<1>3. /\ busy'[<<"create", s>>] = busy[<<"create", s>>] + 1
      /\ \A t \in Sources \ {s} : busy'[<<"create", t>>] = busy[<<"create", t>>]
  BY <1>1, <1>2 DEF TypeOK
<1>4. OnePerSource'
  BY <1>1 DEF SourceInv, OnePerSource, Unfinished, HasRow
<1>5. \A t \in Sources : Active(t)' <=> Active(t)
  BY <1>1 DEF Active, Unfinished, HasRow
<1>6. Vouched'
  <2> SUFFICES ASSUME NEW t \in Sources \ excused'
               PROVE  /\ busy'[<<"create", t>>] <= 1
                      /\ busy'[<<"create", t>>] > 0 => ~Active(t)'
    BY DEF Vouched
  <2>1. CASE t = s
    BY <1>1, <1>2, <1>3, <1>5, <2>1
  <2>2. CASE t # s
    <3>1. busy'[<<"create", t>>] = busy[<<"create", t>>] /\ t \notin excused
      BY <1>1, <1>3, <2>2
    <3> QED
      BY <1>5, <3>1 DEF SourceInv, Vouched
  <2> QED
    BY <2>1, <2>2
<1> QED
  BY <1>4, <1>6 DEF SourceInv

LEMMA CreateJobKeeps ==
    ASSUME TypeOK, SourceInv, NEW s \in Sources, CreateJob(s)
    PROVE  SourceInv'
<1>0. PICK i \in Ids :
      /\ Move(<<"create", s>>, <<"begin scan", i>>)
      /\ job' = [job EXCEPT ![i] =
                   [status |-> "IDENTIFYING", source |-> s, scanned |-> FALSE,
                    ripped |-> FALSE, reused |-> Doing(i, Calls \cup Threads)]]
  BY DEF CreateJob
<1>1. /\ job'[i].source = s
      /\ \A k \in Ids \ {i} : job'[k] = job[k]
      /\ excused' = excused
  BY <1>0 DEF CreateJob, TypeOK
<1>2. \A t \in Sources : /\ <<"create", t>> \in Activities
                         /\ busy[<<"create", t>>] \in Nat
                         /\ <<"create", t>> # <<"begin scan", i>>
  BY Places DEF TypeOK
<1>3. /\ busy[<<"create", s>>] > 0
      /\ busy'[<<"create", s>>] = busy[<<"create", s>>] - 1
      /\ \A t \in Sources \ {s} : busy'[<<"create", t>>] = busy[<<"create", t>>]
  BY <1>0, <1>2 DEF Move, TypeOK
<1>4. s \notin excused => \A k \in Ids \ {i} : Unfinished(k) => job[k].source # s
  BY <1>3 DEF SourceInv, Vouched, Active
<1>5. \A k \in Ids \ {i} : Unfinished(k)' <=> Unfinished(k)
  BY <1>1 DEF Unfinished, HasRow
<1>6. OnePerSource'
  <2> SUFFICES ASSUME NEW k \in Ids, NEW l \in Ids, Unfinished(k)', Unfinished(l)',
                      k # l, job'[k].source = job'[l].source
               PROVE  job'[k].source \in excused'
    BY DEF OnePerSource
  <2>1. CASE k = i
    BY <1>1, <1>4, <1>5, <2>1 DEF Unfinished, HasRow
  <2>2. CASE l = i
    BY <1>1, <1>4, <1>5, <2>2 DEF Unfinished, HasRow
  <2>3. CASE k # i /\ l # i
    BY <1>1, <1>5, <2>3 DEF SourceInv, OnePerSource, Unfinished, HasRow
  <2> QED
    BY <2>1, <2>2, <2>3
<1>7. \A t \in Sources \ {s} : Active(t)' => Active(t)
  BY <1>1, <1>5 DEF Active
<1>8. Vouched'
  <2> SUFFICES ASSUME NEW t \in Sources \ excused'
               PROVE  /\ busy'[<<"create", t>>] <= 1
                      /\ busy'[<<"create", t>>] > 0 => ~Active(t)'
    BY DEF Vouched
  <2>1. t \in Sources \ excused
    BY <1>1
  <2>2. /\ busy[<<"create", t>>] <= 1
        /\ busy[<<"create", t>>] > 0 => ~Active(t)
    BY <2>1 DEF SourceInv, Vouched
  <2>3. CASE t = s
    <3> DEFINE n == busy[<<"create", t>>]
               m == busy'[<<"create", t>>]
    <3>1. n \in Nat /\ n <= 1 /\ n > 0 /\ m = n - 1
      BY <1>2, <1>3, <2>2, <2>3
    <3> HIDE DEF n, m
    <3>2. m <= 1 /\ ~(m > 0)
      BY <3>1
    <3> QED
      BY <3>2 DEF m
  <2>4. CASE t # s
    BY <1>3, <1>7, <2>2, <2>4
  <2> QED
    BY <2>3, <2>4
<1> QED
  BY <1>6, <1>8 DEF SourceInv

LEMMA SourceStep == ImportInv /\ SourceInv /\ [Next]_vars => SourceInv'
<1> SUFFICES ASSUME ImportInv, SourceInv, [Next]_vars PROVE SourceInv'
  OBVIOUS
<1>1. TypeOK /\ TypeOK'
  BY ImportStep DEF ImportInv
<1>2. ASSUME CreatesStay, JobsStay PROVE SourceInv'
  BY <1>1, <1>2, StayKeeps
<1>3. \A i \in Ids : HasRow(i) => job[i] \in Rows
  BY <1>1 DEF TypeOK, HasRow
<1>0. \A s \in Sources : <<"create", s>> \in Activities /\ busy[<<"create", s>>] \in Nat
  BY <1>1, Places DEF TypeOK
<1> USE DEF Calls, Threads
<1>4. ASSUME NEW s \in Sources, CheckSource(s) \/ CreateJob(s) PROVE SourceInv'
  BY <1>1, <1>4, CheckSourceKeeps, CreateJobKeeps
<1>5. ASSUME NEW s \in Folders, Touch(s) PROVE SourceInv'
  <2>1. CreatesStay
    BY <1>1, <1>5, NoMoreUnderWay DEF Touch
  <2> QED
    BY <1>2, <1>5, <2>1, SameStays DEF Touch, history
<1>6. ASSUME NEW i \in Ids, NEW p \in Calls \cup Threads, NEW q \in Calls \cup Threads,
             Move(<<p, i>>, <<q, i>>) \/ End(<<p, i>>) \/ Begin(<<p, i>>),
             UNCHANGED <<job, excused>>
      PROVE  SourceInv'
  BY <1>1, <1>2, <1>6, UnderWay, SameStays
<1>7. ASSUME NEW i \in Ids, NEW p \in Calls \cup Threads, NEW q \in Calls \cup Threads,
             Move(<<p, i>>, <<q, i>>) \/ End(<<p, i>>) \/ busy' = busy,
             HasRow(i), NEW s \in Status, Write(i, s)
      PROVE  SourceInv'
  BY <1>1, <1>2, <1>7, UnderWay, WriteStays
<1>8. CASE \E i \in Ids, call \in {"start", "cancel"} : Ask(i, call)
  BY <1>6, <1>8 DEF Ask
<1>9. CASE \E i \in Ids : BeginScan(i) \/ BeginRip(i) \/ LoadForScan(i) \/ LoadForRip(i) \/ RowGone(i)
  BY <1>6, <1>9 DEF BeginScan, BeginRip, LoadForScan, LoadForRip, RowGone, history
<1>10. CASE \E i \in Ids : AbandonJob(i) \/ StartJob(i) \/ CancelJob(i)
  BY <1>7, <1>10 DEF AbandonJob, StartJob, CancelJob, Status, Finished, Working
<1>11. CASE \E i \in Ids : Park(i) \/ RipFails(i) \/ Prepare(i)
  BY <1>7, <1>11 DEF Park, RipFails, Prepare, Status, Finished, Working
<1>12. CASE \E i \in Ids : HandOff(i)
  BY <1>7, <1>12 DEF HandOff, Status, Finished, Waiting
<1>13. CASE \E i \in Ids : Transcoded(i)
  BY <1>7, <1>13 DEF Transcoded, Status
<1>14. ASSUME NEW i \in Ids, DeleteJob(i) PROVE SourceInv'
  <2>1. CreatesStay
    BY <1>1, <1>14, UnderWay DEF DeleteJob
  <2>2. JobsStay
    BY <1>1, <1>14 DEF DeleteJob, JobsStay, Unfinished, HasRow, TypeOK, history
  <2> QED
    BY <1>2, <2>1, <2>2
<1>15. ASSUME NEW i \in Ids, Scan(i) PROVE SourceInv'
  <2>1. CreatesStay
    BY <1>1, <1>15, UnderWay DEF Scan
  <2> PICK found \in BOOLEAN : job' = [job EXCEPT ![i].scanned = @ \/ found]
    BY <1>15 DEF Scan, IsDisc
  <2> DEFINE r == [job[i] EXCEPT !.scanned = @ \/ found]
  <2>2. HasRow(i) /\ excused' = excused /\ job' = [job EXCEPT ![i] = r]
    BY <1>15 DEF Scan, history
  <2>3. r.status = job[i].status /\ r.source = job[i].source
    BY <1>3, <2>2 DEF Rows
  <2> HIDE DEF r
  <2>4. JobsStay
    BY <1>1, <2>2, <2>3, NoteStays
  <2> QED
    BY <1>2, <2>1, <2>4
<1>18. ASSUME NEW i \in Ids, Rip(i) PROVE SourceInv'
  <2>1. CreatesStay
    BY <1>1, <1>18, UnderWay DEF Rip
  <2> DEFINE r == [job[i] EXCEPT !.scanned = TRUE, !.ripped = TRUE]
  <2>2. HasRow(i) /\ excused' = excused /\ job' = [job EXCEPT ![i] = r]
    BY <1>18 DEF Rip, history
  <2>3. r.status = job[i].status /\ r.source = job[i].source
    BY <1>3, <2>2 DEF Rows
  <2> HIDE DEF r
  <2>4. JobsStay
    BY <1>1, <2>2, <2>3, NoteStays
  <2> QED
    BY <1>2, <2>1, <2>4
<1>19. CASE \E i \in Ids : Forsake(i)
  BY <1>6, <1>19 DEF Forsake, Workers
<1>16. CASE Restart
  <2>1. CreatesStay
    <3>1. \A s \in Sources : busy'[<<"create", s>>] = 0
      BY <1>0, <1>16 DEF Restart
    <3> QED
      BY <1>1, <3>1, NoMoreUnderWay
  <2>2. \A i \in Ids : \/ job'[i] = job[i]
                       \/ job'[i] \in Rows /\ job'[i].status = "FAILURE"
    BY <1>3, <1>16 DEF Restart, Orphans, Unfinished, Rows, Status, Finished
  <2>3. JobsStay
    BY <1>16, <2>2 DEF Restart, JobsStay, Unfinished, HasRow, Finished
  <2> QED
    BY <1>2, <2>1, <2>3
<1>17. CASE UNCHANGED vars
  <2>1. CreatesStay
    BY <1>1, <1>17, NoMoreUnderWay DEF vars
  <2> QED
    BY <1>2, <1>17, <2>1, SameStays DEF vars
<1> QED
  BY <1>4, <1>5, <1>8, <1>9, <1>10, <1>11, <1>12, <1>13, <1>14, <1>15, <1>16, <1>17, <1>18,
     <1>19
  DEF Next, User, Server, Thread

-----------------------------------------------------------------------------
(* One rip of a job at a time. Of a job whose id was free, and that no two  *)
(* calls started, one call or thread is at work, the scan's or the rip's;   *)
(* and none but a call to start it while it waits for review.               *)

Single == Workers \cup {"start"}

OnceOf(i) ==
    HasRow(i) /\ ~job[i].reused /\ i \notin twice =>
        /\ \A p, q \in Single : busy[<<p, i>>] > 0 /\ busy[<<q, i>>] > 0 =>
               p = q /\ busy[<<p, i>>] = 1
        /\ job[i].status = "MANUAL_PAUSED" => \A p \in Workers : ~(busy[<<p, i>>] > 0)

OnceInv == \A i \in Ids : OnceOf(i)

Alike(k) == \A p \in Single : busy'[<<p, k>>] = busy[<<p, k>>]

LEMMA Singles ==
    /\ Single \subseteq Calls \cup Threads /\ Workers \subseteq Single
    /\ \A p \in Single, k \in Ids : <<p, k>> \in Activities
    /\ "cancel" \notin Single /\ "start" \notin Workers
BY Places DEF Single, Workers, Calls, Threads

LEMMA Elsewhere ==
    ASSUME TypeOK, NEW i \in Ids, NEW p, NEW q,
           Move(<<p, i>>, <<q, i>>) \/ End(<<p, i>>) \/ Begin(<<p, i>>)
    PROVE  /\ \A k \in Ids \ {i} : Alike(k)
           /\ p \notin Single /\ q \notin Single => Alike(i)
<1> SUFFICES ASSUME NEW w \in Single, NEW k \in Ids, k # i \/ (p \notin Single /\ q \notin Single)
             PROVE  busy'[<<w, k>>] = busy[<<w, k>>]
  BY DEF Alike
<1>1. <<w, k>> \in Activities /\ <<w, k>> # <<p, i>> /\ <<w, k>> # <<q, i>>
  BY Singles
<1> QED
  BY <1>1 DEF Move, End, Begin, TypeOK

(* Nothing begins, goes on or ends for k. *)
LEMMA OnceSame ==
    ASSUME OnceInv, NEW k \in Ids, Alike(k), HasRow(k)' => HasRow(k),
           HasRow(k)' => /\ job'[k].reused = job[k].reused
                         /\ job'[k].status = job[k].status \/ job'[k].status # "MANUAL_PAUSED",
           k \in twice => k \in twice'
    PROVE  OnceOf(k)'
<1> SUFFICES ASSUME HasRow(k)', ~job'[k].reused, k \notin twice'
             PROVE  /\ \A p, q \in Single : busy'[<<p, k>>] > 0 /\ busy'[<<q, k>>] > 0 =>
                           p = q /\ busy'[<<p, k>>] = 1
                    /\ job'[k].status = "MANUAL_PAUSED" => \A p \in Workers : ~(busy'[<<p, k>>] > 0)
  BY DEF OnceOf
<1>1. /\ \A p, q \in Single : busy[<<p, k>>] > 0 /\ busy[<<q, k>>] > 0 =>
             p = q /\ busy[<<p, k>>] = 1
      /\ job[k].status = "MANUAL_PAUSED" => \A p \in Workers : ~(busy[<<p, k>>] > 0)
  BY DEF OnceInv, OnceOf
<1> QED
  BY <1>1, Singles DEF Alike

(* One goes on; it stays the only one. *)
LEMMA OnceMoved ==
    ASSUME TypeOK, OnceInv, NEW i \in Ids, NEW p \in Single, NEW q \in Workers, p # q,
           Move(<<p, i>>, <<q, i>>), HasRow(i)' => HasRow(i),
           HasRow(i)' => /\ job'[i].reused = job[i].reused
                         /\ \/ job'[i].status # "MANUAL_PAUSED"
                            \/ p \in Workers /\ job'[i].status = job[i].status,
           i \in twice => i \in twice'
    PROVE  OnceOf(i)'
<1> SUFFICES ASSUME HasRow(i)', ~job'[i].reused, i \notin twice'
             PROVE  /\ \A v, w \in Single : busy'[<<v, i>>] > 0 /\ busy'[<<w, i>>] > 0 =>
                           v = w /\ busy'[<<v, i>>] = 1
                    /\ job'[i].status = "MANUAL_PAUSED" => \A w \in Workers : ~(busy'[<<w, i>>] > 0)
  BY DEF OnceOf
<1>1. /\ \A v, w \in Single : busy[<<v, i>>] > 0 /\ busy[<<w, i>>] > 0 =>
             v = w /\ busy[<<v, i>>] = 1
      /\ job[i].status = "MANUAL_PAUSED" => \A w \in Workers : ~(busy[<<w, i>>] > 0)
  BY DEF OnceInv, OnceOf
<1>2. \A w \in Single : <<w, i>> \in Activities /\ busy[<<w, i>>] \in Nat
  BY Singles DEF TypeOK
<1>3. q \in Single /\ busy[<<p, i>>] > 0
  BY Singles DEF Move
<1>4. \A w \in Single : w # p => busy[<<w, i>>] = 0
  BY <1>1, <1>2, <1>3
<1>5. busy[<<p, i>>] = 1
  BY <1>1, <1>3
<1>6. \A w \in Single : busy'[<<w, i>>] = IF w = q THEN 1 ELSE 0
  <2> SUFFICES ASSUME NEW w \in Single PROVE busy'[<<w, i>>] = IF w = q THEN 1 ELSE 0
    OBVIOUS
  <2>1. busy' = [busy EXCEPT ![<<p, i>>] = @ - 1, ![<<q, i>>] = @ + 1]
    BY DEF Move
  <2>2. busy'[<<w, i>>] = IF w = q THEN busy[<<w, i>>] + 1
                          ELSE IF w = p THEN busy[<<w, i>>] - 1 ELSE busy[<<w, i>>]
    BY <1>2, <1>3, <2>1 DEF TypeOK
  <2> QED
    BY <1>3, <1>4, <1>5, <2>2
<1>7. job'[i].status # "MANUAL_PAUSED"
  BY <1>1, <1>3
<1> QED
  BY <1>6, <1>7

(* It ends; none is left. *)
LEMMA OnceEnded ==
    ASSUME TypeOK, OnceInv, NEW i \in Ids, NEW p \in Single, End(<<p, i>>),
           HasRow(i)' => HasRow(i) /\ job'[i].reused = job[i].reused,
           i \in twice => i \in twice'
    PROVE  OnceOf(i)'
<1> SUFFICES ASSUME HasRow(i)', ~job'[i].reused, i \notin twice'
             PROVE  \A w \in Single : ~(busy'[<<w, i>>] > 0)
  BY Singles DEF OnceOf
<1>1. \A v, w \in Single : busy[<<v, i>>] > 0 /\ busy[<<w, i>>] > 0 =>
          v = w /\ busy[<<v, i>>] = 1
  BY DEF OnceInv, OnceOf
<1>2. \A w \in Single : <<w, i>> \in Activities /\ busy[<<w, i>>] \in Nat
  BY Singles DEF TypeOK
<1>3. busy[<<p, i>>] > 0 /\ busy' = [busy EXCEPT ![<<p, i>>] = @ - 1]
  BY DEF End
<1> SUFFICES ASSUME NEW w \in Single PROVE busy'[<<w, i>>] = 0
  OBVIOUS
<1>4. busy'[<<w, i>>] = IF w = p THEN busy[<<w, i>>] - 1 ELSE busy[<<w, i>>]
  BY <1>2, <1>3 DEF TypeOK
<1> QED
  BY <1>1, <1>2, <1>3, <1>4

(* A write changes the status of i alone. *)
LEMMA OnceWritten ==
    ASSUME TypeOK, NEW i \in Ids, HasRow(i), NEW s \in Status, Write(i, s)
    PROVE  /\ \A k \in Ids \ {i} : job'[k] = job[k]
           /\ job'[i].reused = job[i].reused /\ job'[i].status = s
           /\ twice' = twice
<1>1. /\ \A k \in Ids : k # i => job'[k] = job[k]
      /\ job'[i] = [job[i] EXCEPT !.status = s]
      /\ job[i] \in Rows
  BY WriteKeeps DEF TypeOK, HasRow
<1> QED
  BY <1>1 DEF Rows, Write

LEMMA OnceCreated ==
    ASSUME TypeOK, OnceInv, NEW s \in Sources, CreateJob(s)
    PROVE  OnceInv'
<1>0. PICK i \in Ids :
      /\ Move(<<"create", s>>, <<"begin scan", i>>)
      /\ job' = [job EXCEPT ![i] =
                   [status |-> "IDENTIFYING", source |-> s, scanned |-> FALSE,
                    ripped |-> FALSE, reused |-> Doing(i, Calls \cup Threads)]]
      /\ twice' = twice \ {i}
  BY DEF CreateJob
<1>1. /\ job'[i].status = "IDENTIFYING" /\ job'[i].reused = Doing(i, Calls \cup Threads)
      /\ \A k \in Ids \ {i} : job'[k] = job[k]
  BY <1>0 DEF TypeOK
<1>2. \A w \in Single, k \in Ids :
         /\ <<w, k>> \in Activities /\ busy[<<w, k>>] \in Nat
         /\ busy'[<<w, k>>] = IF w = "begin scan" /\ k = i THEN busy[<<w, k>>] + 1
                                                          ELSE busy[<<w, k>>]
  BY <1>0, Singles, Places DEF Move, TypeOK
<1>3. ASSUME NEW k \in Ids \ {i} PROVE OnceOf(k)'
  <2>1. Alike(k)
    BY <1>2 DEF Alike
  <2> QED
    BY <1>0, <1>1, <2>1, OnceSame DEF HasRow
<1>4. OnceOf(i)'
  <2> SUFFICES ASSUME ~job'[i].reused
               PROVE  \A p, q \in Single : busy'[<<p, i>>] > 0 /\ busy'[<<q, i>>] > 0 =>
                          p = q /\ busy'[<<p, i>>] = 1
    BY <1>1 DEF OnceOf
  <2>1. \A w \in Single : ~(busy[<<w, i>>] > 0)
    BY <1>1, Singles DEF Doing
  <2>2. ASSUME NEW w \in Single, busy'[<<w, i>>] > 0
        PROVE  w = "begin scan" /\ busy'[<<w, i>>] = 1
    <3> DEFINE n == busy[<<w, i>>]
               m == busy'[<<w, i>>]
    <3>1. n \in Nat /\ ~(n > 0) /\ m > 0
      BY <1>2, <2>1, <2>2
    <3>2. m = IF w = "begin scan" THEN n + 1 ELSE n
      BY <1>2
    <3> HIDE DEF n, m
    <3>3. n = 0
      BY <3>1
    <3>4. n + 1 = 1
      BY <3>3
    <3>5. ~(0 > 0)
      OBVIOUS
    <3>6. w = "begin scan" /\ m = 1
      BY <3>1, <3>2, <3>3, <3>4, <3>5, Zenon
    <3> QED
      BY <3>6 DEF m
  <2> QED
    BY <2>2
<1> QED
  BY <1>3, <1>4 DEF OnceInv

LEMMA OnceStep == ImportInv /\ OnceInv /\ [Next]_vars => OnceInv'
<1> SUFFICES ASSUME ImportInv, OnceInv, [Next]_vars PROVE OnceInv'
  OBVIOUS
<1>1. TypeOK
  BY DEF ImportInv
<1>2. Single = {"start", "begin scan", "begin rip", "scan load", "scan", "park", "rip load",
                "prepare", "rip", "hand off"}
      /\ Workers = Single \ {"start"}
  BY DEF Single, Workers, Threads
<1>3. \A i \in Ids : HasRow(i) => job[i] \in Rows
  BY <1>1 DEF TypeOK, HasRow
(* The others, when something is under way for i. *)
<1>4. ASSUME NEW i \in Ids, NEW p, NEW q,
             Move(<<p, i>>, <<q, i>>) \/ End(<<p, i>>) \/ Begin(<<p, i>>),
             \A k \in Ids \ {i} : job'[k] = job[k],
             \A k \in Ids \ {i} : k \in twice => k \in twice',
             OnceOf(i)'
      PROVE  OnceInv'
  <2>1. \A k \in Ids \ {i} : Alike(k)
    BY <1>1, <1>4, Elsewhere
  <2>2. \A k \in Ids \ {i} : OnceOf(k)'
    BY <1>4, <2>1, OnceSame DEF HasRow
  <2> QED
    BY <1>4, <2>2 DEF OnceInv
<1>5. ASSUME NEW i \in Ids, NEW p \in Workers, NEW q \in Workers, p # q,
             Move(<<p, i>>, <<q, i>>), job' = job, twice' = twice
      PROVE  OnceInv'
  <2>1. OnceOf(i)'
    BY <1>1, <1>5, Singles, OnceMoved DEF HasRow
  <2> QED
    BY <1>4, <1>5, <2>1
<1>6. ASSUME NEW i \in Ids, NEW p \in Single, End(<<p, i>>), HasRow(i), NEW s \in Status,
             Write(i, s)
      PROVE  OnceInv'
  <2>1. /\ \A k \in Ids \ {i} : job'[k] = job[k]
        /\ job'[i].reused = job[i].reused /\ twice' = twice
    BY <1>1, <1>6, OnceWritten
  <2>2. OnceOf(i)'
    BY <1>1, <1>6, <2>1, OnceEnded
  <2> QED
    BY <1>4, <1>6, <2>1, <2>2
<1>7. ASSUME busy' = busy \/ \A k \in Ids : Alike(k),
             \A k \in Ids : HasRow(k)' =>
                 /\ HasRow(k) /\ job'[k].reused = job[k].reused
                 /\ job'[k].status = job[k].status \/ job'[k].status # "MANUAL_PAUSED",
             \A k \in Ids : k \in twice => k \in twice'
      PROVE  OnceInv'
  <2>1. \A k \in Ids : Alike(k)
    BY <1>7 DEF Alike
  <2>2. \A k \in Ids : OnceOf(k)'
    BY <1>7, <2>1, OnceSame
  <2> QED
    BY <2>2 DEF OnceInv
<1>8. ASSUME NEW s \in Folders, Touch(s) PROVE OnceInv'
  BY <1>7, <1>8 DEF Touch, history, HasRow
<1>9. ASSUME NEW s \in Sources, CheckSource(s) PROVE OnceInv'
  <2>1. \A k \in Ids : Alike(k)
    BY <1>1, <1>9, Singles, Places DEF CheckSource, Begin, Alike, TypeOK
  <2> QED
    BY <1>7, <1>9, <2>1 DEF CheckSource, HasRow
<1>10. ASSUME NEW s \in Sources, CreateJob(s) PROVE OnceInv'
  BY <1>1, <1>10, OnceCreated
<1>11. CASE \E i \in Ids : BeginScan(i) \/ BeginRip(i) \/ LoadForScan(i) \/ LoadForRip(i)
  BY <1>2, <1>5, <1>11 DEF BeginScan, BeginRip, LoadForScan, LoadForRip, history
<1>12. CASE \E i \in Ids : Park(i) \/ RipFails(i) \/ HandOff(i)
  BY <1>2, <1>6, <1>12 DEF Park, RipFails, HandOff, Status, Finished, Waiting
<1>13. ASSUME NEW i \in Ids, Ask(i, "start") PROVE OnceInv'
  <2>1. /\ HasRow(i) /\ job[i].status = "MANUAL_PAUSED" /\ job' = job
        /\ busy' = [busy EXCEPT ![<<"start", i>>] = @ + 1]
        /\ twice' = IF busy[<<"start", i>>] > 0 THEN twice \cup {i} ELSE twice
    BY <1>13 DEF Ask, Begin
  <2>2. \A w \in Single : /\ <<w, i>> \in Activities /\ busy[<<w, i>>] \in Nat
                          /\ busy'[<<w, i>>] = IF w = "start" THEN busy[<<w, i>>] + 1
                                                              ELSE busy[<<w, i>>]
    BY <1>1, <2>1, Singles DEF TypeOK
  <2>3. OnceOf(i)'
    <3> SUFFICES ASSUME ~job[i].reused, i \notin twice'
                 PROVE  /\ \A p, q \in Single : busy'[<<p, i>>] > 0 /\ busy'[<<q, i>>] > 0 =>
                               p = q /\ busy'[<<p, i>>] = 1
                        /\ \A p \in Workers : ~(busy'[<<p, i>>] > 0)
      BY <2>1 DEF OnceOf
    <3>1. ~(busy[<<"start", i>>] > 0) /\ i \notin twice
      BY <2>1
    <3>2. \A p \in Workers : ~(busy[<<p, i>>] > 0)
      BY <2>1, <3>1 DEF OnceInv, OnceOf
    <3>3. "start" \in Single /\ Workers = Single \ {"start"}
      BY <1>2
    <3>4. \A w \in Single : busy[<<w, i>>] = 0
      BY <2>2, <3>1, <3>2, <3>3
    <3>5. \A w \in Single : busy'[<<w, i>>] = IF w = "start" THEN 1 ELSE 0
      BY <2>2, <3>4
    <3> QED
      BY <3>3, <3>5
  <2> QED
    BY <1>4, <1>13, <2>1, <2>3 DEF Ask
<1>14. ASSUME NEW i \in Ids, Ask(i, "cancel") PROVE OnceInv'
  <2>1. \A k \in Ids : Alike(k)
    BY <1>1, <1>14, Singles, Elsewhere DEF Ask
  <2> QED
    BY <1>7, <1>14, <2>1 DEF Ask, HasRow
<1>15. ASSUME NEW i \in Ids, AbandonJob(i) \/ CancelJob(i) PROVE OnceInv'
  <2>1. HasRow(i) /\ Write(i, "FAILURE") /\ "FAILURE" \in Status
    BY <1>15 DEF AbandonJob, CancelJob, Status, Finished
  <2>2. /\ \A k \in Ids \ {i} : job'[k] = job[k]
        /\ job'[i].reused = job[i].reused /\ job'[i].status # "MANUAL_PAUSED"
        /\ twice' = twice
    BY <1>1, <2>1, OnceWritten
  <2>3. busy' = busy \/ \A k \in Ids : Alike(k)
    BY <1>1, <1>15, Singles, Elsewhere DEF AbandonJob, CancelJob
  <2> QED
    BY <1>7, <2>1, <2>2, <2>3 DEF HasRow
<1>16. ASSUME NEW i \in Ids, DeleteJob(i) PROVE OnceInv'
  <2>1. \A k \in Ids : HasRow(k)' => HasRow(k) /\ job'[k] = job[k]
    BY <1>1, <1>16 DEF DeleteJob, HasRow, TypeOK
  <2> QED
    BY <1>7, <1>16, <2>1 DEF DeleteJob, history
<1>17. ASSUME NEW i \in Ids, RowGone(i) PROVE OnceInv'
  <2>1. OnceOf(i)'
    BY <1>17 DEF RowGone, OnceOf, HasRow
  <2> QED
    BY <1>4, <1>17, <2>1 DEF RowGone, history
<1>18. ASSUME NEW i \in Ids, Forsake(i) PROVE OnceInv'
  <2>1. PICK p \in Workers : End(<<p, i>>)
    BY <1>18 DEF Forsake
  <2>2. OnceOf(i)'
    BY <1>1, <1>18, <2>1, Singles, OnceEnded DEF Forsake
  <2> QED
    BY <1>4, <1>18, <2>1, <2>2 DEF Forsake
<1>19. ASSUME NEW i \in Ids, NEW p \in Single, NEW q \in Workers, p # q,
              Move(<<p, i>>, <<q, i>>), HasRow(i), Write(i, "VIDEO_RIPPING")
       PROVE  OnceInv'
  <2>1. "VIDEO_RIPPING" \in Status
    BY DEF Status, Working
  <2>2. /\ \A k \in Ids \ {i} : job'[k] = job[k]
        /\ job'[i].reused = job[i].reused /\ job'[i].status # "MANUAL_PAUSED"
        /\ twice' = twice
    BY <1>1, <1>19, <2>1, OnceWritten
  <2>3. OnceOf(i)'
    BY <1>1, <1>19, <2>2, OnceMoved
  <2> QED
    BY <1>4, <1>19, <2>2, <2>3
<1>20. CASE \E i \in Ids : StartJob(i) \/ Prepare(i)
  BY <1>2, <1>19, <1>20 DEF StartJob, Prepare
<1>21. ASSUME NEW i \in Ids, NEW p \in Workers, NEW q \in Workers, p # q,
              Move(<<p, i>>, <<q, i>>), HasRow(i), NEW r, job' = [job EXCEPT ![i] = r],
              r.reused = job[i].reused, r.status = job[i].status, twice' = twice
       PROVE  OnceInv'
  <2>1. job'[i] = r /\ \A k \in Ids \ {i} : job'[k] = job[k]
    BY <1>1, <1>21 DEF TypeOK
  <2>2. OnceOf(i)'
    BY <1>1, <1>21, <2>1, Singles, OnceMoved
  <2> QED
    BY <1>4, <1>21, <2>1, <2>2
<1>22. ASSUME NEW i \in Ids, Scan(i) PROVE OnceInv'
  <2> PICK found \in BOOLEAN : job' = [job EXCEPT ![i].scanned = @ \/ found]
    BY <1>22 DEF Scan, IsDisc
  <2> DEFINE r == [job[i] EXCEPT !.scanned = @ \/ found]
  <2>1. /\ HasRow(i) /\ twice' = twice /\ job' = [job EXCEPT ![i] = r]
        /\ Move(<<"scan", i>>, <<"park", i>>)
    BY <1>22 DEF Scan, history
  <2>2. r.status = job[i].status /\ r.reused = job[i].reused
    BY <1>3, <2>1 DEF Rows
  <2> HIDE DEF r
  <2> QED
    BY <1>2, <1>21, <2>1, <2>2
<1>23. ASSUME NEW i \in Ids, Rip(i) PROVE OnceInv'
  <2> DEFINE r == [job[i] EXCEPT !.scanned = TRUE, !.ripped = TRUE]
  <2>1. /\ HasRow(i) /\ twice' = twice /\ job' = [job EXCEPT ![i] = r]
        /\ Move(<<"rip", i>>, <<"hand off", i>>)
    BY <1>23 DEF Rip, history
  <2>2. r.status = job[i].status /\ r.reused = job[i].reused
    BY <1>3, <2>1 DEF Rows
  <2> HIDE DEF r
  <2> QED
    BY <1>2, <1>21, <2>1, <2>2
<1>24. ASSUME NEW i \in Ids, Transcoded(i) PROVE OnceInv'
  <2>1. PICK s \in Finished : Write(i, s)
    BY <1>24 DEF Transcoded
  <2>2. HasRow(i) /\ busy' = busy /\ s \in Status /\ s # "MANUAL_PAUSED"
    BY <1>24 DEF Transcoded, Status, Finished
  <2>3. /\ \A k \in Ids \ {i} : job'[k] = job[k]
        /\ job'[i].reused = job[i].reused /\ job'[i].status # "MANUAL_PAUSED"
        /\ twice' = twice
    BY <1>1, <2>1, <2>2, OnceWritten
  <2> QED
    BY <1>7, <2>2, <2>3 DEF HasRow
<1>25. CASE Restart
  <2>1. \A w \in Single, k \in Ids : busy'[<<w, k>>] = 0
    BY <1>25, Singles DEF Restart
  <2>2. ASSUME NEW w \in Single, NEW k \in Ids PROVE ~(busy'[<<w, k>>] > 0)
    <3>1. ~(0 > 0)
      OBVIOUS
    <3> QED
      BY <2>1, <3>1, Zenon
  <2>3. Workers \subseteq Single
    BY Singles
  <2> QED
    BY <2>2, <2>3 DEF OnceInv, OnceOf
<1>26. CASE UNCHANGED vars
  BY <1>7, <1>26 DEF vars, HasRow
<1>27. ASSUME NEW i \in Ids, NEW call \in {"start", "cancel"}, Ask(i, call) PROVE OnceInv'
  BY <1>13, <1>14, <1>27
<1> QED
  BY <1>8, <1>9, <1>10, <1>11, <1>12, <1>15, <1>16, <1>17, <1>18, <1>20, <1>22, <1>23,
     <1>24, <1>25, <1>26, <1>27
  DEF Next, User, Server, Thread

-----------------------------------------------------------------------------
(* However many imports, calls, threads and restarts there are: a job that is *)
(* being scanned or ripped by its status is in somebody's hands, or a thread   *)
(* could not be started for it, or not write it, since its status was written  *)
(* and the container started (api/v1/folder.py, import_prescan.py,            *)
(* folder_ripper.py, job_cleanup.py).                                         *)
THEOREM NobodyForgotten == Spec => []Attended
<1>1. ImportInv => Attended
  BY DEF ImportInv
<1>2. QED
  BY <1>1, ImportInvariant, PTL

(* ... and one that succeeded, or was handed over, was ripped, unless a thread *)
(* of a deleted job has taken it for its own (folder_ripper.py,               *)
(* arm_ripper.py).                                                            *)
THEOREM HandedOverRipped == Spec => []RippedFirst
<1>1. ImportInv => RippedFirst
  BY DEF ImportInv
<1>2. QED
  BY <1>1, ImportInvariant, PTL

(* A source has one unfinished job, whatever calls, threads, deletions and   *)
(* restarts come between, unless two calls for it were both let in or the    *)
(* verdict of one of its jobs was overwritten (folder.py, iso.py).            *)
THEOREM SourcesOnce == Spec => []OnePerSource
<1>1. Init => SourceInv
  BY Places DEF Init, SourceInv, OnePerSource, Vouched, Unfinished, HasRow
<1>2. SourceInv => OnePerSource
  BY DEF SourceInv
<1>3. QED
  BY <1>1, <1>2, ImportInit, ImportStep, SourceStep, PTL DEF Spec

(* A job is ripped by one thread at a time, whatever is started, cancelled,  *)
(* abandoned, deleted or restarted, unless two calls both saw it wait or its *)
(* id had been another job's (api/v1/jobs.py, import_prescan.py,             *)
(* folder_ripper.py).                                                        *)
THEOREM NeverRippedTwice == Spec => []RippedOnce
<1>1. Init => OnceInv
  BY DEF Init, OnceInv, OnceOf, HasRow
<1>2. OnceInv => RippedOnce
  <2>1. Ripping \subseteq Single
    BY DEF Ripping, Single, Workers, Threads
  <2> QED
    BY <2>1 DEF OnceInv, OnceOf, RippedOnce
<1>3. QED
  BY <1>1, <1>2, ImportInit, ImportStep, OnceStep, PTL DEF Spec
=============================================================================
