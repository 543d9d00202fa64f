------------------------ MODULE DriveRegistry_proofs ------------------------
(***************************************************************************)
(* RipKeepsName and ScanTruthful for any number of devices, rows, rips and  *)
(* scans.                                                                   *)
(*                                                                          *)
(* RipKeepsName is not inductive: a scan acts on what it loaded. Two facts  *)
(* close it. While a scan is past its marking, no row of a calm rip is      *)
(* marked, so neither serial nor port leads to it, only its own name. And   *)
(* what a scan has in hand, in each of its places, agrees with that. A rip  *)
(* becomes calm only when there is no scan, so nothing in hand can be       *)
(* overtaken by it. For ScanTruthful see below.                             *)
(***************************************************************************)
EXTENDS DriveRegistry, TLAPS, WellFoundedInduction, NaturalsInduction

CalmRow(r) == Processing(r) /\ row[r].job \in calm

Past(s) == scan[s].at \notin {"idle", "purge", "delete", "mark"}

(* A job on a row is under way. *)
JobsUnderWay == \A r \in Ids : Processing(r) => devpath[row[r].job] # Blank

Unmarked ==
    \A s \in Scans, r \in Ids : Past(s) /\ CalmRow(r) => ~row[r].stale

InHand(s) ==
    /\ scan[s].at \in {"write", "clash", "blank"} => scan[s].left # {}
    /\ At(s, "write") /\ scan[s].id # 0 /\ CalmRow(scan[s].id) =>
         scan[s].old.mount = NextInfo(s).mount
    /\ At(s, "blank") => \A r \in scan[s].set : ~CalmRow(r)
    /\ At(s, "verdict") =>
         scan[s].id # 0 /\ (CalmRow(scan[s].id) => scan[s].old.job # NoJob)

RegistryInv ==
    /\ TypeOK
    /\ JobsUnderWay
    /\ RipKeepsName
    /\ Unmarked
    /\ \A s \in Scans : InHand(s)

LEMMA NamesAreNumbers == Names \subseteq Nat /\ Blank \notin Names /\ Blank \in Nat
BY RegistryAssumption DEF Blank

LEMMA IdsAreNumbers == Ids \subseteq Nat /\ 0 \notin Ids
BY RegistryAssumption DEF Ids

-----------------------------------------------------------------------------
(* Choices the code makes by order.                                         *)
LEMMA LeastNat ==
    ASSUME NEW S, S \subseteq Nat, S # {}
    PROVE  \E x \in S : \A y \in S : x <= y
<1> DEFINE Below == {ss \in Nat \X Nat : ss[1] < ss[2]}
<1>1. IsWellFoundedOn(Below, Nat)
  BY NatLessThanWellFounded DEF OpToRel
<1>2. \E x \in S : \A y \in S : ~(<<y, x>> \in Below)
  BY <1>1, WFMin
<1>3. \A x, y \in Nat : <<y, x>> \in Below <=> y < x
  OBVIOUS
<1>4. \A x, y \in Nat : ~(y < x) => x <= y
  OBVIOUS
<1>5. PICK x \in S : \A y \in S : ~(<<y, x>> \in Below)
  BY <1>2
<1> HIDE DEF Below
<1>6. \A y \in S : x \in Nat /\ y \in Nat /\ ~(y < x)
  BY <1>3, <1>5
<1> QED
  BY <1>4, <1>6

LEMMA LeastId ==
    ASSUME NEW S, S \subseteq Ids, S # {}
    PROVE  Min(S) \in S
<1>1. S \subseteq Nat
  BY IdsAreNumbers
<1>2. \E x \in S : \A y \in S : x <= y
  BY <1>1, LeastNat
<1> QED
  BY <1>2 DEF Min

(* The order of detection: some device comes first. *)
LEMMA FirstInfo ==
    ASSUME TypeOK, NEW s \in Scans, scan[s].left # {}
    PROVE  NextInfo(s) \in scan[s].left /\ NextInfo(s) \in Info
<1> DEFINE L == scan[s].left
           M == {i.mount : i \in L}
<1>1. L \subseteq Info
  BY DEF TypeOK, ScanState
<1>2. M \subseteq Nat /\ M # {}
  BY <1>1, NamesAreNumbers DEF Info
<1>3. PICK m \in M : \A n \in M : m <= n
  BY <1>2, LeastNat
<1>4. \E i \in L : \A k \in L : i.mount <= k.mount
  BY <1>3
<1> QED
  BY <1>1, <1>4 DEF NextInfo

(* The row a device gets is marked, or has its name already.                *)
LEMMA BestRowFits ==
    ASSUME TypeOK, NEW i \in Info
    PROVE  \/ BestRow(i) = 0
           \/ BestRow(i) \in Stale
           \/ BestRow(i) \in RowsAt(i.mount)
<1> DEFINE bySerial == {r \in Stale : row[r].serial = i.serial}
           byPort   == {r \in Stale : row[r].port = i.port}
           mounts   == {row[r].mount : r \in bySerial}
           first    == {r \in bySerial : row[r].mount = Min(mounts)}
<1>1. /\ bySerial \subseteq Ids /\ byPort \subseteq Ids
      /\ RowsAt(i.mount) \subseteq Ids
  BY DEF Stale, Rows, RowsAt
<1>2. ASSUME bySerial # {}
      PROVE  FirstByMount(bySerial) \in Stale
  <2>1. mounts \subseteq Nat
    <3>1. \A r \in bySerial : row[r] \in Row
      BY DEF TypeOK, Stale, Rows, Exists
    <3> QED
      BY <3>1, NamesAreNumbers DEF Row
  <2>2. Min(mounts) \in mounts
    BY <1>2, <2>1, LeastNat DEF Min
  <2>3. first # {} /\ first \subseteq Ids
    BY <1>1, <2>2
  <2>4. Min(first) \in first
    BY <2>3, LeastId
  <2> QED
    BY <2>4 DEF FirstByMount
<1>3. byPort # {} => Min(byPort) \in Stale
  BY <1>1, LeastId
<1>4. RowsAt(i.mount) # {} => Min(RowsAt(i.mount)) \in RowsAt(i.mount)
  BY <1>1, LeastId
<1> QED
  BY <1>2, <1>3, <1>4 DEF BestRow

-----------------------------------------------------------------------------
(* What every step of a scan does to the table: no rip gets or changes its   *)
(* row, and a calm one keeps name and mark.                                 *)
Gentle ==
    \A r \in Ids :
        /\ Processing(r)' => Processing(r) /\ row'[r].job = row[r].job
        /\ CalmRow(r)' => /\ row'[r].mount = row[r].mount
                          /\ row'[r].stale => row[r].stale

LEMMA InitInv == Init => RegistryInv
<1> SUFFICES ASSUME Init PROVE RegistryInv
  OBVIOUS
<1>1. NoScan \in ScanState
  BY NamesAreNumbers DEF NoScan, ScanState, Places, NoRow, Row, Serials
<1>2. TypeOK
  BY <1>1, RegistryAssumption DEF Init, TypeOK, Absent
<1>3. \A r \in Ids : ~Exists(r)
  BY DEF Init, Exists
<1> QED
  BY <1>2, <1>3 DEF Init, RegistryInv, JobsUnderWay, RipKeepsName, Unmarked, InHand, Past,
                    Processing, CalmRow, At, NoScan

(* Another scan's hands are as they were. *)
LEMMA OtherHands ==
    ASSUME RegistryInv, NEW t \in Scans, scan'[t] = scan[t],
           \A r \in Ids : CalmRow(r)' => CalmRow(r)
    PROVE  InHand(t)'
<1>1. scan[t].id \in {0} \cup Ids /\ scan[t].set \subseteq Ids
  BY DEF RegistryInv, TypeOK, ScanState
<1>2. InHand(t)
  BY DEF RegistryInv
<1>3. NextInfo(t)' = NextInfo(t)
  BY DEF NextInfo
<1> QED
  BY <1>1, <1>2, <1>3 DEF InHand, At

LEMMA ScanStep ==
    ASSUME RegistryInv, TypeOK', UNCHANGED <<devpath, calm>>, NEW s \in Scans,
           \A t \in Scans \ {s} : scan'[t] = scan[t],
           Gentle, InHand(s)',
           Past(s)' => \A r \in Ids : CalmRow(r)' => ~row'[r].stale
    PROVE  RegistryInv'
<1>1. \A r \in Ids : CalmRow(r)' => CalmRow(r)
  BY DEF Gentle, CalmRow
<1>2. JobsUnderWay'
  BY DEF RegistryInv, JobsUnderWay, Gentle
<1>3. RipKeepsName'
  BY <1>1 DEF RegistryInv, RipKeepsName, Gentle, CalmRow
<1>4. Unmarked'
  <2> SUFFICES ASSUME NEW t \in Scans, NEW r \in Ids, Past(t)', CalmRow(r)'
               PROVE  ~row'[r].stale
    BY DEF Unmarked
  <2>1. CASE t = s
    BY <2>1
  <2>2. CASE t # s
    <3>1. Past(t)
      BY <2>2 DEF Past
    <3>2. ~row[r].stale
      BY <1>1, <3>1 DEF RegistryInv, Unmarked
    <3> QED
      BY <3>2 DEF Gentle
  <2> QED
    BY <2>1, <2>2
<1>5. \A t \in Scans : InHand(t)'
  BY <1>1, OtherHands
<1> QED
  BY <1>2, <1>3, <1>4, <1>5 DEF RegistryInv

(* A scan that only moves on. *)
LEMMA OnlyMoves ==
    ASSUME RegistryInv, NEW s \in Scans, NEW state \in ScanState, Goto(s, state),
           begun' \in 0 .. MaxScans, alone' \subseteq Scans,
           UNCHANGED <<row, plug, replugs, devpath, calm>>,
           InHand(s)', Past(s)' => Past(s) \/ \A r \in Ids : CalmRow(r) => ~row[r].stale
    PROVE  RegistryInv'
<1>1. TypeOK'
  BY DEF RegistryInv, TypeOK, Goto
<1>2. \A t \in Scans \ {s} : scan'[t] = scan[t]
  BY DEF RegistryInv, TypeOK, Goto
<1>3. Gentle
  BY DEF Gentle, Processing, Exists, CalmRow
<1>4. Past(s)' => \A r \in Ids : CalmRow(r)' => ~row'[r].stale
  BY DEF RegistryInv, Unmarked, CalmRow, Processing, Exists
<1> QED
  BY <1>1, <1>2, <1>3, <1>4, ScanStep

LEMMA ScanTyped ==
    ASSUME RegistryInv, NEW s \in Scans
    PROVE  /\ scan[s] \in ScanState
           /\ \A p \in Places : Keep(s, p) \in ScanState
           /\ NoScan \in ScanState
           /\ scan \in [Scans -> ScanState]
<1>1. NoScan \in ScanState
  BY NamesAreNumbers DEF NoScan, ScanState, Places, NoRow, Row, Serials
<1>2. scan[s] \in ScanState
  BY DEF RegistryInv, TypeOK
<1>3. \A p \in Places : Keep(s, p) \in ScanState
  BY <1>2 DEF Keep, ScanState
<1> QED
  BY <1>1, <1>2, <1>3 DEF RegistryInv, TypeOK

-----------------------------------------------------------------------------
(* The steps that leave the table alone.                                    *)
LEMMA BeginKeeps ==
    ASSUME RegistryInv, NEW s \in Scans, Begin(s) \/ \E r \in Ids : AskDelete(s, r)
    PROVE  RegistryInv'
<1>1. begun' \in 0 .. MaxScans
  <2>1. begun \in 0 .. MaxScans
    BY DEF RegistryInv, TypeOK
  <2>2. begun < MaxScans /\ begun' = begun + 1
    BY DEF Begin, AskDelete
  <2> QED
    BY <2>1, <2>2, RegistryAssumption
<1>2. PICK state \in ScanState : Goto(s, state) /\ state.at \in {"mark", "purge", "delete"}
  <2>1. CASE Goto(s, [NoScan EXCEPT !.at = "mark"])
    <3>1. [NoScan EXCEPT !.at = "mark"] \in ScanState
      BY ScanTyped DEF ScanState, Places
    <3> QED
      BY <2>1, <3>1 DEF NoScan
  <2>2. ASSUME NEW S \in SUBSET Ids, NEW p \in {"purge", "delete"},
               Goto(s, [NoScan EXCEPT !.at = p, !.set = S])
        PROVE  \E x \in ScanState : Goto(s, x) /\ x.at \in {"mark", "purge", "delete"}
    <3>1. [NoScan EXCEPT !.at = p, !.set = S] \in ScanState
      BY ScanTyped DEF ScanState, Places
    <3> QED
      BY <2>2, <3>1 DEF NoScan
  <2>3. {r \in Rows : ~Processing(r)} \in SUBSET Ids /\ \A r \in Ids : {r} \in SUBSET Ids
    BY DEF Rows
  <2> QED
    BY <2>1, <2>2, <2>3 DEF Begin, AskDelete
<1>4. scan'[s].at \in {"mark", "purge", "delete"}
  BY <1>2, ScanTyped DEF Goto
<1>5. InHand(s)' /\ ~Past(s)'
  BY <1>4 DEF InHand, Past, At
<1>6. alone' \subseteq Scans
  BY DEF Begin, AskDelete
<1> QED
  BY <1>1, <1>2, <1>5, <1>6, OnlyMoves DEF Begin, AskDelete

LEMMA EndKeeps ==
    ASSUME RegistryInv, NEW s \in Scans, End(s)
    PROVE  RegistryInv'
<1>1. scan'[s].at = "idle"
  BY ScanTyped DEF End, Goto, NoScan
<1>2. InHand(s)' /\ ~Past(s)'
  BY <1>1 DEF InHand, Past, At
<1> QED
  BY <1>2, ScanTyped, OnlyMoves DEF End, RegistryInv, TypeOK

LEMMA FindKeeps ==
    ASSUME RegistryInv, NEW s \in Scans, Find(s)
    PROVE  RegistryInv'
<1>1. PICK i \in Info : i = NextInfo(s)
  BY FirstInfo DEF RegistryInv, Find
<1>2. PICK r : r = BestRow(i)
  OBVIOUS
<1>3. r = 0 \/ r \in Stale \/ r \in RowsAt(i.mount)
  BY <1>2, BestRowFits DEF RegistryInv
<1>4. r \in {0} \cup Ids /\ (r # 0 => row[r] \in Row)
  BY <1>3 DEF Stale, RowsAt, Rows, RegistryInv, TypeOK, Exists
<1>5. PICK old \in Row : old = IF r = 0 THEN NoRow ELSE row[r]
  BY <1>4, NamesAreNumbers DEF NoRow, Row, Serials
<1> DEFINE state == [Keep(s, "write") EXCEPT !.id = r, !.old = old]
<1>6. state \in ScanState
  <2>1. Keep(s, "write") \in ScanState
    BY ScanTyped DEF Places
  <2> QED
    BY <1>4, <1>5, <2>1 DEF ScanState
<1>7. Goto(s, state)
  BY <1>1, <1>2, <1>5 DEF Find
<1>8. /\ scan'[s].at = "write" /\ scan'[s].left = scan[s].left /\ scan'[s].id = r
      /\ scan'[s].old = old
  BY <1>7, ScanTyped DEF Keep, ScanState, Goto
<1>9. scan[s].left # {} /\ Past(s)
  BY DEF Past, Find, At
<1>10. NextInfo(s)' = i
  BY <1>1, <1>8 DEF NextInfo
<1>11. r # 0 /\ CalmRow(r) => row[r].mount = i.mount
  BY <1>3, <1>4, <1>9 DEF Stale, RowsAt, RegistryInv, Unmarked
<1>12. UNCHANGED <<row, plug, replugs, devpath, calm>>
  BY DEF Find, OnlyScan
<1>13. CalmRow(r)' <=> CalmRow(r)
  BY <1>12 DEF CalmRow, Processing, Exists
<1>14. InHand(s)'
  BY <1>5, <1>8, <1>9, <1>10, <1>11, <1>13 DEF InHand, At
<1>15. begun' \in 0 .. MaxScans /\ alone' \subseteq Scans
  BY DEF Find, OnlyScan, RegistryInv, TypeOK
<1> QED
  BY <1>6, <1>7, <1>9, <1>12, <1>14, <1>15, OnlyMoves

LEMMA QuietScan ==
    ASSUME RegistryInv, NEW s \in Scans,
           Detect(s) \/ Clash(s) \/ ListStale(s) \/ Report(s) \/ \E r \in Ids : LookAt(s, r)
    PROVE  RegistryInv'
<1> USE ScanTyped
<1>1. /\ begun' \in 0 .. MaxScans /\ alone' \subseteq Scans
      /\ UNCHANGED <<row, plug, replugs, devpath, calm>>
  BY DEF Detect, Clash, ListStale, Report, LookAt, OnlyScan, RegistryInv, TypeOK
<1>2. \A r \in Ids : CalmRow(r)' <=> CalmRow(r)
  BY <1>1 DEF CalmRow, Processing, Exists
<1>3. ASSUME NEW p \in {"find", "blank", "clean", "verdict", "report"}, NEW state \in ScanState,
             Goto(s, state), state.at = p,
             Past(s),
             p = "blank" => state.left # {} /\ \A r \in state.set : ~CalmRow(r),
             p = "verdict" => state.id # 0 /\ (CalmRow(state.id) => state.old.job # NoJob)
      PROVE  RegistryInv'
  <2>1. scan'[s] = state
    BY <1>3 DEF Goto
  <2>2. state.set \subseteq Ids /\ state.id \in {0} \cup Ids
    BY DEF ScanState
  <2>3. InHand(s)'
    BY <1>2, <1>3, <2>1, <2>2 DEF InHand, At
  <2> QED
    BY <1>1, <1>3, <2>3, OnlyMoves
<1>4. CASE Detect(s)
  <2> DEFINE state == [NoScan EXCEPT !.at = "find", !.left = Present, !.found = Present]
  <2>1. Present \subseteq Info
    <3> SUFFICES ASSUME NEW d \in Devices, plug[d].name # Blank
                 PROVE  [serial |-> SerialOf[d], mount |-> plug[d].name, port |-> plug[d].port]
                            \in Info
      BY DEF Present
    <3>1. plug[d].name \in Names /\ plug[d].port \in Ports \cup {Blank}
      BY DEF RegistryInv, TypeOK, Plug
    <3> QED
      BY <3>1 DEF Info, Serials
  <2>2. state \in ScanState /\ state.at = "find"
    BY <2>1 DEF ScanState, NoScan, Places
  <2>3. Goto(s, state) /\ Past(s)
    BY <1>4 DEF Detect, Past, At
  <2> QED
    BY <1>3, <2>2, <2>3
<1>5. CASE Clash(s)
  <2> DEFINE S == {r \in RowsAt(row[scan[s].id].mount) \ {scan[s].id} : ~Processing(r)}
             state == [Keep(s, "blank") EXCEPT !.set = S]
  <2>1. S \subseteq Ids /\ \A r \in S : ~CalmRow(r)
    BY DEF RowsAt, Rows, CalmRow
  <2>2. scan[s].left # {} /\ Past(s)
    BY <1>5 DEF RegistryInv, InHand, Clash, At, Past
  <2> HIDE DEF S
  <2>3. Keep(s, "blank") \in ScanState /\ state \in ScanState
    <3>1. Keep(s, "blank") \in ScanState
      BY DEF Places
    <3> QED
      BY <2>1, <3>1 DEF ScanState
  <2>4. state.at = "blank" /\ state.left = scan[s].left /\ state.set = S
    BY DEF ScanState, Keep
  <2>5. Goto(s, state)
    BY <1>5 DEF Clash, S
  <2> HIDE DEF state
  <2> QED
    BY <1>3, <2>1, <2>2, <2>3, <2>4, <2>5
<1>6. CASE ListStale(s)
  <2> DEFINE state == [Keep(s, "clean") EXCEPT !.set = Stale]
  <2>1. state \in ScanState /\ state.at = "clean"
    <3>1. Keep(s, "clean") \in ScanState /\ Keep(s, "clean").at = "clean"
      <4>1. Keep(s, "clean") \in ScanState
        BY DEF Places
      <4> QED
        BY <4>1 DEF ScanState, Keep
    <3>2. Stale \subseteq Ids
      BY DEF Stale, Rows
    <3> QED
      BY <3>1, <3>2 DEF ScanState
  <2>2. Goto(s, state) /\ Past(s)
    BY <1>6 DEF ListStale, Past, At
  <2> QED
    BY <1>3, <2>1, <2>2
<1>7. CASE Report(s)
  <2>1. Keep(s, "report") \in ScanState /\ Keep(s, "report").at = "report"
    <3>1. Keep(s, "report") \in ScanState
      BY DEF Places
    <3> QED
      BY <3>1 DEF ScanState, Keep
  <2>2. Goto(s, Keep(s, "report")) /\ Past(s)
    BY <1>7 DEF Report, Past, At
  <2> QED
    BY <1>3, <2>1, <2>2
<1>8. ASSUME NEW r \in Ids, LookAt(s, r) PROVE RegistryInv'
  <2> DEFINE state == [Keep(s, "verdict") EXCEPT !.id = r, !.old = row[r]]
  <2>1. row[r] \in Row
    BY <1>8 DEF LookAt, Exists, RegistryInv, TypeOK
  <2>2. state \in ScanState
    <3>1. Keep(s, "verdict") \in ScanState
      BY DEF Places
    <3> QED
      BY <2>1, <3>1 DEF ScanState
  <2>3. state.at = "verdict" /\ state.id = r /\ state.old = row[r]
    BY DEF ScanState, Keep
  <2>4. Goto(s, state) /\ Past(s)
    BY <1>8 DEF LookAt, Past, At
  <2>5. r # 0 /\ (CalmRow(r) => row[r].job # NoJob)
    BY IdsAreNumbers DEF CalmRow, Processing
  <2> HIDE DEF state
  <2> QED
    BY <1>3, <2>2, <2>3, <2>4, <2>5
<1> QED
  BY <1>4, <1>5, <1>6, <1>7, <1>8

-----------------------------------------------------------------------------
(* The steps that write rows.                                               *)
LEMMA Writes ==
    ASSUME RegistryInv, NEW s \in Scans, NEW state \in ScanState, Goto(s, state),
           row' \in [Ids -> Row \cup {Absent}],
           UNCHANGED <<plug, replugs, devpath, begun, calm, alone>>,
           Gentle,
           \/ state.at \in {"idle", "mark"}
           \/ /\ state.at \in {"detect", "find", "clash", "clean"}
              /\ state.at = "clash" => state.left # {}
              /\ Past(s) \/ \A r \in Ids : CalmRow(r)' => ~row'[r].stale
    PROVE  RegistryInv'
<1>1. TypeOK'
  BY DEF RegistryInv, TypeOK, Goto
<1>2. scan'[s] = state /\ \A t \in Scans \ {s} : scan'[t] = scan[t]
  BY ScanTyped DEF Goto
<1>3. InHand(s)'
  BY <1>2 DEF InHand, At
<1>4. Past(s)' => \A r \in Ids : CalmRow(r)' => ~row'[r].stale
  BY <1>2 DEF Past, RegistryInv, Unmarked, Gentle, CalmRow
<1> QED
  BY <1>1, <1>2, <1>3, <1>4, ScanStep

LEMMA RowTyped ==
    ASSUME RegistryInv, NEW r \in Ids
    PROVE  Exists(r) => row[r] \in Row
BY DEF RegistryInv, TypeOK, Exists

LEMMA AbsentIsNoRow == Absent \notin Row
<1>1. \A x \in Row : x = [serial |-> x.serial, mount |-> x.mount, port |-> x.port,
                         stale |-> x.stale, job |-> x.job]
  BY DEF Row
<1>2. DOMAIN Absent = {"absent"} /\ \A x \in Row : "job" \in DOMAIN x
  BY <1>1 DEF Absent, Row
<1> QED
  BY <1>2

LEMMA RemoveKeeps ==
    ASSUME RegistryInv, NEW s \in Scans, Remove(s)
    PROVE  RegistryInv'
<1>1. PICK state \in ScanState : Goto(s, state) /\ state.at \in {"idle", "mark"}
  <2>1. [NoScan EXCEPT !.at = "mark"] \in ScanState
    BY ScanTyped DEF ScanState, Places
  <2> QED
    BY <2>1, ScanTyped DEF Remove, NoScan
<1>2. \A r \in Ids : row'[r] = row[r] \/ row'[r] = Absent
  BY DEF Remove
<1>3. row' \in [Ids -> Row \cup {Absent}]
  BY DEF Remove, RegistryInv, TypeOK
<1>4. Gentle
  BY <1>2 DEF Gentle, Processing, Exists, CalmRow, Remove
<1> QED
  BY <1>1, <1>3, <1>4, Writes DEF Remove

LEMMA MarkKeeps ==
    ASSUME RegistryInv, NEW s \in Scans, Mark(s)
    PROVE  RegistryInv'
<1> DEFINE state == [NoScan EXCEPT !.at = "detect"]
<1>1. state \in ScanState /\ state.at = "detect"
  BY ScanTyped DEF ScanState, Places, NoScan
<1>2. \A r \in Ids : \/ ~Exists(r) /\ row'[r] = Absent
                     \/ Exists(r) /\ row'[r] = [row[r] EXCEPT !.stale = ~Processing(r)]
  BY DEF Mark
<1>3. \A r \in Ids : Processing(r) \in BOOLEAN
  BY DEF Processing
<1>4. \A r \in Ids : \/ row'[r] = Absent
                     \/ /\ Exists(r) /\ row'[r] \in Row
                        /\ row'[r].job = row[r].job /\ row'[r].mount = row[r].mount
                        /\ row'[r].stale = ~Processing(r)
  <2> TAKE r \in Ids
  <2>1. PICK free \in BOOLEAN : free = ~Processing(r)
    BY <1>3
  <2>2. CASE Exists(r)
    <3>1. row[r] \in Row /\ row'[r] = [row[r] EXCEPT !.stale = free]
      BY <1>2, <2>1, <2>2, RowTyped
    <3>2. row'[r] \in Row /\ row'[r].stale = free
          /\ row'[r].job = row[r].job /\ row'[r].mount = row[r].mount
      BY <3>1 DEF Row
    <3> QED
      BY <2>1, <2>2, <3>2
  <2>3. CASE ~Exists(r)
    BY <1>2, <2>3
  <2> QED
    BY <2>2, <2>3
<1>5. row' \in [Ids -> Row \cup {Absent}]
  BY <1>4 DEF Mark
<1>6. \A r \in Ids : Processing(r)' => /\ Processing(r) /\ row'[r].job = row[r].job
                                       /\ row'[r].mount = row[r].mount /\ ~row'[r].stale
  BY <1>4 DEF Processing, Exists
<1>7. Gentle /\ \A r \in Ids : CalmRow(r)' => ~row'[r].stale
  BY <1>6 DEF Gentle, CalmRow
<1> QED
  BY <1>1, <1>5, <1>7, Writes DEF Mark

(* The columns a device brings: none of them is the job, and where the name  *)
(* is the one the row had when it was loaded, it is left alone.             *)
LEMMA WriteKeeps ==
    ASSUME RegistryInv, NEW s \in Scans, Write(s)
    PROVE  RegistryInv'
<1>1. PICK i \in Info : i = NextInfo(s)
  BY FirstInfo DEF RegistryInv, InHand, Write, At
<1>2. Past(s) /\ scan[s].left # {}
  BY DEF Write, At, Past, RegistryInv, InHand
<1>3. Keep(s, "clash") \in ScanState
  BY ScanTyped DEF Places
<1>4. CASE scan[s].id # 0
  <2>1. PICK r \in Ids : r = scan[s].id
    BY <1>4, ScanTyped DEF ScanState
  <2> DEFINE old == scan[s].old
             state == [Keep(s, "clash") EXCEPT !.old = NoRow]
  <2>2. Exists(r) /\ row' = [row EXCEPT ![r] = Written(row[r], old, i)] /\ Goto(s, state)
    BY <1>1, <1>4, <2>1 DEF Write
  <2>3. Written(row[r], old, i) \in Row
    <3>1. i.serial \in Serials /\ i.mount \in Names /\ i.port \in Ports \cup {Blank}
      BY DEF Info
    <3>2. row[r] \in Row
      BY <2>2, RowTyped
    <3> QED
      BY <3>1, <3>2 DEF Written, Row
  <2>4. /\ Written(row[r], old, i).job = row[r].job
        /\ old.mount = i.mount => Written(row[r], old, i).mount = row[r].mount
        /\ Written(row[r], old, i).stale => row[r].stale
    BY <2>2, RowTyped DEF Written, Row
  <2>5. CalmRow(r) => old.mount = i.mount
    BY <1>1, <2>1, IdsAreNumbers DEF RegistryInv, InHand, Write, At
  <2>6. row' \in [Ids -> Row \cup {Absent}] /\ row'[r] = Written(row[r], old, i)
        /\ \A q \in Ids \ {r} : row'[q] = row[q]
    BY <2>2, <2>3 DEF RegistryInv, TypeOK
  <2>7. calm' = calm
    BY DEF Write
  <2>8. Gentle
    BY <2>2, <2>4, <2>5, <2>6, <2>7 DEF Gentle, CalmRow, Processing, Exists
  <2>9. NoRow \in Row
    BY NamesAreNumbers DEF NoRow, Row, Serials
  <2>10. state \in ScanState /\ state.at = "clash" /\ state.left = scan[s].left
    BY <1>3, <2>9, ScanTyped DEF ScanState, Keep
  <2> HIDE DEF state
  <2> QED
    BY <1>2, <2>2, <2>6, <2>8, <2>10, Writes DEF Write
<1>5. CASE scan[s].id = 0
  <2> DEFINE new == [serial |-> i.serial, mount |-> i.mount, port |-> i.port,
                     stale |-> FALSE, job |-> NoJob]
             state == [Keep(s, "clash") EXCEPT !.id = NewId]
  <2>1. NewId \in Ids /\ row' = [row EXCEPT ![NewId] = new] /\ Goto(s, state)
    BY <1>1, <1>5 DEF Write
  <2>2. new \in Row
    BY DEF Row, Info
  <2>3. row' \in [Ids -> Row \cup {Absent}] /\ row'[NewId] = new
        /\ \A q \in Ids \ {NewId} : row'[q] = row[q]
    BY <2>1, <2>2 DEF RegistryInv, TypeOK
  <2>4. calm' = calm
    BY DEF Write
  <2>5. Gentle
    BY <2>3, <2>4 DEF Gentle, CalmRow, Processing, Exists
  <2>6. state \in ScanState /\ state.at = "clash" /\ state.left = scan[s].left
    BY <1>3, <2>1, ScanTyped DEF ScanState, Keep
  <2> HIDE DEF state
  <2> QED
    BY <1>2, <2>1, <2>3, <2>5, <2>6, Writes DEF Write
<1> QED
  BY <1>4, <1>5

LEMMA BlankOthersKeeps ==
    ASSUME RegistryInv, NEW s \in Scans, BlankOthers(s)
    PROVE  RegistryInv'
<1> DEFINE S == scan[s].set
           state == [Keep(s, "find") EXCEPT !.left = @ \ {NextInfo(s)}, !.set = {}, !.id = 0]
<1>1. S \subseteq Rows /\ \A r \in S : ~CalmRow(r)
  BY DEF BlankOthers, RegistryInv, InHand, At
<1>2. \A r \in Ids : \/ r \notin S /\ row'[r] = row[r]
                     \/ r \in S /\ Exists(r) /\ row'[r] = [row[r] EXCEPT !.mount = Blank]
  BY <1>1 DEF BlankOthers, Rows
<1>3. \A r \in Ids : \/ r \notin S /\ row'[r] = row[r]
                     \/ /\ r \in S /\ Exists(r) /\ row'[r] \in Row
                        /\ row'[r].job = row[r].job /\ row'[r].stale = row[r].stale
  BY <1>2, RowTyped DEF Row
<1>4. row' \in [Ids -> Row \cup {Absent}]
  BY <1>3 DEF BlankOthers, RegistryInv, TypeOK
<1>5. calm' = calm
  BY DEF BlankOthers
<1> HIDE DEF S
<1>6. Gentle
  BY <1>1, <1>3, <1>5 DEF Gentle, CalmRow, Processing, Exists
<1>7. state \in ScanState /\ state.at = "find"
  <2>1. Keep(s, "find") \in ScanState
    BY ScanTyped DEF Places
  <2> QED
    BY <2>1, ScanTyped DEF ScanState, Keep
<1>8. Goto(s, state) /\ Past(s)
  BY DEF BlankOthers, Past, At
<1> HIDE DEF state
<1> QED
  BY <1>4, <1>6, <1>7, <1>8, Writes DEF BlankOthers

LEMMA VerdictKeeps ==
    ASSUME RegistryInv, NEW s \in Scans, Verdict(s)
    PROVE  RegistryInv'
<1>1. PICK r \in Ids : r = scan[s].id
  BY ScanTyped DEF ScanState, RegistryInv, InHand, Verdict, At
<1> DEFINE state == [Keep(s, "clean") EXCEPT !.set = @ \ {r}, !.id = 0, !.old = NoRow]
           hadJob == scan[s].old.job # NoJob
           new == IF hadJob THEN [row[r] EXCEPT !.stale = FALSE]
                            ELSE [row[r] EXCEPT !.mount = Blank, !.port = Blank]
<1>2. Exists(r) /\ row' = [row EXCEPT ![r] = new] /\ Goto(s, state) /\ calm' = calm
  BY <1>1 DEF Verdict
<1>3. CalmRow(r) => hadJob
  BY <1>1 DEF RegistryInv, InHand, Verdict, At
<1> HIDE DEF hadJob
<1>4. /\ new \in Row /\ new.job = row[r].job
      /\ hadJob => new.mount = row[r].mount /\ ~new.stale
  BY <1>2, RowTyped, NamesAreNumbers DEF Row
<1>5. row' \in [Ids -> Row \cup {Absent}] /\ row'[r] = new
      /\ \A q \in Ids \ {r} : row'[q] = row[q]
  BY <1>2, <1>4 DEF RegistryInv, TypeOK
<1>6. Gentle
  BY <1>2, <1>3, <1>4, <1>5 DEF Gentle, CalmRow, Processing, Exists
<1>7. state \in ScanState /\ state.at = "clean"
  <2>1. Keep(s, "clean") \in ScanState /\ NoRow \in Row
    BY ScanTyped, NamesAreNumbers DEF Places, NoRow, Row, Serials
  <2> QED
    BY <2>1, ScanTyped DEF ScanState, Keep
<1>8. Past(s)
  BY DEF Verdict, Past, At
<1> HIDE DEF state
<1> QED
  BY <1>2, <1>5, <1>6, <1>7, <1>8, Writes DEF Verdict

LEMMA ScanKeeps ==
    ASSUME RegistryInv, NEW s \in Scans, Scan(s)
    PROVE  RegistryInv'
<1>1. RemoveFails(s) \/ Lost(s) \/ CleanLost(s) \/ Return(s) => End(s)
  BY DEF RemoveFails, Lost, CleanLost, Return
<1> QED
  BY <1>1, BeginKeeps, EndKeeps, FindKeeps, QuietScan, RemoveKeeps, MarkKeeps, WriteKeeps,
     BlankOthersKeeps, VerdictKeeps DEF Scan

-----------------------------------------------------------------------------
(* The host and the rips.                                                   *)
LEMMA HandsStay ==
    ASSUME RegistryInv, UNCHANGED scan, \A r \in Ids : CalmRow(r)' => CalmRow(r)
    PROVE  \A t \in Scans : InHand(t)'
BY OtherHands

LEMMA ReplugKeeps ==
    ASSUME RegistryInv, NEW d \in Devices, NEW n \in Names \cup {Blank},
           NEW p \in Ports \cup {Blank}, Replug(d, n, p)
    PROVE  RegistryInv'
<1>1. TypeOK'
  <2>1. plug' \in [Devices -> Plug]
    BY DEF RegistryInv, TypeOK, Replug, Plug
  <2>2. replugs' \in 0 .. MaxReplugs
    <3>1. replugs \in 0 .. MaxReplugs
      BY DEF RegistryInv, TypeOK
    <3>2. replugs < MaxReplugs /\ replugs' = replugs + 1
      BY DEF Replug
    <3> QED
      BY <3>1, <3>2, RegistryAssumption
  <2> QED
    BY <2>1, <2>2 DEF RegistryInv, TypeOK, Replug
<1>2. UNCHANGED <<row, devpath, scan, calm>>
  BY DEF Replug
<1>3. \A r \in Ids : CalmRow(r)' <=> CalmRow(r)
  BY <1>2 DEF CalmRow, Processing, Exists
<1>4. \A t \in Scans : InHand(t)'
  BY <1>2, <1>3, HandsStay
<1> QED
  BY <1>1, <1>2, <1>3, <1>4
     DEF RegistryInv, JobsUnderWay, RipKeepsName, Unmarked, Past, Processing, Exists

LEMMA DetachKeeps ==
    ASSUME RegistryInv, NEW j \in Jobs, Detach(j)
    PROVE  RegistryInv'
<1>1. \A r \in Ids : \/ Exists(r) /\ row[r].job = j /\ row'[r] = [row[r] EXCEPT !.job = NoJob]
                     \/ ~(Exists(r) /\ row[r].job = j) /\ row'[r] = row[r]
  BY DEF Detach
<1>2. \A r \in Ids : \/ row'[r] \in Row /\ row'[r].job = NoJob
                     \/ (~Exists(r) \/ row[r].job # j) /\ row'[r] = row[r]
  BY <1>1, RowTyped DEF Row
<1>3. row' \in [Ids -> Row \cup {Absent}]
  BY <1>2 DEF Detach, RegistryInv, TypeOK
<1>4. /\ calm' = calm \ {j} /\ devpath' = [devpath EXCEPT ![j] = Blank]
      /\ UNCHANGED <<plug, replugs, scan, begun>> /\ alone' = {}
  BY DEF Detach
<1>5. TypeOK'
  BY <1>3, <1>4 DEF RegistryInv, TypeOK
<1>6. \A r \in Ids : Processing(r)' => /\ Processing(r) /\ row'[r] = row[r]
                                       /\ row[r].job # j
  BY <1>2 DEF Processing, Exists
<1>7. \A r \in Ids : CalmRow(r)' => CalmRow(r)
  BY <1>4, <1>6 DEF CalmRow
<1>8. \A r \in Ids : Processing(r)' => devpath'[row'[r].job] = devpath[row[r].job]
  <2> SUFFICES ASSUME NEW r \in Ids, Processing(r)'
               PROVE  devpath'[row'[r].job] = devpath[row[r].job]
    OBVIOUS
  <2>1. row[r].job \in Jobs /\ row[r].job # j /\ row'[r] = row[r]
    BY <1>6, RowTyped DEF Row, Processing
  <2>2. devpath \in [Jobs -> Names \cup {Blank}]
    BY DEF RegistryInv, TypeOK
  <2> QED
    BY <1>4, <2>1, <2>2
<1>9. JobsUnderWay'
  BY <1>6, <1>8 DEF RegistryInv, JobsUnderWay
<1>10. RipKeepsName'
  BY <1>4, <1>6, <1>8 DEF RegistryInv, RipKeepsName
<1>11. Unmarked'
  BY <1>4, <1>6, <1>7 DEF RegistryInv, Unmarked, Past, CalmRow
<1> QED
  BY <1>4, <1>5, <1>7, <1>9, <1>10, <1>11, HandsStay DEF RegistryInv

LEMMA AttachKeeps ==
    ASSUME RegistryInv, NEW j \in Jobs, NEW n \in Names, Attach(j, n)
    PROVE  RegistryInv'
<1>1. PICK S : S = RowsAt(n)
  OBVIOUS
<1>2. /\ devpath[j] = Blank /\ devpath' = [devpath EXCEPT ![j] = n]
      /\ UNCHANGED <<plug, replugs, scan, begun>> /\ alone' = {}
      /\ row' = IF S = {} THEN row ELSE [row EXCEPT ![Min(S)].job = j]
      /\ calm' = IF \A s \in Scans : Idle(s) THEN calm \cup {j} ELSE calm \ {j}
  BY <1>1 DEF Attach
<1>3. S # {} => Min(S) \in Ids /\ Exists(Min(S)) /\ row[Min(S)].mount = n
  <2>1. S \subseteq Ids
    BY <1>1 DEF RowsAt, Rows
  <2> QED
    BY <1>1, <2>1, LeastId DEF RowsAt, Rows
<1>4. \A r \in Ids : \/ row'[r] = row[r]
                     \/ /\ Exists(r) /\ row[r].mount = n
                        /\ row'[r] = [row[r] EXCEPT !.job = j]
  BY <1>2, <1>3 DEF RegistryInv, TypeOK
<1>5. \A r \in Ids : \/ row'[r] = row[r]
                     \/ row'[r] \in Row /\ row'[r].job = j /\ row'[r].mount = n
  BY <1>4, RowTyped DEF Row
<1>6. row' \in [Ids -> Row \cup {Absent}]
  BY <1>2, <1>5 DEF RegistryInv, TypeOK
<1>7. TypeOK'
  BY <1>2, <1>6 DEF RegistryInv, TypeOK
<1>8. \A r \in Ids : Processing(r)' =>
          \/ row'[r].job = j /\ row'[r].mount = n
          \/ /\ Processing(r) /\ row'[r] = row[r] /\ row[r].job \in Jobs
             /\ row[r].job # j
  BY <1>2, <1>5, RowTyped DEF Processing, Exists, Row, RegistryInv, JobsUnderWay
<1>9. devpath'[j] = n /\ \A k \in Jobs \ {j} : devpath'[k] = devpath[k]
  BY <1>2 DEF RegistryInv, TypeOK
<1>10. JobsUnderWay'
  BY <1>8, <1>9, NamesAreNumbers DEF RegistryInv, JobsUnderWay
<1>11. RipKeepsName'
  <2> SUFFICES ASSUME NEW r \in Ids, Processing(r)', row'[r].job \in calm'
               PROVE  row'[r].mount = devpath'[row'[r].job]
    BY DEF RipKeepsName
  <2>1. CASE row'[r].job = j /\ row'[r].mount = n
    BY <1>9, <2>1
  <2>2. CASE /\ Processing(r) /\ row'[r] = row[r] /\ row[r].job \in Jobs
             /\ row[r].job # j
    <3>1. row[r].job \in calm
      <4>1. calm' \subseteq calm \cup {j}
        BY <1>2
      <4> QED
        BY <2>2, <4>1
    <3> QED
      BY <1>9, <2>2, <3>1 DEF RegistryInv, RipKeepsName
  <2> QED
    BY <1>8, <2>1, <2>2
<1>12. CASE \A s \in Scans : Idle(s)
  <2>1. \A s \in Scans : scan'[s].at = "idle"
    BY <1>2, <1>12 DEF Idle, At
  <2>2. Unmarked' /\ \A s \in Scans : InHand(s)'
    BY <2>1 DEF Unmarked, InHand, At, Past
  <2> QED
    BY <1>7, <1>10, <1>11, <2>2 DEF RegistryInv
<1>13. CASE ~(\A s \in Scans : Idle(s))
  <2>1. calm' = calm \ {j}
    BY <1>2, <1>13
  <2>2. \A r \in Ids : CalmRow(r)' => CalmRow(r) /\ row'[r] = row[r]
    BY <1>8, <2>1 DEF CalmRow
  <2>3. Unmarked'
    BY <1>2, <2>2 DEF RegistryInv, Unmarked, Past
  <2> QED
    BY <1>2, <1>7, <1>10, <1>11, <2>2, <2>3, HandsStay DEF RegistryInv
<1> QED
  BY <1>12, <1>13

-----------------------------------------------------------------------------
LEMMA NextKeeps == RegistryInv /\ [Next]_vars => RegistryInv'
<1> SUFFICES ASSUME RegistryInv, [Next]_vars PROVE RegistryInv'
  OBVIOUS
<1>1. CASE UNCHANGED vars
  <2>1. \A r \in Ids : CalmRow(r)' <=> CalmRow(r)
    BY <1>1 DEF vars, CalmRow, Processing, Exists
  <2>2. \A t \in Scans : InHand(t)'
    BY <1>1, <2>1, HandsStay DEF vars
  <2> QED
    BY <1>1, <2>1, <2>2 DEF vars, RegistryInv, TypeOK, JobsUnderWay, RipKeepsName, Unmarked,
                            Past, Processing, Exists
<1> QED
  BY <1>1, ScanKeeps, ReplugKeeps, AttachKeeps, DetachKeeps DEF Next

(* Whatever is scanned, plugged, deleted and ripped: the rip of a calm start *)
(* keeps a row with its device's name (drives.py 288-336).                  *)
THEOREM RipsKeepNames == Spec => []RipKeepsName
<1>1. RegistryInv => RipKeepsName
  BY DEF RegistryInv
<1> QED
  BY <1>1, InitInv, NextKeeps, PTL DEF Spec

-----------------------------------------------------------------------------
(***************************************************************************)
(* ScanTruthful. A scan that is alone knows what the table holds: the rows  *)
(* without a job were marked, one device after another takes a row, and a   *)
(* row without a mark is of a device that was handled. The mark tells the   *)
(* rows of the devices handled from those still to be taken, so no device   *)
(* takes the row of another.                                                *)
(***************************************************************************)
Handled(s) == scan[s].found \ scan[s].left
Of(r, i)   == row[r].serial = i.serial /\ row[r].mount = i.mount
Free(r)    == row[r].job = NoJob
AtHand(s, r) == scan[s].at \in {"clash", "blank"} /\ r = scan[s].id

(* Each device that was handled has its row; every other row that is in no   *)
(* rip is marked; and no two idle rows share a device's name.               *)
Claimed(s) == \A i \in Handled(s) : \E r \in Rows : Of(r, i) /\ ~row[r].stale
Accounted(s) ==
    \A r \in Rows : Free(r) /\ ~row[r].stale /\ ~AtHand(s, r) => \E i \in Handled(s) : Of(r, i)
Apart(s) ==
    \A q, r \in Rows : q # r /\ row[q].mount = row[r].mount /\ Free(q) /\ Free(r)
                         => \A i \in Handled(s) : i.mount # row[q].mount

(* What the scan has in hand. *)
Loaded(s) ==
    LET r == scan[s].id IN
    At(s, "write") /\ r # 0 =>
        r \in Rows /\ scan[s].old = row[r] /\ (row[r].stale \/ row[r].mount = NextInfo(s).mount)

Taken(s) ==
    scan[s].at \in {"clash", "blank"} =>
        /\ scan[s].id \in Rows /\ Of(scan[s].id, NextInfo(s)) /\ ~row[scan[s].id].stale
        /\ At(s, "blank") =>
             scan[s].set = {r \in RowsAt(NextInfo(s).mount) \ {scan[s].id} : ~Processing(r)}

Cleaning(s) ==
    scan[s].at \in {"clean", "verdict", "report"} =>
        /\ scan[s].left = {}
        /\ scan[s].set \subseteq Stale
        /\ \A r \in Stale : r \in scan[s].set \/ row[r].mount = Blank
        /\ At(s, "verdict") => scan[s].id \in scan[s].set /\ scan[s].old = row[scan[s].id]
        /\ At(s, "report") => scan[s].set = {}

Solo(s) ==
    /\ scan[s].at \notin {"idle", "delete"}
    /\ \A t \in Scans \ {s} : Idle(t)
    /\ Past(s) =>
         /\ scan[s].left \subseteq scan[s].found
         /\ \A i, k \in scan[s].found : i.mount = k.mount => i = k
         /\ \A r \in Rows : row[r].stale => Free(r)
         /\ Claimed(s) /\ Accounted(s) /\ Apart(s)
         /\ Loaded(s) /\ Taken(s) /\ Cleaning(s)
    /\ At(s, "detect") => scan[s].found = {}

(* No two devices have the same name. *)
NamesDiffer ==
    \A d, e \in Devices : plug[d].name = plug[e].name /\ plug[d].name # Blank => d = e

TruthInv == RegistryInv /\ NamesDiffer /\ \A s \in alone : Solo(s)

LEMMA GreatestId ==
    ASSUME NEW S, S \subseteq Ids, S # {}
    PROVE  Max(S) \in S /\ \A x \in S : x <= Max(S)
<1> DEFINE Above == {n \in Nat : \A x \in S : x <= n}
<1>1. S \subseteq Nat /\ \A x \in S : x \in 1 .. MaxRow
  BY IdsAreNumbers DEF Ids
<1>2. MaxRow \in Above
  BY <1>1, RegistryAssumption
<1>3. PICK n \in Above : \A m \in Above : n <= m
  BY <1>2, LeastNat
<1>4. n \in S
  <2>1. SUFFICES ASSUME n \notin S PROVE FALSE
    OBVIOUS
  <2>2. PICK y \in S : TRUE
    OBVIOUS
  <2>3. n - 1 \in Nat
    BY <1>1, <1>3, <2>2
  <2>4. \A x \in S : x <= n - 1
    BY <1>1, <1>3, <2>1
  <2>5. n - 1 \in Above
    BY <2>3, <2>4
  <2> QED
    BY <1>3, <2>5
<1>5. \E x \in S : \A y \in S : x >= y
  BY <1>1, <1>3, <1>4
<1>6. Max(S) \in S /\ \A y \in S : Max(S) >= y
  BY <1>5 DEF Max
<1> QED
  BY <1>1, <1>6

LEMMA NewIdIsNew == NewId \notin Rows
<1>1. CASE Rows # {}
  <2>1. Rows \subseteq Ids
    BY DEF Rows
  <2>2. Max(Rows) \in Nat /\ \A x \in Rows : x \in Nat /\ x <= Max(Rows)
    BY <1>1, <2>1, GreatestId, IdsAreNumbers
  <2>3. NewId = Max(Rows) + 1
    BY <1>1 DEF NewId
  <2> QED
    BY <2>2, <2>3
<1> QED
  BY <1>1

(* The device at hand is not yet handled, and no handled one has its name.   *)
LEMMA AtWork ==
    ASSUME RegistryInv, NEW s \in alone, Solo(s), scan[s].at \in {"write", "clash", "blank"}
    PROVE  /\ Past(s)
           /\ NextInfo(s) \in scan[s].left /\ NextInfo(s) \in scan[s].found
           /\ NextInfo(s) \in Info /\ NextInfo(s).mount \in Names
           /\ \A j \in Handled(s) : j.mount # NextInfo(s).mount
<1>1. s \in Scans /\ Past(s)
  BY DEF RegistryInv, TypeOK, Past
<1>2. scan[s].left # {}
  BY <1>1 DEF RegistryInv, InHand
<1>3. NextInfo(s) \in scan[s].left /\ NextInfo(s) \in Info
  BY <1>1, <1>2, FirstInfo DEF RegistryInv
<1>4. NextInfo(s).mount \in Names
  BY <1>3 DEF Info
<1> QED
  BY <1>1, <1>3, <1>4 DEF Solo, Handled

-----------------------------------------------------------------------------
(* A step that leaves the table as it is, and handles no device. *)
LEMMA TableAsItWas ==
    ASSUME NEW s, row' = row, Handled(s)' = Handled(s),
           \A r \in Ids : AtHand(s, r) => AtHand(s, r)',
           \A r \in Rows : row[r].stale => Free(r),
           Claimed(s), Accounted(s), Apart(s)
    PROVE  /\ \A r \in Rows' : row'[r].stale => Free(r)'
           /\ Claimed(s)' /\ Accounted(s)' /\ Apart(s)'
<1>1. Rows' = Rows
  BY DEF Rows, Exists
<1>2. Claimed(s)'
  BY <1>1 DEF Claimed, Of
<1>3. Accounted(s)'
  BY <1>1 DEF Accounted, Of, Free, Rows
<1>4. Apart(s)'
  BY <1>1 DEF Apart, Free
<1> QED
  BY <1>1, <1>2, <1>3, <1>4 DEF Free

LEMMA SoloFrame ==
    ASSUME RegistryInv, NEW s \in Scans, NEW state, Goto(s, state)
    PROVE  scan'[s] = state /\ \A t \in Scans \ {s} : scan'[t] = scan[t]
BY DEF RegistryInv, TypeOK, Goto

LEMMA SoloMark ==
    ASSUME RegistryInv, NEW s \in alone, Solo(s), Mark(s)
    PROVE  Solo(s)'
<1> s \in Scans
  BY DEF RegistryInv, TypeOK
<1>1. /\ scan'[s] = [NoScan EXCEPT !.at = "detect"]
      /\ \A t \in Scans \ {s} : scan'[t] = scan[t]
  BY SoloFrame DEF Mark
<1>2. scan'[s].at = "detect" /\ scan'[s].left = {} /\ scan'[s].found = {}
  BY <1>1 DEF NoScan
<1>3. Handled(s)' = {}
  BY <1>2 DEF Handled
<1>4. \A r \in Rows' : row'[r].stale <=> Free(r)'
  <2> SUFFICES ASSUME NEW r \in Rows' PROVE row'[r].stale <=> row'[r].job = NoJob
    BY DEF Free
  <2>1. r \in Ids /\ row'[r] = IF Exists(r) THEN [row[r] EXCEPT !.stale = ~Processing(r)] ELSE Absent
    BY DEF Mark, Rows
  <2>2. Exists(r) /\ row[r] \in Row
    BY <2>1 DEF Rows, Exists, RegistryInv, TypeOK
  <2> QED
    BY <2>1, <2>2 DEF Row, Processing
<1>5. Claimed(s)' /\ Accounted(s)' /\ Apart(s)'
  BY <1>3, <1>4 DEF Claimed, Accounted, Apart
<1>6. Loaded(s)' /\ Taken(s)' /\ Cleaning(s)'
  BY <1>2 DEF Loaded, Taken, Cleaning, At
<1>7. \A t \in Scans \ {s} : Idle(t)'
  BY <1>1 DEF Solo, Idle, At
<1> QED
  BY <1>2, <1>4, <1>5, <1>6, <1>7 DEF Solo

LEMMA SoloDetect ==
    ASSUME RegistryInv, NamesDiffer, NEW s \in alone, Solo(s), Detect(s)
    PROVE  Solo(s)'
<1> s \in Scans
  BY DEF RegistryInv, TypeOK
<1> DEFINE state == [NoScan EXCEPT !.at = "find", !.left = Present, !.found = Present]
<1>1. /\ scan'[s] = state
      /\ \A t \in Scans \ {s} : scan'[t] = scan[t]
  <2>1. Goto(s, state)
    BY DEF Detect
  <2> HIDE DEF state
  <2> QED
    BY <2>1, SoloFrame
<1>2. scan'[s].at = "find" /\ scan'[s].left = Present /\ scan'[s].found = Present
  BY <1>1 DEF NoScan
<1>3. At(s, "detect") /\ Past(s) /\ row' = row
  BY DEF Detect, At, Past, OnlyScan
<1>4. Handled(s)' = {} /\ Handled(s) = {}
  BY <1>2, <1>3 DEF Handled, Solo
<1>5. \A r \in Ids : ~AtHand(s, r)
  BY <1>3 DEF AtHand, At
<1>6. /\ \A r \in Rows' : row'[r].stale => Free(r)'
      /\ Claimed(s)' /\ Accounted(s)' /\ Apart(s)'
  BY <1>3, <1>4, <1>5, TableAsItWas DEF Solo
<1>7. \A i, k \in Present : i.mount = k.mount => i = k
  BY DEF Present, NamesDiffer
<1>8. Loaded(s)' /\ Taken(s)' /\ Cleaning(s)' /\ ~At(s, "detect")'
  BY <1>2 DEF Loaded, Taken, Cleaning, At
<1>9. \A t \in Scans \ {s} : Idle(t)'
  BY <1>1 DEF Solo, Idle, At
<1> QED
  BY <1>2, <1>6, <1>7, <1>8, <1>9 DEF Solo

LEMMA SoloFind ==
    ASSUME RegistryInv, NEW s \in alone, Solo(s), Find(s)
    PROVE  Solo(s)'
<1> s \in Scans
  BY DEF RegistryInv, TypeOK
<1> DEFINE i == NextInfo(s)
           b == BestRow(i)
<1>1. /\ scan'[s] = [Keep(s, "write") EXCEPT !.id = b, !.old = IF b = 0 THEN NoRow ELSE row[b]]
      /\ \A t \in Scans \ {s} : scan'[t] = scan[t]
  BY SoloFrame DEF Find
<1>2. /\ scan'[s].at = "write" /\ scan'[s].left = scan[s].left /\ scan'[s].found = scan[s].found
      /\ scan'[s].id = b /\ (b # 0 => scan'[s].old = row[b])
  BY <1>1, ScanTyped DEF Keep, ScanState
<1>3. At(s, "find") /\ Past(s) /\ row' = row /\ scan[s].left # {}
  BY DEF Find, At, Past, OnlyScan
<1>4. i \in Info
  BY <1>3, FirstInfo DEF RegistryInv
<1>5. b = 0 \/ b \in Stale \/ b \in RowsAt(i.mount)
  BY <1>4, BestRowFits DEF RegistryInv
<1>6. /\ \A r \in Rows' : row'[r].stale => Free(r)'
      /\ Claimed(s)' /\ Accounted(s)' /\ Apart(s)'
  <2>1. Handled(s)' = Handled(s) /\ \A r \in Ids : ~AtHand(s, r)
    BY <1>2, <1>3 DEF Handled, AtHand, At
  <2> QED
    BY <1>3, <2>1, TableAsItWas DEF Solo
<1>7. NextInfo(s)' = i /\ Rows' = Rows
  BY <1>2, <1>3 DEF NextInfo, Rows, Exists
<1>8. Loaded(s)'
  <2>1. b # 0 => b \in Rows /\ (row[b].stale \/ row[b].mount = i.mount)
    BY <1>5 DEF Stale, RowsAt
  <2> HIDE DEF i, b
  <2> QED
    BY <1>2, <1>3, <1>7, <2>1 DEF Loaded, At
<1>9. Taken(s)' /\ Cleaning(s)' /\ ~At(s, "detect")'
  BY <1>2 DEF Taken, Cleaning, At
<1>10. \A t \in Scans \ {s} : Idle(t)'
  BY <1>1 DEF Solo, Idle, At
<1> QED
  BY <1>2, <1>3, <1>6, <1>8, <1>9, <1>10 DEF Solo

(* The device takes its row: one that is marked, has its name or is new, so  *)
(* that none of the devices handled before loses its own.                   *)
LEMMA SoloWrite ==
    ASSUME RegistryInv, NEW s \in alone, Solo(s), Write(s)
    PROVE  Solo(s)'
<1> s \in Scans
  BY DEF RegistryInv, TypeOK
<1> DEFINE i == NextInfo(s)
           m == IF scan[s].id = 0 THEN NewId ELSE scan[s].id
<1>1. At(s, "write") /\ Past(s)
  BY DEF Write, At, Past
<1>2. /\ i \in scan[s].left /\ i \in scan[s].found /\ i \in Info /\ i.mount \in Names
      /\ \A j \in Handled(s) : j.mount # i.mount
  BY <1>1, AtWork DEF At
<1>3. /\ scan'[s].at = "clash" /\ scan'[s].left = scan[s].left /\ scan'[s].found = scan[s].found
      /\ scan'[s].id = m
      /\ \A t \in Scans \ {s} : scan'[t] = scan[t]
  <2>1. CASE scan[s].id # 0
    <3>1. Goto(s, [Keep(s, "clash") EXCEPT !.old = NoRow])
      BY <2>1 DEF Write
    <3> DEFINE state == [Keep(s, "clash") EXCEPT !.old = NoRow]
    <3>2. /\ state.at = "clash" /\ state.left = scan[s].left /\ state.found = scan[s].found
          /\ state.id = scan[s].id
      BY ScanTyped DEF Keep, ScanState
    <3>3. scan'[s] = state /\ \A t \in Scans \ {s} : scan'[t] = scan[t]
      <4> HIDE DEF state
      <4>1. Goto(s, state)
        BY <3>1 DEF state
      <4> QED
        BY <4>1, SoloFrame
    <3> QED
      BY <2>1, <3>2, <3>3
  <2>2. CASE scan[s].id = 0
    <3>1. Goto(s, [Keep(s, "clash") EXCEPT !.id = NewId])
      BY <2>2 DEF Write
    <3> DEFINE state == [Keep(s, "clash") EXCEPT !.id = NewId]
    <3>2. /\ state.at = "clash" /\ state.left = scan[s].left /\ state.found = scan[s].found
          /\ state.id = NewId
      BY ScanTyped DEF Keep, ScanState
    <3>3. scan'[s] = state /\ \A t \in Scans \ {s} : scan'[t] = scan[t]
      <4> HIDE DEF state
      <4>1. Goto(s, state)
        BY <3>1 DEF state
      <4> QED
        BY <4>1, SoloFrame
    <3> QED
      BY <2>2, <3>2, <3>3
  <2> QED
    BY <2>1, <2>2
<1>4. /\ m \in Ids /\ row'[m] \in Row
      /\ row'[m].serial = i.serial /\ row'[m].mount = i.mount /\ ~row'[m].stale
      /\ \A q \in Ids \ {m} : row'[q] = row[q]
      /\ m \in Rows => row[m].stale \/ row[m].mount = i.mount
  <2>0. row \in [Ids -> Row \cup {Absent}]
    BY DEF RegistryInv, TypeOK
  <2>1. CASE scan[s].id # 0
    <3> DEFINE r == scan[s].id
    <3>1. /\ r \in Rows /\ scan[s].old = row[r] /\ (row[r].stale \/ row[r].mount = i.mount)
      BY <1>1, <2>1 DEF Solo, Loaded
    <3>2. row' = [row EXCEPT ![r] = Written(@, scan[s].old, i)]
      BY <2>1 DEF Write
    <3>3. r \in Ids /\ row[r] \in Row
      BY <3>1, <2>0 DEF Rows, Exists
    <3>4. row'[r] = Written(row[r], row[r], i)
      BY <3>1, <3>2, <3>3, <2>0
    <3>5. /\ Written(row[r], row[r], i) \in Row
          /\ Written(row[r], row[r], i).serial = i.serial
          /\ Written(row[r], row[r], i).mount = i.mount
          /\ ~Written(row[r], row[r], i).stale
      BY <1>2, <3>3 DEF Written, Row, Info
    <3>6. \A q \in Ids \ {r} : row'[q] = row[q]
      BY <3>2, <2>0
    <3> QED
      BY <2>1, <3>1, <3>3, <3>4, <3>5, <3>6
  <2>2. CASE scan[s].id = 0
    <3> DEFINE new == [serial |-> i.serial, mount |-> i.mount, port |-> i.port, stale |-> FALSE,
                       job |-> NoJob]
    <3>1. NewId \in Ids /\ row' = [row EXCEPT ![NewId] = new]
      BY <2>2 DEF Write
    <3>2. new \in Row /\ new.serial = i.serial /\ new.mount = i.mount /\ ~new.stale
      BY <1>2 DEF Row, Info
    <3>3. row'[NewId] = new /\ \A q \in Ids \ {NewId} : row'[q] = row[q]
      BY <3>1, <2>0
    <3> QED
      BY <2>2, <3>1, <3>2, <3>3, NewIdIsNew
  <2> QED
    BY <2>1, <2>2
<1> HIDE DEF m
<1>5. NextInfo(s)' = i /\ Handled(s)' = Handled(s)
  BY <1>3 DEF NextInfo, Handled
<1> HIDE DEF i
<1>6. /\ m \in Rows' /\ \A r \in Rows' : r # m => r \in Rows /\ row'[r] = row[r]
      /\ \A r \in Rows : r # m => r \in Rows'
  BY <1>4, AbsentIsNoRow DEF Rows, Exists
<1>7. \A r \in Ids : ~AtHand(s, r)
  BY <1>1 DEF AtHand, At
<1>8. \A r \in Rows' : row'[r].stale => Free(r)'
  BY <1>1, <1>4, <1>6 DEF Solo, Free
<1>9. Claimed(s)'
  <2> SUFFICES ASSUME NEW j \in Handled(s)
               PROVE  \E r \in Rows' : /\ row'[r].serial = j.serial /\ row'[r].mount = j.mount
                                       /\ ~row'[r].stale
    BY <1>5 DEF Claimed, Of
  <2>1. PICK r \in Rows : Of(r, j) /\ ~row[r].stale
    BY <1>1 DEF Solo, Claimed
  <2>2. r # m
    BY <1>2, <1>4, <2>1 DEF Of
  <2> QED
    BY <1>6, <2>1, <2>2 DEF Of
<1>10. Accounted(s)'
  <2> SUFFICES ASSUME NEW r \in Rows', row'[r].job = NoJob, ~row'[r].stale, r # m
               PROVE  \E j \in Handled(s) : row'[r].serial = j.serial /\ row'[r].mount = j.mount
    BY <1>3, <1>5 DEF Accounted, Of, Free, AtHand
  <2>1. r \in Rows /\ row'[r] = row[r]
    BY <1>6
  <2>2. r \in Ids
    BY <2>1 DEF Rows
  <2> QED
    BY <1>1, <1>7, <2>1, <2>2 DEF Solo, Accounted, Of, Free
<1>11. Apart(s)'
  <2> SUFFICES ASSUME NEW q \in Rows', NEW r \in Rows', q # r, row'[q].mount = row'[r].mount,
                      row'[q].job = NoJob, row'[r].job = NoJob, NEW j \in Handled(s)
               PROVE  j.mount # row'[q].mount
    BY <1>5 DEF Apart, Free
  <2>1. CASE q = m \/ r = m
    BY <1>2, <1>4, <2>1
  <2>2. CASE q # m /\ r # m
    BY <1>1, <1>6, <2>2 DEF Solo, Apart, Free
  <2> QED
    BY <2>1, <2>2
<1>12. Taken(s)'
  BY <1>3, <1>4, <1>5, <1>6 DEF Taken, At, Of
<1>13. Loaded(s)' /\ Cleaning(s)' /\ ~At(s, "detect")'
  BY <1>3 DEF Loaded, Cleaning, At
<1>14. \A t \in Scans \ {s} : Idle(t)'
  BY <1>3 DEF Solo, Idle, At
<1> QED
  BY <1>1, <1>3, <1>8, <1>9, <1>10, <1>11, <1>12, <1>13, <1>14 DEF Solo

LEMMA SoloClash ==
    ASSUME RegistryInv, NEW s \in alone, Solo(s), Clash(s)
    PROVE  Solo(s)'
<1> s \in Scans
  BY DEF RegistryInv, TypeOK
<1> DEFINE m == scan[s].id
           S == {r \in RowsAt(row[m].mount) \ {m} : ~Processing(r)}
           state == [Keep(s, "blank") EXCEPT !.set = S]
<1>1. At(s, "clash") /\ Past(s) /\ row' = row
  BY DEF Clash, At, Past, OnlyScan
<1>2. Goto(s, state)
  BY DEF Clash
<1>3. /\ state.at = "blank" /\ state.left = scan[s].left /\ state.found = scan[s].found
      /\ state.id = m /\ state.set = S
  BY ScanTyped DEF Keep, ScanState
<1> HIDE DEF state
<1>4. /\ scan'[s].at = "blank" /\ scan'[s].left = scan[s].left /\ scan'[s].found = scan[s].found
      /\ scan'[s].id = m /\ scan'[s].set = S
      /\ \A t \in Scans \ {s} : scan'[t] = scan[t]
  BY <1>2, <1>3, SoloFrame
<1>5. NextInfo(s)' = NextInfo(s) /\ Handled(s)' = Handled(s) /\ Rows' = Rows
  BY <1>1, <1>4 DEF NextInfo, Handled, Rows, Exists
<1>6. /\ \A r \in Rows' : row'[r].stale => Free(r)'
      /\ Claimed(s)' /\ Accounted(s)' /\ Apart(s)'
  <2>1. \A r \in Ids : AtHand(s, r) => AtHand(s, r)'
    BY <1>4 DEF AtHand
  <2> QED
    BY <1>1, <1>5, <2>1, TableAsItWas DEF Solo
<1>7. m \in Rows /\ Of(m, NextInfo(s)) /\ ~row[m].stale
  BY <1>1 DEF Solo, Taken, At
<1>8. S = {r \in RowsAt(NextInfo(s).mount) \ {m} : ~Processing(r)}
  BY <1>7 DEF Of
<1>9. S = {r \in RowsAt(NextInfo(s).mount)' \ {m} : ~Processing(r)'}
  BY <1>1, <1>5, <1>8 DEF RowsAt, Processing, Exists
<1> HIDE DEF S, m
<1>10. Taken(s)'
  BY <1>1, <1>4, <1>5, <1>7, <1>9 DEF Taken, At, Of
<1>11. Loaded(s)' /\ Cleaning(s)' /\ ~At(s, "detect")'
  BY <1>4 DEF Loaded, Cleaning, At
<1>12. \A t \in Scans \ {s} : Idle(t)'
  BY <1>4 DEF Solo, Idle, At
<1> QED
  BY <1>1, <1>4, <1>6, <1>10, <1>11, <1>12 DEF Solo

(* The name is taken from the idle rows that had it: they were marked, so    *)
(* they are the rows of no device that was handled.                         *)
LEMMA SoloBlankOthers ==
    ASSUME RegistryInv, NEW s \in alone, Solo(s), BlankOthers(s)
    PROVE  Solo(s)'
<1> s \in Scans
  BY DEF RegistryInv, TypeOK
<1> DEFINE i == NextInfo(s)
           m == scan[s].id
           S == scan[s].set
           state == [Keep(s, "find") EXCEPT !.left = @ \ {NextInfo(s)}, !.set = {}, !.id = 0]
<1>1. At(s, "blank") /\ Past(s)
  BY DEF BlankOthers, At, Past
<1>2. /\ i \in scan[s].left /\ i \in scan[s].found /\ i \in Info /\ i.mount \in Names
      /\ \A j \in Handled(s) : j.mount # i.mount
  BY <1>1, AtWork DEF At
<1>3. /\ state.at = "find" /\ state.left = scan[s].left \ {i} /\ state.found = scan[s].found
  BY ScanTyped DEF Keep, ScanState
<1>4. Goto(s, state)
  BY DEF BlankOthers
<1> HIDE DEF state
<1>5. /\ scan'[s].at = "find" /\ scan'[s].left = scan[s].left \ {i}
      /\ scan'[s].found = scan[s].found
      /\ \A t \in Scans \ {s} : scan'[t] = scan[t]
  BY <1>3, <1>4, SoloFrame
<1>6. Handled(s)' = Handled(s) \cup {i}
  BY <1>1, <1>2, <1>5 DEF Handled, Solo
<1>7. /\ m \in Rows /\ Of(m, i) /\ ~row[m].stale
      /\ S = {r \in RowsAt(i.mount) \ {m} : ~Processing(r)}
  BY <1>1 DEF Solo, Taken, At
<1>8. \A r \in Rows :
        /\ r \in S => /\ row'[r].mount = Blank /\ row'[r].job = row[r].job
                      /\ row'[r].stale = row[r].stale /\ row'[r].serial = row[r].serial
        /\ r \notin S => row'[r] = row[r]
  <2> SUFFICES ASSUME NEW r \in Rows
               PROVE  /\ r \in S => /\ row'[r].mount = Blank /\ row'[r].job = row[r].job
                                    /\ row'[r].stale = row[r].stale
                                    /\ row'[r].serial = row[r].serial
                      /\ r \notin S => row'[r] = row[r]
    OBVIOUS
  <2>1. r \in Ids /\ row[r] \in Row
    BY DEF Rows, Exists, RegistryInv, TypeOK
  <2>2. row'[r] = IF r \in S THEN [row[r] EXCEPT !.mount = Blank] ELSE row[r]
    BY <2>1 DEF BlankOthers
  <2> HIDE DEF S
  <2> QED
    BY <2>1, <2>2 DEF Row
<1>9. Rows' = Rows
  <2>1. ASSUME NEW r \in Ids PROVE row'[r] # Absent <=> row[r] # Absent
    <3>1. row'[r] = IF r \in S THEN [row[r] EXCEPT !.mount = Blank] ELSE row[r]
      BY DEF BlankOthers
    <3>2. r \in S => row[r] \in Row /\ [row[r] EXCEPT !.mount = Blank] \in Row
      BY <1>7 DEF RowsAt, Rows, Exists, RegistryInv, TypeOK, Row
    <3> HIDE DEF S
    <3> QED
      BY <3>1, <3>2, AbsentIsNoRow
  <2> QED
    BY <2>1 DEF Rows, Exists
<1>10. \A r \in Rows : Processing(r) <=> ~Free(r)
  BY DEF Processing, Free, Rows
<1> HIDE DEF i, m, S
<1>11. \A r \in Rows : r \in S => row[r].mount = i.mount /\ r # m /\ Free(r) /\ row[r].stale
  <2> SUFFICES ASSUME NEW r \in Rows, r \in S
               PROVE  row[r].mount = i.mount /\ r # m /\ Free(r) /\ row[r].stale
    OBVIOUS
  <2>1. row[r].mount = i.mount /\ r # m /\ Free(r)
    BY <1>7, <1>10 DEF RowsAt
  <2>2. row[r].stale
    BY <1>1, <1>2, <2>1 DEF Solo, Accounted, AtHand, Of, m
  <2> QED
    BY <2>1, <2>2
<1>12. \A r \in Rows' : row'[r].stale => Free(r)'
  BY <1>1, <1>8, <1>9 DEF Solo, Free
<1>13. Claimed(s)'
  <2> SUFFICES ASSUME NEW j \in Handled(s) \cup {i}
               PROVE  \E r \in Rows : /\ row'[r].serial = j.serial /\ row'[r].mount = j.mount
                                      /\ ~row'[r].stale
    BY <1>6, <1>9 DEF Claimed, Of
  <2>1. CASE j = i
    BY <1>7, <1>8, <1>11, <2>1 DEF Of
  <2>2. CASE j \in Handled(s)
    <3>1. PICK r \in Rows : Of(r, j) /\ ~row[r].stale
      BY <1>1, <2>2 DEF Solo, Claimed
    <3> QED
      BY <1>8, <1>11, <3>1 DEF Of
  <2> QED
    BY <2>1, <2>2
<1>14. Accounted(s)'
  <2> SUFFICES ASSUME NEW r \in Rows, row'[r].job = NoJob, ~row'[r].stale
               PROVE  \E j \in Handled(s) \cup {i} : /\ row'[r].serial = j.serial
                                                     /\ row'[r].mount = j.mount
    BY <1>6, <1>9 DEF Accounted, Of, Free
  <2>1. r \notin S /\ row'[r] = row[r]
    BY <1>8, <1>11
  <2>2. CASE r = m
    BY <1>7, <2>1, <2>2 DEF Of
  <2>3. CASE r # m
    BY <1>1, <2>1, <2>3 DEF Solo, Accounted, AtHand, Of, Free, m
  <2> QED
    BY <2>2, <2>3
<1>15. Apart(s)'
  <2> SUFFICES ASSUME NEW q \in Rows, NEW r \in Rows, q # r, row'[q].mount = row'[r].mount,
                      row'[q].job = NoJob, row'[r].job = NoJob, NEW j \in Handled(s) \cup {i}
               PROVE  j.mount # row'[q].mount
    BY <1>6, <1>9 DEF Apart, Free
  <2>1. j \in Info /\ j.mount # Blank
    <3>1. scan[s].found \subseteq Info
      BY DEF RegistryInv, TypeOK, ScanState
    <3> QED
      BY <1>2, <3>1, NamesAreNumbers DEF Handled, Info
  <2>2. CASE q \in S \/ r \in S
    BY <1>8, <2>1, <2>2
  <2>3. CASE q \notin S /\ r \notin S
    <3>1. row'[q] = row[q] /\ row'[r] = row[r] /\ Free(q) /\ Free(r)
      BY <1>8, <2>3 DEF Free
    <3>2. CASE j = i
      BY <1>7, <1>10, <2>3, <3>1, <3>2 DEF RowsAt
    <3>3. CASE j \in Handled(s)
      BY <1>1, <3>1, <3>3 DEF Solo, Apart
    <3> QED
      BY <3>2, <3>3
  <2> QED
    BY <2>2, <2>3
<1>16. Loaded(s)' /\ Taken(s)' /\ Cleaning(s)' /\ ~At(s, "detect")'
  BY <1>5 DEF Loaded, Taken, Cleaning, At
<1>17. \A t \in Scans \ {s} : Idle(t)'
  BY <1>5 DEF Solo, Idle, At
<1> QED
  BY <1>1, <1>5, <1>12, <1>13, <1>14, <1>15, <1>16, <1>17 DEF Solo

-----------------------------------------------------------------------------
(* The end of the scan: what is still marked loses its name. *)
LEMMA SoloList ==
    ASSUME RegistryInv, NEW s \in alone, Solo(s),
           ListStale(s) \/ Report(s) \/ \E r \in Ids : LookAt(s, r)
    PROVE  Solo(s)'
<1> s \in Scans
  BY DEF RegistryInv, TypeOK
<1>1. Past(s) /\ row' = row /\ scan[s].at \in {"find", "clean"}
  BY DEF ListStale, Report, LookAt, OnlyScan, Past, At
<1>2. ASSUME NEW state, Goto(s, state), state.left = scan[s].left, state.found = scan[s].found,
             state.at \in {"clean", "verdict", "report"}, state.left = {},
             state.set \subseteq Stale, \A r \in Stale : r \in state.set \/ row[r].mount = Blank,
             state.at = "verdict" => state.id \in state.set /\ state.old = row[state.id],
             state.at = "report" => state.set = {}
      PROVE  Solo(s)'
  <2>1. scan'[s] = state /\ \A t \in Scans \ {s} : scan'[t] = scan[t]
    BY <1>2, SoloFrame
  <2>2. Handled(s)' = Handled(s) /\ Rows' = Rows /\ Stale' = Stale
    BY <1>1, <1>2, <2>1 DEF Handled, Rows, Exists, Stale
  <2>3. /\ \A r \in Rows' : row'[r].stale => Free(r)'
        /\ Claimed(s)' /\ Accounted(s)' /\ Apart(s)'
    BY <1>1, <2>2, TableAsItWas DEF Solo, AtHand
  <2>4. Cleaning(s)'
    BY <1>1, <1>2, <2>1, <2>2 DEF Cleaning, At
  <2>5. Loaded(s)' /\ Taken(s)' /\ ~At(s, "detect")' /\ scan'[s].at \notin {"idle", "delete"}
    BY <1>2, <2>1 DEF Loaded, Taken, At
  <2>6. \A t \in Scans \ {s} : Idle(t)'
    BY <2>1 DEF Solo, Idle, At
  <2> QED
    BY <1>1, <1>2, <2>1, <2>3, <2>4, <2>5, <2>6 DEF Solo
<1>3. CASE ListStale(s)
  <2> DEFINE state == [Keep(s, "clean") EXCEPT !.set = Stale]
  <2>1. /\ state.at = "clean" /\ state.left = scan[s].left /\ state.found = scan[s].found
        /\ state.set = Stale
    BY ScanTyped DEF Keep, ScanState
  <2>2. Goto(s, state) /\ scan[s].left = {}
    BY <1>3 DEF ListStale
  <2> HIDE DEF state
  <2> QED
    BY <1>2, <2>1, <2>2
<1>4. CASE Report(s)
  <2> DEFINE state == Keep(s, "report")
  <2>1. /\ state.at = "report" /\ state.left = scan[s].left /\ state.found = scan[s].found
        /\ state.set = scan[s].set
    BY ScanTyped DEF Keep, ScanState
  <2>2. Goto(s, state) /\ scan[s].set = {} /\ At(s, "clean")
    BY <1>4 DEF Report
  <2> HIDE DEF state
  <2> QED
    BY <1>1, <1>2, <2>1, <2>2 DEF Solo, Cleaning, At
<1>5. ASSUME NEW r \in Ids, LookAt(s, r)
      PROVE  Solo(s)'
  <2> DEFINE state == [Keep(s, "verdict") EXCEPT !.id = r, !.old = row[r]]
  <2>1. /\ state.at = "verdict" /\ state.left = scan[s].left /\ state.found = scan[s].found
        /\ state.set = scan[s].set /\ state.id = r /\ state.old = row[r]
    BY ScanTyped DEF Keep, ScanState
  <2>2. Goto(s, state) /\ r \in scan[s].set /\ At(s, "clean")
    BY <1>5 DEF LookAt
  <2> HIDE DEF state
  <2> QED
    BY <1>1, <1>2, <2>1, <2>2 DEF Solo, Cleaning, At
<1> QED
  BY <1>3, <1>4, <1>5

LEMMA SoloVerdict ==
    ASSUME RegistryInv, NEW s \in alone, Solo(s), Verdict(s)
    PROVE  Solo(s)'
<1> s \in Scans
  BY DEF RegistryInv, TypeOK
<1> DEFINE m == scan[s].id
           state == [Keep(s, "clean") EXCEPT !.set = @ \ {m}, !.id = 0, !.old = NoRow]
<1>1. At(s, "verdict") /\ Past(s) /\ scan[s].left = {}
  BY DEF Verdict, At, Past, Solo, Cleaning
<1>2. /\ state.at = "clean" /\ state.left = scan[s].left /\ state.found = scan[s].found
      /\ state.set = scan[s].set \ {m}
  BY ScanTyped DEF Keep, ScanState
<1>3. Goto(s, state)
  BY DEF Verdict
<1> HIDE DEF state
<1>4. /\ scan'[s].at = "clean" /\ scan'[s].left = {} /\ scan'[s].found = scan[s].found
      /\ scan'[s].set = scan[s].set \ {m}
      /\ \A t \in Scans \ {s} : scan'[t] = scan[t]
  BY <1>1, <1>2, <1>3, SoloFrame
<1>5. m \in Stale /\ m \in Ids /\ scan[s].old = row[m] /\ row[m].job = NoJob /\ row[m] \in Row
  <2>1. m \in Stale /\ scan[s].old = row[m]
    BY <1>1 DEF Solo, Cleaning, At
  <2>2. m \in Ids /\ row[m] \in Row
    BY <2>1 DEF Stale, Rows, Exists, RegistryInv, TypeOK
  <2> QED
    BY <1>1, <2>1, <2>2 DEF Solo, Free, Stale
<1>6. /\ row'[m] = [row[m] EXCEPT !.mount = Blank, !.port = Blank]
      /\ \A r \in Ids \ {m} : row'[r] = row[r]
  <2>1. row \in [Ids -> Row \cup {Absent}]
    BY DEF RegistryInv, TypeOK
  <2> QED
    BY <1>5, <2>1 DEF Verdict
<1>7. /\ row'[m].mount = Blank /\ row'[m].stale /\ row'[m].job = NoJob /\ row'[m] \in Row
  BY <1>5, <1>6 DEF Row, Stale
<1> HIDE DEF m
<1>8. Rows' = Rows
  <2>1. \A r \in Ids : row'[r] = Absent <=> row[r] = Absent
    BY <1>5, <1>6, <1>7, AbsentIsNoRow
  <2> QED
    BY <2>1 DEF Rows, Exists
<1>9. \A r \in Rows : r # m => row'[r] = row[r]
  BY <1>6 DEF Rows
<1>10. Handled(s)' = Handled(s) /\ \A r \in Ids : ~AtHand(s, r)
  BY <1>1, <1>4 DEF Handled, AtHand, At
<1>11. \A r \in Rows' : row'[r].stale => Free(r)'
  BY <1>1, <1>7, <1>8, <1>9 DEF Solo, Free
<1>12. Claimed(s)'
  <2> SUFFICES ASSUME NEW j \in Handled(s)
               PROVE  \E r \in Rows : /\ row'[r].serial = j.serial /\ row'[r].mount = j.mount
                                      /\ ~row'[r].stale
    BY <1>8, <1>10 DEF Claimed, Of
  <2>1. PICK r \in Rows : Of(r, j) /\ ~row[r].stale
    BY <1>1 DEF Solo, Claimed
  <2> QED
    BY <1>5, <1>9, <2>1 DEF Of, Stale
<1>13. Accounted(s)'
  <2> SUFFICES ASSUME NEW r \in Rows, row'[r].job = NoJob, ~row'[r].stale
               PROVE  \E j \in Handled(s) : row'[r].serial = j.serial /\ row'[r].mount = j.mount
    BY <1>8, <1>10 DEF Accounted, Of, Free
  <2>1. row'[r] = row[r] /\ r \in Ids
    BY <1>7, <1>9 DEF Rows
  <2> QED
    BY <1>1, <1>10, <2>1 DEF Solo, Accounted, Of, Free
<1>14. Apart(s)'
  <2> SUFFICES ASSUME NEW q \in Rows, NEW r \in Rows, q # r, row'[q].mount = row'[r].mount,
                      row'[q].job = NoJob, row'[r].job = NoJob, NEW j \in Handled(s)
               PROVE  j.mount # row'[q].mount
    BY <1>8, <1>10 DEF Apart, Free
  <2>1. j.mount # Blank
    <3>1. scan[s].found \subseteq Info
      BY DEF RegistryInv, TypeOK, ScanState
    <3> QED
      BY <3>1, NamesAreNumbers DEF Handled, Info
  <2>2. CASE q = m \/ r = m
    BY <1>7, <2>1, <2>2
  <2>3. CASE q # m /\ r # m
    BY <1>1, <1>9, <2>3 DEF Solo, Apart, Free
  <2> QED
    BY <2>2, <2>3
<1>15. Cleaning(s)'
  <2>1. /\ scan[s].set \subseteq Stale
        /\ \A r \in Stale : r \in scan[s].set \/ row[r].mount = Blank
    BY <1>1 DEF Solo, Cleaning, At
  <2>2. Stale' = Stale
    BY <1>5, <1>7, <1>8, <1>9 DEF Stale
  <2>3. scan'[s].set \subseteq Stale'
    BY <1>4, <2>1, <2>2
  <2>4. \A r \in Stale' : r \in scan'[s].set \/ row'[r].mount = Blank
    BY <1>4, <1>7, <1>9, <2>1, <2>2 DEF Stale
  <2> QED
    BY <1>4, <2>3, <2>4 DEF Cleaning, At
<1>16. Loaded(s)' /\ Taken(s)' /\ ~At(s, "detect")'
  BY <1>4 DEF Loaded, Taken, At
<1>17. \A t \in Scans \ {s} : Idle(t)'
  BY <1>4 DEF Solo, Idle, At
<1> QED
  BY <1>1, <1>4, <1>11, <1>12, <1>13, <1>14, <1>15, <1>16, <1>17 DEF Solo

-----------------------------------------------------------------------------
LEMMA SoloRests ==
    ASSUME NEW s, Solo(s), row' = row, scan'[s] = scan[s], \A t \in Scans \ {s} : Idle(t)'
    PROVE  Solo(s)'
<1>1. Handled(s)' = Handled(s) /\ Rows' = Rows /\ Stale' = Stale /\ NextInfo(s)' = NextInfo(s)
  BY DEF Handled, Rows, Exists, Stale, NextInfo
<1>2. Past(s) => /\ \A r \in Rows' : row'[r].stale => Free(r)'
                 /\ Claimed(s)' /\ Accounted(s)' /\ Apart(s)'
  BY <1>1, TableAsItWas DEF Solo, AtHand
<1>3. Past(s) => Loaded(s)' /\ Cleaning(s)' /\ Taken(s)'
  <2>1. RowsAt(NextInfo(s).mount)' = RowsAt(NextInfo(s).mount)
    BY <1>1 DEF RowsAt
  <2>2. \A r : Processing(r)' <=> Processing(r)
    BY DEF Processing, Exists
  <2> QED
    BY <1>1, <2>1, <2>2 DEF Solo, Loaded, Cleaning, Taken, At, Of
<1> QED
  BY <1>1, <1>2, <1>3 DEF Solo, Past, At

(* A scan is alone from its start, or it never is. *)
LEMMA SoloBegin ==
    ASSUME RegistryInv, NEW s \in Scans, Begin(s), \A t \in Scans : Idle(t)
    PROVE  Solo(s)'
<1>1. \/ Goto(s, [NoScan EXCEPT !.at = "mark"])
      \/ Goto(s, [NoScan EXCEPT !.at = "purge", !.set = {r \in Rows : ~Processing(r)}])
  BY DEF Begin
<1>2. scan'[s].at \in {"mark", "purge"} /\ \A t \in Scans \ {s} : scan'[t] = scan[t]
  BY <1>1, ScanTyped DEF Goto, NoScan
<1> QED
  BY <1>2 DEF Solo, Past, Idle, At

LEMMA SoloPurge ==
    ASSUME RegistryInv, NEW s \in alone, Solo(s), Remove(s)
    PROVE  Solo(s)'
<1> s \in Scans
  BY DEF RegistryInv, TypeOK
<1>1. At(s, "purge")
  BY DEF Remove, Solo, At
<1>2. Goto(s, [NoScan EXCEPT !.at = "mark"])
  BY <1>1 DEF Remove
<1>3. scan'[s].at = "mark" /\ \A t \in Scans \ {s} : scan'[t] = scan[t]
  BY <1>2, ScanTyped DEF Goto, NoScan
<1> QED
  BY <1>3 DEF Solo, Past, Idle, At

LEMMA SoloScan ==
    ASSUME RegistryInv, NamesDiffer, \A s \in alone : Solo(s), NEW t \in Scans, Scan(t)
    PROVE  \A s \in alone' : Solo(s)'
<1> SUFFICES ASSUME NEW s \in alone' PROVE Solo(s)'
  OBVIOUS
<1>1. CASE Begin(t)
  <2>1. s = t /\ \A u \in Scans : Idle(u)
    BY <1>1 DEF Begin
  <2> QED
    BY <1>1, <2>1, SoloBegin
<1>2. CASE End(t)
  <2>1. s \in alone /\ s # t /\ s \in Scans
    BY <1>2 DEF End, RegistryInv, TypeOK
  <2>2. /\ row' = row /\ scan'[s] = scan[s]
        /\ \A u \in Scans : scan'[u] = IF u = t THEN NoScan ELSE scan[u]
    BY <1>2, <2>1, ScanTyped DEF End, Goto
  <2>3. \A u \in Scans \ {s} : Idle(u)'
    BY <2>1, <2>2 DEF Solo, Idle, At, NoScan
  <2> QED
    BY <2>1, <2>2, <2>3, SoloRests
<1>3. CASE ~Begin(t) /\ ~End(t)
  <2>1. s \in alone /\ s = t
    <3>1. ~Idle(t)
      BY <1>3 DEF Scan, Begin, Remove, RemoveFails, Mark, Detect, Find, Write, Lost, Clash,
                  BlankOthers, ListStale, LookAt, Verdict, CleanLost, Report, Return, AskDelete,
                  Idle, At
    <3>2. alone' = alone
      BY <1>3 DEF Scan, Remove, RemoveFails, Mark, Detect, Find, Write, Lost, Clash,
                  BlankOthers, ListStale, LookAt, Verdict, CleanLost, Report, Return, AskDelete,
                  OnlyScan
    <3> QED
      BY <3>1, <3>2 DEF Solo
  <2> QED
    BY <1>3, <2>1, SoloPurge, SoloMark, SoloDetect, SoloFind, SoloWrite, SoloClash,
       SoloBlankOthers, SoloList, SoloVerdict
    DEF Scan, RemoveFails, Lost, CleanLost, Return, AskDelete
<1> QED
  BY <1>1, <1>2, <1>3

LEMMA NamesStayDifferent ==
    NamesDiffer /\ RegistryInv /\ [Next]_vars => NamesDiffer'
<1> SUFFICES ASSUME NamesDiffer, RegistryInv, [Next]_vars PROVE NamesDiffer'
  OBVIOUS
<1>1. CASE plug' = plug
  BY <1>1 DEF NamesDiffer
<1>2. ASSUME NEW d \in Devices, NEW n \in Names \cup {Blank}, NEW p \in Ports \cup {Blank},
             Replug(d, n, p)
      PROVE  NamesDiffer'
  <2>1. /\ plug'[d].name = n /\ \A e \in Devices \ {d} : plug'[e] = plug[e]
    BY <1>2 DEF Replug, RegistryInv, TypeOK
  <2>2. n # Blank => \A e \in Devices \ {d} : plug[e].name # n
    BY <1>2 DEF Replug, Fits
  <2> QED
    BY <2>1, <2>2 DEF NamesDiffer
<1> QED
  BY <1>1, <1>2 DEF Next, Scan, Begin, Remove, RemoveFails, Mark, Detect, Find, Write, Lost, Clash,
                    BlankOthers, ListStale, LookAt, Verdict, CleanLost, Report, Return, AskDelete,
                    OnlyScan, End, Attach, Detach, vars

LEMMA TruthInit == Init => TruthInv
<1> SUFFICES ASSUME Init PROVE TruthInv
  OBVIOUS
<1>1. NamesDiffer
  BY DEF Init, NamesDiffer, Fits
<1>2. alone = {}
  BY DEF Init
<1> QED
  BY <1>1, <1>2, InitInv DEF TruthInv

LEMMA TruthKeeps == TruthInv /\ [Next]_vars => TruthInv'
<1> SUFFICES ASSUME TruthInv, [Next]_vars PROVE TruthInv'
  OBVIOUS
<1>1. RegistryInv' /\ NamesDiffer'
  BY NextKeeps, NamesStayDifferent DEF TruthInv
<1>2. CASE \E t \in Scans : Scan(t)
  BY <1>1, <1>2, SoloScan DEF TruthInv
<1>3. CASE \E j \in Jobs : Detach(j) \/ \E n \in Names : Attach(j, n)
  <2>1. alone' = {}
    BY <1>3 DEF Detach, Attach
  <2> QED
    BY <1>1, <2>1 DEF TruthInv
<1>4. CASE UNCHANGED vars \/ \E d \in Devices, n \in Names \cup {Blank}, p \in Ports \cup {Blank} :
                                 Replug(d, n, p)
  <2>1. UNCHANGED <<row, scan, alone>>
    BY <1>4 DEF vars, Replug
  <2> SUFFICES ASSUME NEW s \in alone PROVE Solo(s)'
    BY <1>1, <2>1 DEF TruthInv
  <2>2. Solo(s)
    BY DEF TruthInv
  <2>3. \A u \in Scans \ {s} : Idle(u)'
    BY <2>1, <2>2 DEF Solo, Idle, At
  <2> QED
    BY <2>1, <2>2, <2>3, SoloRests
<1> QED
  BY <1>2, <1>3, <1>4 DEF Next

(* Whatever was in the table and wherever the devices are: a scan nothing    *)
(* interfered with leaves a row for each device it found, and no idle row    *)
(* with a name that is not a device's (drives.py 105-285).                  *)
THEOREM ScansTellTheTruth == Spec => []ScanTruthful
<1>1. TruthInv => ScanTruthful
  <2> SUFFICES ASSUME TruthInv, NEW s \in alone, At(s, "report")
               PROVE  /\ \A i \in scan[s].found :
                           \E r \in Rows : /\ row[r].serial = i.serial /\ row[r].mount = i.mount
                                           /\ ~row[r].stale
                      /\ \A r \in Rows :
                           ~Processing(r) /\ row[r].mount # Blank =>
                             \E i \in scan[s].found : /\ i.mount = row[r].mount
                                                      /\ i.serial = row[r].serial
                      /\ \A q, r \in Rows :
                           row[q].mount = row[r].mount /\ row[q].mount # Blank /\ q # r =>
                             Processing(q) \/ Processing(r)
    BY DEF ScanTruthful
  <2>1. Solo(s) /\ Past(s)
    BY DEF TruthInv, Past, At
  <2>2. Handled(s) = scan[s].found /\ \A r \in Stale : row[r].mount = Blank
    BY <2>1 DEF Solo, Cleaning, Handled, At
  <2>3. \A r \in Rows : Processing(r) <=> ~Free(r)
    BY DEF Processing, Free, Rows
  <2>4. Claimed(s) /\ Accounted(s) /\ Apart(s) /\ \A r \in Rows : ~AtHand(s, r)
    BY <2>1 DEF Solo, AtHand, At
  <2>5. \A r \in Rows : Free(r) /\ row[r].mount # Blank => \E i \in scan[s].found : Of(r, i)
    BY <2>2, <2>4 DEF Accounted, Stale
  <2>6. \A q, r \in Rows :
          row[q].mount = row[r].mount /\ row[q].mount # Blank /\ q # r => ~Free(q) \/ ~Free(r)
    BY <2>2, <2>4, <2>5 DEF Apart, Of
  <2> QED
    BY <2>2, <2>3, <2>4, <2>5, <2>6 DEF Claimed, Of
<1> QED
  BY <1>1, TruthInit, TruthKeeps, PTL DEF Spec
=============================================================================
