--------------------------- MODULE DriveRegistry ---------------------------
(***************************************************************************)
(* The table of optical drives and the scan that keeps it up to date        *)
(* (arm/services/drives.py drives_update, arm/api/v1/drives.py): the kernel *)
(* renames devices when they are plugged in again, and a row must follow    *)
(* its device, by serial number, by port or by name, without moving under   *)
(* a rip that found its row by that name.                                   *)
(*                                                                          *)
(* Scans may overlap: one at the start of each process that serves the API, *)
(* one per disc event (main.py 355-360) and one per rescan request. What a  *)
(* scan decides from a row it has loaded is committed in a later step.      *)
(*                                                                          *)
(* Abstractions: the descriptive columns, mdisc, the tray, the retries of a *)
(* scan at startup that finds no device (it finds what is there when it     *)
(* gives up), and why a scan is started.                                    *)
(***************************************************************************)
EXTENDS Naturals, FiniteSets, FiniteSetsExt

CONSTANTS
    Devices,     \* the optical drives of the host
    SerialOf,    \* ID_SERIAL of a device; NoSerial when udev has none
    NoSerial,
    Names,       \* device names /dev/sr0, ...; a set of positive numbers
    Ports,       \* ID_PATH of a socket, positive numbers too
    Jobs,        \* rips, each of one disc
    NoJob,
    Scans,       \* calls of drives_update that may run at a time
    MaxRow,      \* bound: highest drive_id
    MaxReplugs,  \* bound: how often devices are moved
    MaxScans     \* bound: how many scans and deletions there are

ASSUME RegistryAssumption ==
    /\ DOMAIN SerialOf = Devices
    /\ Names \subseteq Nat \ {0}
    /\ Ports \subseteq Nat \ {0}
    /\ NoJob \notin Jobs
    /\ MaxRow \in Nat /\ MaxReplugs \in Nat /\ MaxScans \in Nat

VARIABLES
    row,      \* system_drives by drive_id
    plug,     \* where each device is: its name and its port, Blank for none
    replugs,
    devpath,  \* job.devpath of the rips under way, Blank for none
    scan,     \* what each scan is doing
    begun,    \* how many have begun
    calm,     \* history: rips that began while no scan was under way
    alone     \* history: scans nothing has interfered with

vars == <<row, plug, replugs, devpath, scan, begun, calm, alone>>

-----------------------------------------------------------------------------
Blank  == 0                    \* the empty string in mount and location
Ids    == 1 .. MaxRow
Absent == [absent |-> TRUE]
Serials == {SerialOf[d] : d \in Devices} \cup {NoSerial}

Row    == [serial : Serials, mount : Names \cup {Blank}, port : Ports \cup {Blank},
           stale : BOOLEAN, job : Jobs \cup {NoJob}]
Info   == [serial : Serials, mount : Names, port : Ports \cup {Blank}]

Exists(r)     == row[r] # Absent
Rows          == {r \in Ids : Exists(r)}
Processing(r) == Exists(r) /\ row[r].job # NoJob

(* A device has a name of its own, and a port unless udev knows none; or it  *)
(* is not there.                                                            *)
Plug == [name : Names \cup {Blank}, port : Ports \cup {Blank}]
Fits(d, n, p) ==
    \/ n = Blank /\ p = Blank
    \/ n # Blank /\ \A e \in Devices \ {d} : plug[e].name # n /\ (p = Blank \/ plug[e].port # p)

(* A scan: its place, the devices it found and has not handled, those it    *)
(* found in all, the row at hand as it was loaded, and a set of rows.       *)
Places == {"idle", "purge", "delete", "mark", "detect", "find", "write", "clash",
           "blank", "clean", "verdict", "report"}
NoRow  == [serial |-> NoSerial, mount |-> Blank, port |-> Blank, stale |-> FALSE,
           job |-> NoJob]
NoScan == [at |-> "idle", left |-> {}, found |-> {}, id |-> 0, old |-> NoRow, set |-> {}]
ScanState == [at : Places, left : SUBSET Info, found : SUBSET Info, id : {0} \cup Ids,
              old : Row, set : SUBSET Ids]

At(s, place) == scan[s].at = place
Idle(s)      == At(s, "idle")

TypeOK ==
    /\ row \in [Ids -> Row \cup {Absent}]
    /\ plug \in [Devices -> Plug]
    /\ replugs \in 0 .. MaxReplugs
    /\ devpath \in [Jobs -> Names \cup {Blank}]
    /\ scan \in [Scans -> ScanState]
    /\ begun \in 0 .. MaxScans
    /\ calm \subseteq Jobs
    /\ alone \subseteq Scans

Init ==
    /\ row = [r \in Ids |-> Absent]
    /\ plug \in [Devices -> Plug]
    /\ \A d \in Devices : Fits(d, plug[d].name, plug[d].port)
    /\ replugs = 0
    /\ devpath = [j \in Jobs |-> Blank]
    /\ scan = [s \in Scans |-> NoScan]
    /\ begun = 0
    /\ calm = {}
    /\ alone = {}

-----------------------------------------------------------------------------
(* The host moves a device to a free name and port, or takes it away.        *)
Replug(d, n, p) ==
    /\ replugs < MaxReplugs
    /\ replugs' = replugs + 1
    /\ Fits(d, n, p)
    /\ plug' = [plug EXCEPT ![d] = [name |-> n, port |-> p]]
    /\ UNCHANGED <<row, devpath, scan, begun, calm, alone>>

Present == {[serial |-> SerialOf[d], mount |-> plug[d].name, port |-> plug[d].port] :
               d \in {e \in Devices : plug[e].name # Blank}}

(* update_drive_job: the row with the name of the disc's drive, if any; the *)
(* first by drive_id if several have it.                                    *)
RowsAt(n) == {r \in Rows : row[r].mount = n}

Attach(j, n) ==
    /\ devpath[j] = Blank
    /\ \A k \in Jobs : devpath[k] # n    \* the lock of the name, see DriveLock
    /\ \E d \in Devices : plug[d].name = n
    /\ devpath' = [devpath EXCEPT ![j] = n]
    /\ row' = IF RowsAt(n) = {} THEN row ELSE [row EXCEPT ![Min(RowsAt(n))].job = j]
    /\ calm' = IF \A s \in Scans : Idle(s) THEN calm \cup {j} ELSE calm \ {j}
    /\ alone' = {}
    /\ UNCHANGED <<plug, replugs, scan, begun>>

(* release_current_job, at the end of the rip. *)
Detach(j) ==
    /\ devpath[j] # Blank
    /\ devpath' = [devpath EXCEPT ![j] = Blank]
    /\ row' = [r \in Ids |-> IF Exists(r) /\ row[r].job = j
                               THEN [row[r] EXCEPT !.job = NoJob] ELSE row[r]]
    /\ calm' = calm \ {j}
    /\ alone' = {}
    /\ UNCHANGED <<plug, replugs, scan, begun>>

-----------------------------------------------------------------------------
Goto(s, state) == scan' = [scan EXCEPT ![s] = state]
Keep(s, place) == [scan[s] EXCEPT !.at = place]

(* The scan is over: it is done, or a commit failed because a row is gone.   *)
End(s) ==
    /\ Goto(s, NoScan)
    /\ alone' = alone \ {s}
    /\ UNCHANGED <<row, plug, replugs, devpath, begun, calm>>

OnlyScan == UNCHANGED <<row, plug, replugs, devpath, begun, calm, alone>>

(* A scan begins; `force` removes the idle rows first. Others lose their     *)
(* claim to be alone when they overlap.                                     *)
Begin(s) ==
    /\ Idle(s)
    /\ begun < MaxScans /\ begun' = begun + 1
    /\ \/ Goto(s, [NoScan EXCEPT !.at = "mark"])
       \/ Goto(s, [NoScan EXCEPT !.at = "purge", !.set = {r \in Rows : ~Processing(r)}])
    /\ alone' = IF \A t \in Scans : Idle(t) THEN {s} ELSE {}
    /\ UNCHANGED <<row, plug, replugs, devpath, calm>>

(* delete_drive looks at the row and removes it in a later step. *)
AskDelete(s, r) ==
    /\ Idle(s)
    /\ begun < MaxScans /\ begun' = begun + 1
    /\ Exists(r) /\ ~Processing(r)
    /\ Goto(s, [NoScan EXCEPT !.at = "delete", !.set = {r}])
    /\ alone' = {}
    /\ UNCHANGED <<row, plug, replugs, devpath, calm>>

(* The rows go in one commit; one that is gone already fails it.            *)
Remove(s) ==
    /\ scan[s].at \in {"purge", "delete"}
    /\ scan[s].set \subseteq Rows
    /\ row' = [r \in Ids |-> IF r \in scan[s].set THEN Absent ELSE row[r]]
    /\ Goto(s, IF At(s, "purge") THEN [NoScan EXCEPT !.at = "mark"] ELSE NoScan)
    /\ UNCHANGED <<plug, replugs, devpath, begun, calm, alone>>

RemoveFails(s) ==
    /\ scan[s].at \in {"purge", "delete"}
    /\ ~(scan[s].set \subseteq Rows)
    /\ End(s)

(* Faulty variant: drives with a job are marked like the others. *)
Mark_All(s) ==
    /\ At(s, "mark")
    /\ row' = [r \in Ids |-> IF Exists(r) THEN [row[r] EXCEPT !.stale = TRUE] ELSE Absent]
    /\ Goto(s, [NoScan EXCEPT !.at = "detect"])
    /\ UNCHANGED <<plug, replugs, devpath, begun, calm, alone>>

(* Rows without a job are stale until a device claims them. A job that      *)
(* comes in the middle of this finds its row as if it came after.           *)
Mark(s) ==
    /\ At(s, "mark")
    /\ row' = [r \in Ids |-> IF Exists(r) THEN [row[r] EXCEPT !.stale = ~Processing(r)]
                                          ELSE Absent]
    /\ Goto(s, [NoScan EXCEPT !.at = "detect"])
    /\ UNCHANGED <<plug, replugs, devpath, begun, calm, alone>>

Detect(s) ==
    /\ At(s, "detect")
    /\ Goto(s, [NoScan EXCEPT !.at = "find", !.left = Present, !.found = Present])
    /\ OnlyScan

(* drives_search is sorted by name. *)
NextInfo(s) == CHOOSE i \in scan[s].left : \A k \in scan[s].left : i.mount <= k.mount

Stale == {r \in Rows : row[r].stale}

(* order_by(mount).first(): a blank name comes first, then the lowest id. *)
FirstByMount(S) == LET m == Min({row[r].mount : r \in S}) IN Min({r \in S : row[r].mount = m})

(* _find_or_create_drive: a stale row of the same serial, of the same port,  *)
(* or any row of the same name; 0 asks for a new row.                       *)
BestRow(i) ==
    LET bySerial == {r \in Stale : row[r].serial = i.serial}
        byPort   == {r \in Stale : row[r].port = i.port}
    IN IF i.serial # NoSerial /\ bySerial # {} THEN FirstByMount(bySerial)
       ELSE IF i.port # Blank /\ byPort # {} THEN Min(byPort)
       ELSE IF RowsAt(i.mount) # {} THEN Min(RowsAt(i.mount))
       ELSE 0

Find(s) ==
    /\ At(s, "find")
    /\ scan[s].left # {}
    /\ LET r == BestRow(NextInfo(s))
       IN Goto(s, [Keep(s, "write") EXCEPT !.id = r,
                                           !.old = IF r = 0 THEN NoRow ELSE row[r]])
    /\ OnlyScan

(* SQLite gives a new row the id after the highest. *)
NewId == IF Rows = {} THEN 1 ELSE Max(Rows) + 1

(* Faulty variant: the mark is not taken off the row that was found. *)
Written_KeepsMark(now, old, i) ==
    [now EXCEPT !.serial = i.serial, !.mount = i.mount, !.port = i.port]

(* Only the columns that differ from the row as it was loaded are written.   *)
Written(now, old, i) ==
    [now EXCEPT !.serial = IF old.serial = i.serial THEN @ ELSE i.serial,
                !.mount  = IF old.mount = i.mount THEN @ ELSE i.mount,
                !.port   = IF old.port = i.port THEN @ ELSE i.port,
                !.stale  = IF old.stale THEN FALSE ELSE @]

Write(s) ==
    /\ At(s, "write")
    /\ LET i == NextInfo(s)
           r == scan[s].id
       IN \/ /\ r # 0 /\ Exists(r)
             /\ row' = [row EXCEPT ![r] = Written(@, scan[s].old, i)]
             /\ Goto(s, [Keep(s, "clash") EXCEPT !.old = NoRow])
          \/ /\ r = 0 /\ NewId \in Ids
             /\ row' = [row EXCEPT ![NewId] = [serial |-> i.serial, mount |-> i.mount,
                            port |-> i.port, stale |-> FALSE, job |-> NoJob]]
             /\ Goto(s, [Keep(s, "clash") EXCEPT !.id = NewId])
    /\ UNCHANGED <<plug, replugs, devpath, begun, calm, alone>>

Lost(s) ==
    /\ scan[s].at \in {"write", "clash"}
    /\ scan[s].id # 0 /\ ~Exists(scan[s].id)
    /\ End(s)

(* The other rows that carry the name, without a job as far as can be seen.  *)
Clash(s) ==
    /\ At(s, "clash")
    /\ Exists(scan[s].id)
    /\ Goto(s, [Keep(s, "blank") EXCEPT
                  !.set = {r \in RowsAt(row[scan[s].id].mount) \ {scan[s].id} : ~Processing(r)}])
    /\ OnlyScan

BlankOthers(s) ==
    /\ At(s, "blank")
    /\ scan[s].set \subseteq Rows
    /\ row' = [r \in Ids |-> IF r \in scan[s].set THEN [row[r] EXCEPT !.mount = Blank] ELSE row[r]]
    /\ Goto(s, [Keep(s, "find") EXCEPT !.left = @ \ {NextInfo(s)}, !.set = {}, !.id = 0])
    /\ UNCHANGED <<plug, replugs, devpath, begun, calm, alone>>

(* _cleanup_stale_drives: what no device claimed ... *)
ListStale(s) ==
    /\ At(s, "find")
    /\ scan[s].left = {}
    /\ Goto(s, [Keep(s, "clean") EXCEPT !.set = Stale])
    /\ OnlyScan

(* ... is looked at, one row at a time; the rows already blank are passed by *)
LookAt(s, r) ==
    /\ At(s, "clean")
    /\ r \in scan[s].set /\ Exists(r)
    /\ Goto(s, [Keep(s, "verdict") EXCEPT !.id = r, !.old = row[r]])
    /\ OnlyScan

(* ... and loses its name and port, or its mark when it has got a job.       *)
Verdict(s) ==
    /\ At(s, "verdict")
    /\ LET r == scan[s].id IN
         /\ Exists(r)
         /\ row' = [row EXCEPT ![r] =
                      IF scan[s].old.job # NoJob THEN [@ EXCEPT !.stale = FALSE]
                      ELSE [@ EXCEPT !.mount = Blank, !.port = Blank]]
         /\ Goto(s, [Keep(s, "clean") EXCEPT !.set = @ \ {r}, !.id = 0, !.old = NoRow])
    /\ UNCHANGED <<plug, replugs, devpath, begun, calm, alone>>

CleanLost(s) ==
    /\ \/ At(s, "blank") /\ ~(scan[s].set \subseteq Rows)
       \/ At(s, "clean") /\ ~(scan[s].set \subseteq Rows)
       \/ At(s, "verdict") /\ ~Exists(scan[s].id)
    /\ End(s)

Report(s) ==
    /\ At(s, "clean")
    /\ scan[s].set = {}
    /\ Goto(s, Keep(s, "report"))
    /\ OnlyScan

Return(s) ==
    /\ At(s, "report")
    /\ End(s)

Scan(s) ==
    \/ Begin(s) \/ Remove(s) \/ RemoveFails(s) \/ Mark(s) \/ Detect(s)
    \/ Find(s) \/ Write(s) \/ Lost(s) \/ Clash(s) \/ BlankOthers(s)
    \/ ListStale(s) \/ Verdict(s) \/ CleanLost(s) \/ Report(s) \/ Return(s)
    \/ \E r \in Ids : AskDelete(s, r) \/ LookAt(s, r)

Next ==
    \/ \E s \in Scans : Scan(s)
    \/ \E d \in Devices, n \in Names \cup {Blank}, p \in Ports \cup {Blank} : Replug(d, n, p)
    \/ \E j \in Jobs : Detach(j) \/ \E n \in Names : Attach(j, n)

Spec == Init /\ [][Next]_vars

-----------------------------------------------------------------------------
(* A rip finds its drive by name, and whoever ejects or shows the drive     *)
(* takes the name from the row: a rip that began while no scan was under    *)
(* way keeps a row of its name, whatever is scanned, plugged and deleted    *)
(* meanwhile. (drives.py 295-297: a rescan "can never blank the mount of a  *)
(* drive that is mid-rip"; for rips that begin during a scan it can.)       *)
RipKeepsName ==
    \A r \in Ids :
        Processing(r) /\ row[r].job \in calm => row[r].mount = devpath[row[r].job]

(* A scan nothing interfered with leaves the table as the host is: each     *)
(* device it found has a row with its serial and name, and apart from the   *)
(* rows of rips no other row has a name.                                    *)
ScanTruthful ==
    \A s \in alone :
        At(s, "report") =>
            /\ \A i \in scan[s].found :
                 \E r \in Rows : /\ row[r].serial = i.serial /\ row[r].mount = i.mount
                                 /\ ~row[r].stale
            /\ \A r \in Rows :
                 ~Processing(r) /\ row[r].mount # Blank =>
                     \E i \in scan[s].found : i.mount = row[r].mount /\ i.serial = row[r].serial
            /\ \A q, r \in Rows :
                 row[q].mount = row[r].mount /\ row[q].mount # Blank /\ q # r =>
                     Processing(q) \/ Processing(r)
=============================================================================
