---------------------- MODULE NotificationOutbox_proofs ----------------------
(***************************************************************************)
(* Accounted, ScriptsOnce, OutcomeTrue and FinalStays, for any number of    *)
(* events, channels, tries and restarts.                                    *)
(*                                                                          *)
(* Accounted is not inductive: a row that may still be sent must have room for one *)
(* more delivery. So the invariant follows a row: while it is pending, in   *)
(* the batch or about to be sent, and whenever the dispatcher is not past   *)
(* its reaper, it has room; a delivery uses the room up, and it is made     *)
(* again by counting the try or by starting the server. For a script only    *)
(* the start counts, and a failure that is to be tried again leaves the      *)
(* room unused, or it was output that could not be read.                    *)
(*                                                                          *)
(* OutcomeTrue rests on what the dispatcher holds: an answer "ok" is about   *)
(* the one row at hand, which was just delivered. FinalStays rests on the    *)
(* same: a row at hand or in the batch is in flight or gone.                *)
(***************************************************************************)
EXTENDS NotificationOutbox, TLAPS

Starts == boots + IF disp = "down" THEN 1 ELSE 0

Room(r) == delivered[r] < attempts[r] + Starts

Sendable(r) ==
    \/ row[r] = "pending"
    \/ r \in batch
    \/ disp = "send" /\ r \in at_hand
    \/ disp \in {"down", "boot"}

(* The part of the types the argument needs. *)
Typed ==
    /\ row \in [Rows -> RowStates]
    /\ attempts \in [Rows -> Nat]
    /\ boots \in Nat
    /\ delivered \in [Rows -> Nat]
    /\ garbled \in [Rows -> Nat]
    /\ batch \in SUBSET Rows
    /\ at_hand \in SUBSET Rows
    /\ answer \in {"ok", "transient", "terminal"}

(* The rows the dispatcher has taken are nobody else's. *)
Held ==
    /\ at_hand \cap batch = {}
    /\ \A r \in batch \cup at_hand : row[r] \in {"in_flight", "deleted"}
    /\ disp \in {"down", "boot", "tick"} => batch = {}
    /\ disp \in {"down", "boot", "tick", "batch"} => at_hand = {}

Fresh ==
    /\ \A r \in Rows : row[r] = "none" => delivered[r] = 0
    /\ disp # "down" => boots > 0

OutboxInv ==
    /\ Typed
    /\ Held
    /\ Fresh
    /\ Accounted
    /\ \A r \in Rows : Sendable(r) => Room(r)

-----------------------------------------------------------------------------
LEMMA OutboxInit == Init => OutboxInv
BY DEF Init, OutboxInv, Typed, Held, Fresh, Accounted, Room, Starts, RowStates, Final

(* New rows are rows nobody received, and a server has started or will.     *)
LEMMA EnqueueKeeps ==
    ASSUME OutboxInv, NEW S \in SUBSET Rows, \A r \in S : row[r] = "none", Enqueue(S)
    PROVE  OutboxInv'
<1> USE DEF OutboxInv, Typed, Enqueue, dispVars, received
<1>1. Typed'
  BY DEF RowStates
<1>2. Held' /\ Fresh' /\ Accounted'
  BY DEF Held, Fresh, Accounted
<1>3. ASSUME NEW r \in Rows, Sendable(r)' PROVE Room(r)'
  <2>1. CASE r \in S
    <3>1. delivered[r] = 0 /\ Starts > 0
      BY <2>1 DEF Fresh, Starts
    <3> QED
      BY <3>1 DEF Room, Starts
  <2>2. CASE r \notin S
    BY <1>3, <2>2 DEF Sendable, Room, Starts
  <2> QED
    BY <2>1, <2>2
<1> QED
  BY <1>1, <1>2, <1>3

(* Users, the clock and the retention sweep make no row sendable. *)
LEMMA OthersKeep ==
    ASSUME OutboxInv,
           \/ \E c \in Channels : Create(c) \/ Toggle(c) \/ Delete(c)
           \/ \E r \in Rows : Elapse(r)
           \/ Cleanup
    PROVE  OutboxInv'
<1>1. /\ UNCHANGED <<attempts, dispVars, boots, received>>
      /\ \A r \in Rows : row'[r] = row[r] \/ (row[r] # "none" /\ row'[r] = "deleted")
      /\ row' \in [Rows -> RowStates]
  <2> USE DEF OutboxInv, Typed, RowStates, Final, rowVars
  <2>1. CASE \E c \in Channels : Create(c) \/ Toggle(c)
    BY <2>1 DEF Create, Toggle
  <2>2. CASE \E c \in Channels : Delete(c)
    BY <2>2 DEF Delete
  <2>3. CASE \E r \in Rows : Elapse(r)
    BY <2>3 DEF Elapse
  <2>4. CASE Cleanup
    BY <2>4 DEF Cleanup
  <2> QED
    BY <2>1, <2>2, <2>3, <2>4
<1> USE <1>1 DEF OutboxInv, Typed, dispVars, received
<1>2. Typed' /\ Held' /\ Fresh' /\ Accounted'
  BY DEF Held, Fresh, Accounted
<1>3. ASSUME NEW r \in Rows, Sendable(r)' PROVE Room(r)'
  BY <1>3 DEF Sendable, Room, Starts
<1> QED
  BY <1>2, <1>3

-----------------------------------------------------------------------------
(* Starting and stopping: the start that is to come counts from the moment  *)
(* the server is down.                                                      *)
LEMMA StartsKeep ==
    ASSUME OutboxInv, Boot \/ Reap \/ ReapRaises \/ GoDown
    PROVE  OutboxInv'
<1> USE DEF OutboxInv, Typed, RowStates, rowVars, received
<1>1. CASE Boot
  <2>1. Typed' /\ Held' /\ Fresh' /\ Accounted'
    BY <1>1 DEF Boot, Held, Fresh, Accounted
  <2>2. ASSUME NEW r \in Rows PROVE Room(r)'
    BY <1>1 DEF Boot, Room, Starts, Sendable
  <2> QED
    BY <2>1, <2>2
<1>2. CASE Reap
  <2>1. Typed' /\ Held' /\ Fresh' /\ Accounted'
    BY <1>2 DEF Reap, Held, Fresh, Accounted
  <2>2. ASSUME NEW r \in Rows PROVE Room(r)'
    BY <1>2 DEF Reap, Room, Starts, Sendable
  <2> QED
    BY <2>1, <2>2
<1>3. CASE ReapRaises
  <2>1. Typed' /\ Held' /\ Fresh' /\ Accounted'
    BY <1>3 DEF ReapRaises, Held, Fresh, Accounted
  <2>2. ASSUME NEW r \in Rows PROVE Room(r)'
    BY <1>3 DEF ReapRaises, Room, Starts, Sendable
  <2> QED
    BY <2>1, <2>2
<1>4. CASE GoDown
  <2>1. Typed' /\ Held' /\ Fresh' /\ Accounted'
    BY <1>4 DEF GoDown, Held, Fresh, Accounted
  <2>2. ASSUME NEW r \in Rows PROVE Room(r)'
    BY <1>4 DEF GoDown, Room, Starts, Sendable, Accounted
  <2> QED
    BY <2>1, <2>2
<1> QED
  BY <1>1, <1>2, <1>3, <1>4

LEMMA DequeueKeeps ==
    ASSUME OutboxInv, Dequeue
    PROVE  OutboxInv'
<1> USE DEF OutboxInv, Typed, received
<1>1. PICK S \in SUBSET Due :
        /\ batch' = S
        /\ row' = [r \in Rows |-> IF r \in S THEN "in_flight" ELSE row[r]]
  BY DEF Dequeue
<1>2. /\ disp = "tick" /\ disp' = "batch"
      /\ UNCHANGED <<attempts, at_hand, answer, boots, received>>
  BY DEF Dequeue
<1>3. S \subseteq Rows /\ \A r \in S : row[r] = "pending"
  BY DEF Due
<1>4. Typed'
  BY <1>1, <1>2, <1>3 DEF RowStates
<1>5. Held'
  BY <1>1, <1>2, <1>3 DEF Held
<1>6. Fresh' /\ Accounted'
  BY <1>1, <1>2 DEF Fresh, Accounted
<1>7. ASSUME NEW r \in Rows, Sendable(r)' PROVE Room(r)'
  BY <1>1, <1>2, <1>3, <1>7 DEF Sendable, Room, Starts
<1> QED
  BY <1>4, <1>5, <1>6, <1>7

(* A sender delivers a row at most once, and says so to the dispatcher. *)
LEMMA SentOnce ==
    ASSUME OutboxInv, NEW r \in Rows,
           RenderFails(r) \/ SendApprise(r) \/ RefuseUrl(r) \/ SendWebhook(r) \/ SendBash(r)
    PROVE  /\ \E says \in {"ok", "transient", "terminal"}, n \in 0..1 : Sent(r, says, n)
           /\ disp = "send" /\ r \in at_hand
           /\ garbled' \in [Rows -> Nat]
<1> USE DEF OutboxInv, Typed
<1>1. CASE RenderFails(r)
  BY <1>1 DEF RenderFails
<1>2. CASE SendApprise(r)
  BY <1>2 DEF SendApprise
<1>3. CASE SendWebhook(r)
  BY <1>3 DEF SendWebhook
<1>4. CASE SendBash(r)
  BY <1>4 DEF SendBash
<1>5. CASE RefuseUrl(r)
  BY <1>5 DEF RefuseUrl
<1> QED
  BY <1>1, <1>2, <1>3, <1>4, <1>5

(* One row: taken with its room, delivered at most once, and given back     *)
(* only with the try counted.                                               *)
LEMMA RowKeeps ==
    ASSUME OutboxInv, NEW r \in Rows, Row(r)
    PROVE  OutboxInv'
<1> USE DEF OutboxInv, Typed, RowStates, Final, rowVars, received
<1>1. CASE TakeRaises(r)
  <2>1. Typed' /\ Held' /\ Fresh' /\ Accounted'
    BY <1>1 DEF TakeRaises, Held, Fresh, Accounted
  <2>2. ASSUME NEW q \in Rows, Sendable(q)' PROVE Room(q)'
    BY <1>1, <2>2 DEF TakeRaises, Sendable, Room, Starts
  <2> QED
    BY <2>1, <2>2
<1>2. CASE Take(r)
  <2>1. Typed' /\ Held' /\ Fresh' /\ Accounted'
    BY <1>2 DEF Take, Held, Fresh, Accounted
  <2>2. ASSUME NEW q \in Rows, Sendable(q)' PROVE Room(q)'
    BY <1>2, <2>2 DEF Take, Sendable, Room, Starts
  <2> QED
    BY <2>1, <2>2
<1>3. ASSUME RenderFails(r) \/ SendApprise(r) \/ RefuseUrl(r) \/ SendWebhook(r) \/ SendBash(r)
      PROVE  OutboxInv'
  <2>0. /\ \E says \in {"ok", "transient", "terminal"}, n \in 0..1 : Sent(r, says, n)
        /\ disp = "send" /\ r \in at_hand
        /\ garbled' \in [Rows -> Nat]
    BY <1>3, SentOnce
  <2>1. /\ \A q \in Rows \ {r} : delivered'[q] = delivered[q]
        /\ delivered'[r] \in {delivered[r], delivered[r] + 1}
        /\ delivered' \in [Rows -> Nat]
    BY <2>0 DEF Sent
  <2>2. /\ disp = "send" /\ disp' = "record" /\ r \in at_hand
        /\ UNCHANGED <<row, attempts, batch, at_hand, boots>>
        /\ answer' \in {"ok", "transient", "terminal"}
    BY <2>0 DEF Sent
  <2>3. Room(r) /\ r \notin batch /\ row[r] # "pending" /\ row[r] # "none"
    BY <2>2 DEF Sendable, Held
  <2>4. Typed' /\ Held' /\ Fresh'
    BY <2>0, <2>1, <2>2, <2>3 DEF Held, Fresh
  <2>5. Accounted'
    BY <2>1, <2>2, <2>3 DEF Accounted, Room, Starts
  <2>6. ASSUME NEW q \in Rows, Sendable(q)' PROVE Room(q)'
    BY <2>1, <2>2, <2>3, <2>6 DEF Sendable, Room, Starts
  <2> QED
    BY <2>4, <2>5, <2>6
<1>4. ASSUME RecordSuccess(r) \/ RecordFailure(r) \/ RecordLost(r)
      PROVE  OutboxInv'
  <2>1. /\ disp = "record" /\ disp' \in {"tick", "batch"} /\ (disp' = "tick" => batch = {})
        /\ r \in at_hand /\ at_hand' = {}
        /\ UNCHANGED <<batch, boots, received>>
        /\ answer' = "ok"
    BY <1>4 DEF RecordSuccess, RecordFailure, RecordLost, Proceed
  <2>2. /\ \A q \in Rows \ {r} : row'[q] = row[q] /\ attempts'[q] = attempts[q]
        /\ row' \in [Rows -> RowStates]
        /\ attempts' \in [Rows -> Nat]
        /\ attempts'[r] \in {attempts[r], attempts[r] + 1}
    BY <1>4 DEF RecordSuccess, RecordFailure, RecordLost
  <2>3. /\ row'[r] # "none"
        /\ row'[r] = "pending" => attempts'[r] = attempts[r] + 1
    BY <1>4, <2>1 DEF RecordSuccess, RecordFailure, RecordLost, Held
  <2>4. r \notin batch
    BY <2>1 DEF Held
  <2>5. Typed' /\ Held' /\ Fresh' /\ Accounted'
    BY <2>1, <2>2, <2>3, <2>4 DEF Held, Fresh, Accounted
  <2>6. ASSUME NEW q \in Rows, Sendable(q)' PROVE Room(q)'
    BY <2>1, <2>2, <2>3, <2>4, <2>6 DEF Sendable, Room, Starts, Accounted
  <2> QED
    BY <2>5, <2>6
<1> QED
  BY <1>1, <1>2, <1>3, <1>4 DEF Row

LEMMA OutboxStep == OutboxInv /\ [Next]_vars => OutboxInv'
<1> SUFFICES ASSUME OutboxInv, [Next]_vars PROVE OutboxInv'
  OBVIOUS
<1>1. CASE Dispatcher
  BY <1>1, StartsKeep, DequeueKeeps, RowKeeps DEF Dispatcher
<1>2. CASE GoDown
  BY <1>2, StartsKeep
<1>3. CASE Cleanup \/ (\E c \in Channels : Create(c) \/ Toggle(c) \/ Delete(c)) \/ \E r \in Rows : Elapse(r)
  BY <1>3, OthersKeep
<1>4. ASSUME NEW e \in Events, Publish(e) PROVE OutboxInv'
  <2> DEFINE S == {r \in Rows : r[1] = e /\ channel[r[2]] = "on"}
  <2>1. \A r \in S : row[r] = "none"
    BY <1>4 DEF Publish, Rows
  <2>2. Enqueue(S) /\ S \in SUBSET Rows
    BY <1>4 DEF Publish
  <2> QED
    BY <2>1, <2>2, EnqueueKeeps
<1>5. ASSUME NEW e \in Events, NEW c \in Channels, PublishTest(e, c) PROVE OutboxInv'
  <2>1. {<<e, c>>} \in SUBSET Rows
    BY DEF Rows
  <2>2. Enqueue({<<e, c>>}) /\ row[<<e, c>>] = "none"
    BY <1>5 DEF PublishTest
  <2> QED
    BY <2>1, <2>2, EnqueueKeeps
<1>6. CASE UNCHANGED vars
  BY <1>6 DEF vars, rowVars, dispVars, received, OutboxInv, Typed, Held, Fresh, Accounted,
              Sendable, Room, Starts
<1> QED
  BY <1>1, <1>2, <1>3, <1>4, <1>5, <1>6 DEF Next

-----------------------------------------------------------------------------
(* Scripts: a failure to be tried again leaves room, as a row that waits has.*)
ScriptRoom(r) == delivered[r] < Starts + garbled[r]

Repeatable(r) ==
    \/ Sendable(r)
    \/ disp = "record" /\ r \in at_hand /\ answer = "transient"

ScriptRows == Events \X Scripts

ScriptInv ==
    /\ ScriptsOnce
    /\ \A r \in ScriptRows : Repeatable(r) => ScriptRoom(r)

LEMMA ScriptRowsAreRows == ScriptRows \subseteq Rows /\ \A r \in ScriptRows : r[2] \in Scripts
BY DEF ScriptRows, Rows, Channels

LEMMA ScriptEnqueue ==
    ASSUME OutboxInv, ScriptInv, NEW S \in SUBSET Rows, \A r \in S : row[r] = "none", Enqueue(S)
    PROVE  ScriptInv'
<1> USE ScriptRowsAreRows DEF OutboxInv, Typed, Enqueue, dispVars, received, ScriptInv
<1>1. ScriptsOnce'
  BY DEF ScriptsOnce
<1>2. ASSUME NEW r \in ScriptRows, Repeatable(r)' PROVE ScriptRoom(r)'
  <2>1. CASE r \in S
    <3>1. delivered[r] = 0 /\ Starts > 0
      BY <2>1 DEF Fresh, Starts
    <3> QED
      BY <3>1 DEF ScriptRoom, Starts
  <2>2. CASE r \notin S
    BY <1>2, <2>2 DEF Repeatable, Sendable, ScriptRoom, Starts
  <2> QED
    BY <2>1, <2>2
<1> QED
  BY <1>1, <1>2 DEF ScriptRows

LEMMA ScriptOthers ==
    ASSUME OutboxInv, ScriptInv,
           \/ \E c \in Channels : Create(c) \/ Toggle(c) \/ Delete(c)
           \/ \E r \in Rows : Elapse(r)
           \/ Cleanup
    PROVE  ScriptInv'
<1>1. /\ UNCHANGED <<dispVars, boots, received>>
      /\ \A r \in Rows : row'[r] = "pending" => row[r] = "pending"
  <2> USE DEF OutboxInv, Typed, RowStates, Final, rowVars
  <2>1. CASE \E c \in Channels : Create(c) \/ Toggle(c)
    BY <2>1 DEF Create, Toggle
  <2>2. CASE \E c \in Channels : Delete(c)
    BY <2>2 DEF Delete
  <2>3. CASE \E r \in Rows : Elapse(r)
    BY <2>3 DEF Elapse
  <2>4. CASE Cleanup
    BY <2>4 DEF Cleanup
  <2> QED
    BY <2>1, <2>2, <2>3, <2>4
<1> USE <1>1, ScriptRowsAreRows DEF ScriptInv, dispVars, received
<1>2. ScriptsOnce'
  BY DEF ScriptsOnce
<1>3. ASSUME NEW r \in ScriptRows, Repeatable(r)' PROVE ScriptRoom(r)'
  BY <1>3 DEF Repeatable, Sendable, ScriptRoom, Starts
<1> QED
  BY <1>2, <1>3 DEF ScriptRows

LEMMA ScriptStarts ==
    ASSUME OutboxInv, ScriptInv, Boot \/ Reap \/ ReapRaises \/ GoDown
    PROVE  ScriptInv'
<1> USE ScriptRowsAreRows DEF OutboxInv, Typed, rowVars, received, ScriptInv
<1>1. CASE Boot
  BY <1>1 DEF Boot, ScriptsOnce, ScriptRows, ScriptRoom, Starts, Repeatable, Sendable
<1>2. CASE Reap
  BY <1>2 DEF Reap, ScriptsOnce, ScriptRows, ScriptRoom, Starts, Repeatable, Sendable
<1>3. CASE ReapRaises
  BY <1>3 DEF ReapRaises, ScriptsOnce, ScriptRows, ScriptRoom, Starts, Repeatable, Sendable
<1>4. CASE GoDown
  BY <1>4 DEF GoDown, ScriptsOnce, ScriptRows, ScriptRoom, Starts, Repeatable, Sendable
<1> QED
  BY <1>1, <1>2, <1>3, <1>4

LEMMA ScriptDequeue ==
    ASSUME OutboxInv, ScriptInv, Dequeue
    PROVE  ScriptInv'
<1> USE ScriptRowsAreRows DEF OutboxInv, Typed, received, ScriptInv
<1>1. PICK S \in SUBSET Due :
        /\ batch' = S
        /\ row' = [r \in Rows |-> IF r \in S THEN "in_flight" ELSE row[r]]
  BY DEF Dequeue
<1>2. /\ disp = "tick" /\ disp' = "batch" /\ UNCHANGED <<at_hand, boots, received>>
      /\ \A r \in S : row[r] = "pending"
  BY <1>1 DEF Dequeue, Due
<1>3. ScriptsOnce'
  BY <1>2 DEF ScriptsOnce
<1>4. ASSUME NEW r \in ScriptRows, Repeatable(r)' PROVE ScriptRoom(r)'
  BY <1>1, <1>2, <1>4 DEF Repeatable, Sendable, ScriptRoom, Starts
<1> QED
  BY <1>3, <1>4 DEF ScriptRows

(* One row: sent with room, and what uses it up without a verdict is counted.*)
LEMMA ScriptRow ==
    ASSUME OutboxInv, ScriptInv, NEW q \in Rows, Row(q)
    PROVE  ScriptInv'
<1> USE ScriptRowsAreRows DEF OutboxInv, Typed, RowStates, Final, rowVars, received, ScriptInv
<1>1. CASE TakeRaises(q)
  BY <1>1 DEF TakeRaises, ScriptsOnce, ScriptRows, ScriptRoom, Starts, Repeatable, Sendable
<1>2. CASE Take(q)
  <2>1. ScriptsOnce'
    BY <1>2 DEF Take, ScriptsOnce
  <2>2. ASSUME NEW r \in ScriptRows, Repeatable(r)' PROVE ScriptRoom(r)'
    BY <1>2, <2>2 DEF Take, Repeatable, Sendable, ScriptRoom, Starts
  <2> QED
    BY <2>1, <2>2 DEF ScriptRows
<1>3. ASSUME RenderFails(q) \/ SendApprise(q) \/ RefuseUrl(q) \/ SendWebhook(q) \/ SendBash(q)
      PROVE  ScriptInv'
  <2>1. /\ disp = "send" /\ disp' = "record" /\ q \in at_hand
        /\ UNCHANGED <<row, batch, at_hand, boots>>
        /\ \A r \in Rows \ {q} : delivered'[r] = delivered[r]
    BY <1>3, SentOnce DEF Sent
  <2>2. \A r \in Rows \ {q} : garbled'[r] = garbled[r]
    BY <1>3 DEF RenderFails, SendApprise, RefuseUrl, SendWebhook, SendBash
  <2>3. q \notin batch /\ row[q] # "pending"
    BY <2>1 DEF Held
  <2>4. ASSUME q \in ScriptRows
        PROVE  /\ delivered'[q] <= boots + garbled'[q]
               /\ answer' = "transient" => delivered'[q] < boots + garbled'[q]
    <3>1. q[2] \in Scripts /\ q[2] \notin Apprise /\ q[2] \notin Webhooks
      BY <2>4, OutboxAssumption
    <3>2. delivered[q] < boots + garbled[q]
      BY <2>1, <2>4 DEF Repeatable, Sendable, ScriptRoom, Starts
    <3>3. CASE RenderFails(q)
      BY <3>2, <3>3 DEF RenderFails, Sent
    <3>4. CASE SendBash(q)
      BY <3>2, <3>4 DEF SendBash, Sent
    <3> QED
      BY <1>3, <3>1, <3>3, <3>4 DEF SendApprise, RefuseUrl, SendWebhook
  <2>5. ScriptsOnce'
    BY <2>1, <2>2, <2>4 DEF ScriptsOnce, ScriptRows
  <2>6. ASSUME NEW r \in ScriptRows, Repeatable(r)' PROVE ScriptRoom(r)'
    <3>1. CASE r = q
      BY <2>1, <2>3, <2>4, <2>6, <3>1 DEF Repeatable, Sendable, ScriptRoom, Starts
    <3>2. CASE r # q
      BY <2>1, <2>2, <2>6, <3>2 DEF Repeatable, Sendable, ScriptRoom, Starts, Held
    <3> QED
      BY <3>1, <3>2
  <2> QED
    BY <2>5, <2>6 DEF ScriptRows
<1>4. ASSUME RecordSuccess(q) \/ RecordFailure(q) \/ RecordLost(q)
      PROVE  ScriptInv'
  <2>1. /\ disp = "record" /\ disp' \in {"tick", "batch"} /\ q \in at_hand /\ at_hand' = {}
        /\ UNCHANGED <<batch, boots, received>>
    BY <1>4 DEF RecordSuccess, RecordFailure, RecordLost, Proceed
  <2>2. /\ \A r \in Rows \ {q} : row'[r] = row[r]
        /\ row'[q] = "pending" => answer = "transient"
    BY <1>4, <2>1 DEF RecordSuccess, RecordFailure, RecordLost, Held
  <2>3. ScriptsOnce'
    BY <2>1 DEF ScriptsOnce
  <2>4. ASSUME NEW r \in ScriptRows, Repeatable(r)' PROVE ScriptRoom(r)'
    BY <2>1, <2>2, <2>4 DEF Repeatable, Sendable, ScriptRoom, Starts
  <2> QED
    BY <2>3, <2>4 DEF ScriptRows
<1> QED
  BY <1>1, <1>2, <1>3, <1>4 DEF Row

LEMMA ScriptStep == OutboxInv /\ ScriptInv /\ [Next]_vars => ScriptInv'
<1> SUFFICES ASSUME OutboxInv, ScriptInv, [Next]_vars PROVE ScriptInv'
  OBVIOUS
<1>1. CASE Dispatcher
  BY <1>1, ScriptStarts, ScriptDequeue, ScriptRow DEF Dispatcher
<1>2. CASE GoDown
  BY <1>2, ScriptStarts
<1>3. CASE \/ Cleanup
           \/ \E c \in Channels : Create(c) \/ Toggle(c) \/ Delete(c)
           \/ \E r \in Rows : Elapse(r)
  BY <1>3, ScriptOthers
<1>4. ASSUME NEW e \in Events, Publish(e) PROVE ScriptInv'
  <2> DEFINE S == {r \in Rows : r[1] = e /\ channel[r[2]] = "on"}
  <2>1. \A r \in S : row[r] = "none"
    BY <1>4 DEF Publish, Rows
  <2>2. Enqueue(S) /\ S \in SUBSET Rows
    BY <1>4 DEF Publish
  <2> QED
    BY <2>1, <2>2, ScriptEnqueue
<1>5. ASSUME NEW e \in Events, NEW c \in Channels, PublishTest(e, c) PROVE ScriptInv'
  <2>1. {<<e, c>>} \in SUBSET Rows
    BY DEF Rows
  <2>2. Enqueue({<<e, c>>}) /\ row[<<e, c>>] = "none"
    BY <1>5 DEF PublishTest
  <2> QED
    BY <2>1, <2>2, ScriptEnqueue
<1>6. CASE UNCHANGED vars
  BY <1>6 DEF vars, rowVars, dispVars, received, ScriptInv, ScriptsOnce, Repeatable, Sendable,
              ScriptRoom, Starts
<1> QED
  BY <1>1, <1>2, <1>3, <1>4, <1>5, <1>6 DEF Next

-----------------------------------------------------------------------------
(* What a row says of itself. *)

(* The sender's word is about one row, which it has delivered if it says so. *)
Heard ==
    /\ \A q, r \in at_hand : q = r
    /\ disp = "record" /\ answer = "ok" => \A r \in at_hand : delivered[r] > 0

VerdictInv ==
    /\ TypeOK
    /\ OutcomeTrue
    /\ Heard
    /\ \A r \in Rows : row[r] = "none" => attempts[r] = 0

LEMMA VerdictInit == Init => VerdictInv
BY OutboxAssumption DEF Init, VerdictInv, TypeOK, OutcomeTrue, Heard, RowStates, Final

LEMMA VerdictEnqueue ==
    ASSUME VerdictInv, NEW S \in SUBSET Rows, \A r \in S : row[r] = "none", Enqueue(S)
    PROVE  VerdictInv'
<1> USE OutboxAssumption DEF VerdictInv, Enqueue, dispVars, received
<1>1. TypeOK'
  BY DEF TypeOK, RowStates
<1>2. OutcomeTrue' /\ \A r \in Rows : (row[r] = "none" => attempts[r] = 0)'
  BY DEF TypeOK, OutcomeTrue
<1>3. Heard'
  BY DEF Heard
<1> QED
  BY <1>1, <1>2, <1>3

LEMMA VerdictOthers ==
    ASSUME VerdictInv,
           \/ \E c \in Channels : Create(c) \/ Toggle(c) \/ Delete(c)
           \/ \E r \in Rows : Elapse(r)
           \/ Cleanup
    PROVE  VerdictInv'
<1> USE DEF VerdictInv
<1>1. UNCHANGED <<attempts, dispVars, boots, received>>
  BY DEF Create, Toggle, Delete, Elapse, Cleanup, rowVars
<1>2. \A r \in Rows : row'[r] = row[r] \/ (row[r] # "none" /\ row'[r] = "deleted")
  BY DEF Create, Toggle, Delete, Elapse, Cleanup, rowVars, TypeOK, Final
<1>3. /\ row' \in [Rows -> RowStates]
      /\ channel' \in [Channels -> {"none", "on", "off", "deleted"}]
      /\ at' \in [Rows -> {"later", "due", "stale"}]
  BY DEF Create, Toggle, Delete, Elapse, Cleanup, rowVars, TypeOK, RowStates
<1>4. TypeOK'
  BY <1>1, <1>3 DEF TypeOK, dispVars, received
<1>5. OutcomeTrue' /\ \A r \in Rows : (row[r] = "none" => attempts[r] = 0)'
  BY <1>1, <1>2 DEF OutcomeTrue, received
<1>6. Heard'
  BY <1>1 DEF Heard, dispVars, received
<1> QED
  BY <1>4, <1>5, <1>6

LEMMA VerdictStarts ==
    ASSUME VerdictInv, Boot \/ Reap \/ ReapRaises \/ GoDown \/ Dequeue
    PROVE  VerdictInv'
<1> USE OutboxAssumption DEF VerdictInv, rowVars, received
<1>1. CASE Boot
  BY <1>1 DEF Boot, TypeOK, OutcomeTrue, Heard
<1>2. CASE Reap
  <2>1. TypeOK'
    BY <1>2 DEF Reap, TypeOK, RowStates
  <2>2. OutcomeTrue' /\ \A r \in Rows : (row[r] = "none" => attempts[r] = 0)'
    BY <1>2 DEF Reap, OutcomeTrue
  <2> QED
    BY <1>2, <2>1, <2>2 DEF Reap, Heard
<1>3. CASE ReapRaises
  BY <1>3 DEF ReapRaises, TypeOK, OutcomeTrue, Heard
<1>4. CASE GoDown
  BY <1>4 DEF GoDown, TypeOK, OutcomeTrue, Heard
<1>5. CASE Dequeue
  <2>1. PICK S \in SUBSET Due :
          /\ batch' = S
          /\ row' = [r \in Rows |-> IF r \in S THEN "in_flight" ELSE row[r]]
          /\ at' = [r \in Rows |-> IF r \in S THEN "due" ELSE at[r]]
    BY <1>5 DEF Dequeue
  <2>2. S \subseteq Rows /\ \A r \in S : row[r] = "pending"
    BY DEF Due
  <2>3. TypeOK'
    BY <1>5, <2>1, <2>2 DEF Dequeue, TypeOK, RowStates
  <2>4. OutcomeTrue' /\ \A r \in Rows : (row[r] = "none" => attempts[r] = 0)'
    BY <1>5, <2>1, <2>2 DEF Dequeue, OutcomeTrue
  <2> QED
    BY <1>5, <2>3, <2>4 DEF Dequeue, Heard
<1> QED
  BY <1>1, <1>2, <1>3, <1>4, <1>5

(* Every sender that says ok has delivered. *)
LEMMA OkIsDelivered ==
    ASSUME VerdictInv, NEW r \in Rows,
           RenderFails(r) \/ SendApprise(r) \/ RefuseUrl(r) \/ SendWebhook(r) \/ SendBash(r)
    PROVE  /\ disp = "send" /\ disp' = "record" /\ r \in at_hand
           /\ UNCHANGED <<channel, rowVars, batch, at_hand, boots>>
           /\ answer' \in {"ok", "transient", "terminal"}
           /\ delivered' \in [Rows -> Nat] /\ garbled' \in [Rows -> Nat]
           /\ \A q \in Rows : delivered'[q] >= delivered[q]
           /\ answer' = "ok" => delivered'[r] > 0
<1> USE DEF VerdictInv, TypeOK, Sent
<1>1. CASE RenderFails(r)
  BY <1>1 DEF RenderFails
<1>2. CASE SendApprise(r)
  BY <1>2 DEF SendApprise
<1>3. CASE RefuseUrl(r)
  BY <1>3 DEF RefuseUrl
<1>4. CASE SendWebhook(r)
  BY <1>4 DEF SendWebhook
<1>5. CASE SendBash(r)
  BY <1>5 DEF SendBash
<1> QED
  BY <1>1, <1>2, <1>3, <1>4, <1>5

LEMMA VerdictRow ==
    ASSUME OutboxInv, VerdictInv, NEW r \in Rows, Row(r)
    PROVE  VerdictInv'
<1> USE OutboxAssumption DEF VerdictInv
<1>1. CASE TakeRaises(r)
  BY <1>1 DEF TakeRaises, TypeOK, OutcomeTrue, Heard, rowVars, received
<1>2. CASE Take(r)
  <2>1. TypeOK'
    BY <1>2 DEF Take, TypeOK, rowVars, received
  <2>2. OutcomeTrue' /\ \A q \in Rows : (row[q] = "none" => attempts[q] = 0)'
    BY <1>2 DEF Take, OutcomeTrue, rowVars, received
  <2>3. Heard'
    BY <1>2 DEF Take, Heard
  <2> QED
    BY <2>1, <2>2, <2>3
<1>3. ASSUME RenderFails(r) \/ SendApprise(r) \/ RefuseUrl(r) \/ SendWebhook(r) \/ SendBash(r)
      PROVE  VerdictInv'
  <2>1. /\ disp = "send" /\ disp' = "record" /\ r \in at_hand
        /\ UNCHANGED <<channel, rowVars, batch, at_hand, boots>>
        /\ answer' \in {"ok", "transient", "terminal"}
        /\ delivered' \in [Rows -> Nat] /\ garbled' \in [Rows -> Nat]
        /\ \A q \in Rows : delivered'[q] >= delivered[q]
        /\ answer' = "ok" => delivered'[r] > 0
    BY <1>3, OkIsDelivered
  <2>2. TypeOK'
    BY <2>1 DEF TypeOK, rowVars
  <2>3. OutcomeTrue' /\ \A q \in Rows : (row[q] = "none" => attempts[q] = 0)'
    BY <2>1 DEF OutcomeTrue, TypeOK, rowVars
  <2>4. Heard'
    BY <2>1 DEF Heard
  <2> QED
    BY <2>2, <2>3, <2>4
<1>4. ASSUME RecordSuccess(r) \/ RecordFailure(r) \/ RecordLost(r)
      PROVE  VerdictInv'
  <2>1. /\ disp = "record" /\ disp' \in {"tick", "batch"} /\ r \in at_hand /\ at_hand' = {}
        /\ answer' = "ok"
        /\ UNCHANGED <<channel, batch, boots, received>>
    BY <1>4 DEF RecordSuccess, RecordFailure, RecordLost, Proceed
  <2>2. row[r] # "deleted" => row[r] = "in_flight" /\ attempts[r] < MaxAttempts
    BY <2>1 DEF OutboxInv, Held, OutcomeTrue
  <2>3. /\ \A q \in Rows \ {r} : row'[q] = row[q] /\ attempts'[q] = attempts[q]
        /\ row' \in [Rows -> RowStates]
        /\ at' \in [Rows -> {"later", "due", "stale"}]
    BY <1>4 DEF RecordSuccess, RecordFailure, RecordLost, TypeOK, RowStates, Final, rowVars
  <2>4. /\ attempts' \in [Rows -> 0..MaxAttempts]
        /\ row'[r] # "none"
        /\ row'[r] = "success" => delivered[r] > 0
        /\ row'[r] \in {"pending", "in_flight"} => attempts'[r] < MaxAttempts
    <3>1. CASE RecordSuccess(r)
      BY <2>1, <3>1 DEF RecordSuccess, TypeOK, Heard
    <3>2. CASE RecordFailure(r)
      BY <2>2, <3>2 DEF RecordFailure, TypeOK
    <3>3. CASE RecordLost(r)
      BY <2>1, <3>3 DEF RecordLost, TypeOK, OutcomeTrue, OutboxInv, Held, rowVars
    <3> QED
      BY <1>4, <3>1, <3>2, <3>3
  <2>5. TypeOK'
    BY <2>1, <2>3, <2>4 DEF TypeOK, received
  <2>6. OutcomeTrue' /\ \A q \in Rows : (row[q] = "none" => attempts[q] = 0)'
    BY <2>1, <2>3, <2>4 DEF OutcomeTrue, received
  <2>7. Heard'
    BY <2>1 DEF Heard
  <2> QED
    BY <2>5, <2>6, <2>7
<1> QED
  BY <1>1, <1>2, <1>3, <1>4 DEF Row

LEMMA VerdictStep == OutboxInv /\ VerdictInv /\ [Next]_vars => VerdictInv'
<1> SUFFICES ASSUME OutboxInv, VerdictInv, [Next]_vars PROVE VerdictInv'
  OBVIOUS
<1>1. CASE Dispatcher
  BY <1>1, VerdictStarts, VerdictRow DEF Dispatcher
<1>2. CASE GoDown
  BY <1>2, VerdictStarts
<1>3. CASE \/ Cleanup
           \/ \E c \in Channels : Create(c) \/ Toggle(c) \/ Delete(c)
           \/ \E r \in Rows : Elapse(r)
  BY <1>3, VerdictOthers
<1>4. ASSUME NEW e \in Events, Publish(e) PROVE VerdictInv'
  <2> DEFINE S == {r \in Rows : r[1] = e /\ channel[r[2]] = "on"}
  <2>1. \A r \in S : row[r] = "none"
    BY <1>4 DEF Publish, Rows
  <2>2. Enqueue(S) /\ S \in SUBSET Rows
    BY <1>4 DEF Publish
  <2> QED
    BY <2>1, <2>2, VerdictEnqueue
<1>5. ASSUME NEW e \in Events, NEW c \in Channels, PublishTest(e, c) PROVE VerdictInv'
  <2>1. {<<e, c>>} \in SUBSET Rows
    BY DEF Rows
  <2>2. Enqueue({<<e, c>>}) /\ row[<<e, c>>] = "none"
    BY <1>5 DEF PublishTest
  <2> QED
    BY <2>1, <2>2, VerdictEnqueue
<1>6. CASE UNCHANGED vars
  BY <1>6 DEF vars, rowVars, dispVars, received, VerdictInv, TypeOK, OutcomeTrue, Heard
<1> QED
  BY <1>1, <1>2, <1>3, <1>4, <1>5, <1>6 DEF Next

(* No step touches a finished row but the one that removes it: what is       *)
(* published was not there before, what is reaped, sent again or recorded    *)
(* was in flight.                                                           *)
LEMMA FinalStep ==
    ASSUME OutboxInv, [Next]_vars, NEW r \in Rows, row[r] \in Final
    PROVE  row'[r] \in {row[r], "deleted"}
<1> USE DEF OutboxInv, Typed, Final
<1>1. CASE Dispatcher
  <2>1. CASE Boot \/ ReapRaises
    BY <2>1 DEF Boot, ReapRaises, rowVars
  <2>2. CASE Reap
    BY <2>2 DEF Reap
  <2>3. CASE Dequeue
    BY <2>3 DEF Dequeue, Due
  <2>4. ASSUME NEW q \in Rows, Row(q) PROVE row'[r] \in {row[r], "deleted"}
    <3>1. CASE TakeRaises(q) \/ Take(q) \/ RecordLost(q)
      BY <3>1 DEF TakeRaises, Take, RecordLost, rowVars
    <3>2. CASE RenderFails(q) \/ SendApprise(q) \/ RefuseUrl(q) \/ SendWebhook(q) \/ SendBash(q)
      BY <3>2, SentOnce DEF Sent, rowVars
    <3>3. CASE RecordSuccess(q) \/ RecordFailure(q)
      BY <3>3 DEF RecordSuccess, RecordFailure, Held
    <3> QED
      BY <2>4, <3>1, <3>2, <3>3 DEF Row
  <2> QED
    BY <1>1, <2>1, <2>2, <2>3, <2>4 DEF Dispatcher
<1>2. CASE GoDown
  BY <1>2 DEF GoDown, rowVars
<1>3. CASE \/ Cleanup
           \/ \E c \in Channels : Create(c) \/ Toggle(c) \/ Delete(c)
           \/ \E q \in Rows : Elapse(q)
  BY <1>3 DEF Cleanup, Create, Toggle, Delete, Elapse, rowVars
<1>4. CASE \E e \in Events : Publish(e)
  BY <1>4 DEF Publish, Enqueue, Rows
<1>5. CASE \E e \in Events, c \in Channels : PublishTest(e, c)
  BY <1>5 DEF PublishTest, Enqueue
<1>6. CASE UNCHANGED vars
  BY <1>6 DEF vars, rowVars
<1> QED
  BY <1>1, <1>2, <1>3, <1>4, <1>5, <1>6 DEF Next

-----------------------------------------------------------------------------
(* No receiver gets a row more often than its counted tries and the starts  *)
(* of the server allow, whatever fails in between.                          *)
THEOREM DeliveriesAccounted == Spec => []Accounted
<1>1. OutboxInv => Accounted
  BY DEF OutboxInv
<1> QED
  BY <1>1, OutboxInit, OutboxStep, PTL DEF Spec

(* A script runs once for a row and start of the server, and once more only  *)
(* for each time its output could not be read.                              *)
THEOREM ScriptsRunOnce == Spec => []ScriptsOnce
<1>1. Init => ScriptInv
  BY ScriptRowsAreRows DEF Init, ScriptInv, ScriptsOnce, ScriptRows, ScriptRoom, Starts
<1>2. ScriptInv => ScriptsOnce
  BY DEF ScriptInv
<1> QED
  BY <1>1, <1>2, OutboxInit, OutboxStep, ScriptStep, PTL DEF Spec

(* Every variable stays within its type: in particular no row is tried more  *)
(* often than MaxAttempts, since a row is only sent with a try left.        *)
THEOREM OutboxTypeCorrect == Spec => []TypeOK
<1>1. VerdictInv => TypeOK
  BY DEF VerdictInv
<1> QED
  BY <1>1, OutboxInit, OutboxStep, VerdictInit, VerdictStep, PTL DEF Spec

(* A row that shows success was received, and a row that waits or is in     *)
(* flight has a try left, across kills, lost commits and the reaper.        *)
THEOREM OutcomesTrue == Spec => []OutcomeTrue
<1>1. VerdictInv => OutcomeTrue
  BY DEF VerdictInv
<1> QED
  BY <1>1, OutboxInit, OutboxStep, VerdictInit, VerdictStep, PTL DEF Spec

(* A finished row is never pending or in flight again, whatever is reaped   *)
(* after a restart; it can only be removed.                                 *)
THEOREM FinalRowsStay == Spec => FinalStays
<1>1. OutboxInv /\ [Next]_vars =>
        [\A r \in Rows : row[r] \in Final => row'[r] \in {row[r], "deleted"}]_vars
  BY FinalStep
<1> QED
  BY <1>1, OutboxInit, OutboxStep, PTL DEF Spec, FinalStays
=============================================================================
