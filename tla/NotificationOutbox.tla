------------------------- MODULE NotificationOutbox -------------------------
(***************************************************************************)
(* The notification outbox: publish_event (arm/notifications/events.py)     *)
(* writes one row per subscribed channel, the dispatcher of the API server  *)
(* (arm/notifications/dispatcher.py, outbox.py) drains them in batches and  *)
(* sends each row through its channel's sender (arm/notifications/channels),*)
(* and users create, edit and delete channels meanwhile                     *)
(* (arm/api/v1/notifications.py).                                           *)
(*                                                                          *)
(* Abstractions: payloads, templates and error texts; what a channel's      *)
(* configuration holds, beyond its kind and whether it works when a row is  *)
(* sent; of time, only where                                                *)
(* next_attempt_at stands: in the future, past, or past by more than the    *)
(* five minutes the reaper allows.                                          *)
(***************************************************************************)
EXTENDS Naturals, FiniteSets

CONSTANTS
    Events,       \* calls of publish_event, and test sends
    Apprise,      \* channels every event is subscribed to, by their kind:
    Webhooks,     \* a service apprise knows, a URL to post to, a script
    Scripts,
    MaxAttempts,  \* _MAX_ATTEMPTS
    BatchSize,    \* _BATCH_SIZE
    MaxBoots,     \* bound: starts of the API server, the last of which stays up
    Disturbances  \* what may go wrong, a subset of AllDisturbances

(* The server stops between ticks; its shutdown times out and cancels the   *)
(* dispatcher between two rows; it is killed; a commit of the dispatcher    *)
(* fails for good; a channel is deleted.                                    *)
AllDisturbances == {"stop", "cancel", "kill", "busy", "delete"}

ASSUME OutboxAssumption ==
    /\ Apprise \cap Webhooks = {} /\ Apprise \cap Scripts = {} /\ Webhooks \cap Scripts = {}
    /\ MaxAttempts \in Nat \ {0}
    /\ BatchSize \in Nat \ {0}
    /\ MaxBoots \in Nat
    /\ Disturbances \subseteq AllDisturbances

Channels == Apprise \cup Webhooks \cup Scripts
Rows     == Events \X Channels

VARIABLES
    channel,    \* "none" yet, "on", "off" (enabled = false) or "deleted"
    row,        \* status of an outbox row
    attempts,
    at,         \* where next_attempt_at stands against the clock
    disp,       \* what the dispatcher is doing
    batch,      \* rows of its current batch it has not processed
    at_hand,    \* the rows it is processing: none or one
    answer,     \* what the sender returned for that row
    boots,      \* starts of the server so far
    delivered,  \* how often the receiver got the row, or the script ran
    garbled     \* history: how often it ran and its output could not be read

rowVars  == <<row, attempts, at>>
dispVars == <<disp, batch, at_hand, answer>>
received == <<delivered, garbled>>
vars     == <<channel, rowVars, dispVars, boots, received>>

-----------------------------------------------------------------------------
Final     == {"success", "failed"}
RowStates == Final \cup {"none", "pending", "in_flight", "deleted"}

TypeOK ==
    /\ channel \in [Channels -> {"none", "on", "off", "deleted"}]
    /\ row \in [Rows -> RowStates]
    /\ attempts \in [Rows -> 0..MaxAttempts]
    /\ at \in [Rows -> {"later", "due", "stale"}]
    /\ disp \in {"down", "boot", "tick", "batch", "send", "record", "dead"}
    /\ batch \in SUBSET Rows
    /\ at_hand \in SUBSET Rows
    /\ answer \in {"ok", "transient", "terminal"}
    /\ boots \in 0..MaxBoots
    /\ delivered \in [Rows -> Nat]
    /\ garbled \in [Rows -> Nat]

Init ==
    /\ channel = [c \in Channels |-> "none"]
    /\ row = [r \in Rows |-> "none"]
    /\ attempts = [r \in Rows |-> 0]
    /\ at = [r \in Rows |-> "later"]
    /\ disp = "down"
    /\ batch = {}
    /\ at_hand = {}
    /\ answer = "ok"
    /\ boots = 0
    /\ delivered = [r \in Rows |-> 0]
    /\ garbled = [r \in Rows |-> 0]

-----------------------------------------------------------------------------
(* Everybody else. *)

Enqueue(S) ==
    /\ S # {}
    /\ row' = [r \in Rows |-> IF r \in S THEN "pending" ELSE row[r]]
    /\ at' = [r \in Rows |-> IF r \in S THEN "due" ELSE at[r]]
    /\ UNCHANGED <<channel, attempts, dispVars, boots, received>>

(* One transaction for the rows of all enabled channels. *)
Publish(e) ==
    /\ \A c \in Channels : row[<<e, c>>] = "none"
    /\ Enqueue({r \in Rows : r[1] = e /\ channel[r[2]] = "on"})

(* A test send goes to its channel, enabled or not. *)
PublishTest(e, c) ==
    /\ \A d \in Channels : row[<<e, d>>] = "none"
    /\ channel[c] \in {"on", "off"}
    /\ Enqueue({<<e, c>>})

(* A channel may be created disabled. *)
Create(c) ==
    /\ channel[c] = "none"
    /\ \E enabled \in {"on", "off"} : channel' = [channel EXCEPT ![c] = enabled]
    /\ UNCHANGED <<rowVars, dispVars, boots, received>>

Toggle(c) ==
    /\ channel[c] \in {"on", "off"}
    /\ channel' = [channel EXCEPT ![c] = IF @ = "on" THEN "off" ELSE "on"]
    /\ UNCHANGED <<rowVars, dispVars, boots, received>>

(* The channel and its rows go in one transaction, whatever state they are  *)
(* in.                                                                      *)
Delete(c) ==
    /\ "delete" \in Disturbances
    /\ channel[c] \in {"on", "off"}
    /\ channel' = [channel EXCEPT ![c] = "deleted"]
    /\ row' = [r \in Rows |-> IF r[2] = c /\ row[r] # "none" THEN "deleted" ELSE row[r]]
    /\ UNCHANGED <<attempts, at, dispVars, boots, received>>

Elapse(r) ==
    /\ row[r] \in {"pending", "in_flight"}
    /\ at[r] # "stale"
    /\ at' = [at EXCEPT ![r] = IF @ = "later" THEN "due" ELSE "stale"]
    /\ UNCHANGED <<channel, row, attempts, dispVars, boots, received>>

-----------------------------------------------------------------------------
(* run_dispatcher_loop *)

Boot ==
    /\ disp = "down"
    /\ boots < MaxBoots
    /\ boots' = boots + 1
    /\ disp' = "boot"
    /\ UNCHANGED <<channel, rowVars, batch, at_hand, answer, received>>

(* Faulty variant: it rescues whatever is old, delivered or not. *)
Reap_AnyStatus ==
    /\ disp = "boot"
    /\ disp' = "tick"
    /\ LET old == {r \in Rows : row[r] \notin {"none", "deleted"} /\ at[r] = "stale"}
       IN /\ row' = [r \in Rows |-> IF r \in old THEN "pending" ELSE row[r]]
          /\ at' = [r \in Rows |-> IF r \in old THEN "due" ELSE at[r]]
    /\ UNCHANGED <<channel, attempts, batch, at_hand, answer, boots, received>>

(* reap_stale_in_flight, once per start. *)
Reap ==
    /\ disp = "boot"
    /\ disp' = "tick"
    /\ LET old == {r \in Rows : row[r] = "in_flight" /\ at[r] = "stale"}
       IN /\ row' = [r \in Rows |-> IF r \in old THEN "pending" ELSE row[r]]
          /\ at' = [r \in Rows |-> IF r \in old THEN "due" ELSE at[r]]
    /\ UNCHANGED <<channel, attempts, batch, at_hand, answer, boots, received>>

(* Nothing catches what the reaper raises: the loop never starts, and       *)
(* nobody looks at its task before the shutdown.                            *)
ReapRaises ==
    /\ "busy" \in Disturbances
    /\ disp = "boot"
    /\ disp' = "dead"
    /\ UNCHANGED <<channel, rowVars, batch, at_hand, answer, boots, received>>

Due == {r \in Rows : row[r] = "pending" /\ at[r] # "later"}

(* The batch: the rows longest due, as many as fit. *)
Oldest(S) ==
    /\ S \subseteq Due
    /\ Cardinality(S) = IF Cardinality(Due) < BatchSize THEN Cardinality(Due) ELSE BatchSize
    /\ \A r \in S, q \in Due \ S : at[q] = "stale" => at[r] = "stale"

(* Faulty variant: the rows of the batch stay pending while they are sent. *)
Dequeue_NoMark ==
    /\ disp = "tick"
    /\ Due # {}
    /\ \E S \in SUBSET Due : Oldest(S) /\ batch' = S
    /\ disp' = "batch"
    /\ UNCHANGED <<channel, rowVars, at_hand, answer, boots, received>>

(* dequeue_due *)
Dequeue ==
    /\ disp = "tick"
    /\ Due # {}
    /\ \E S \in SUBSET Due :
         /\ Oldest(S)
         /\ batch' = S
         /\ row' = [r \in Rows |-> IF r \in S THEN "in_flight" ELSE row[r]]
         /\ at' = [r \in Rows |-> IF r \in S THEN "due" ELSE at[r]]
    /\ disp' = "batch"
    /\ UNCHANGED <<channel, attempts, at_hand, answer, boots, received>>

(* The next row of the batch: the commit before it expired every object of  *)
(* the session, so row.id loads the row again. A row that is gone raises,   *)
(* and the tick is over for the rest of the batch.                          *)
TakeRaises(r) ==
    /\ disp = "batch" /\ r \in batch /\ row[r] = "deleted"
    /\ disp' = "tick"
    /\ batch' = {}
    /\ UNCHANGED <<channel, rowVars, at_hand, answer, boots, received>>

(* process_one_row: a channel that is gone or disabled fails the row for    *)
(* good, without a send.                                                    *)
Take(r) ==
    /\ disp = "batch" /\ r \in batch /\ row[r] # "deleted"
    /\ batch' = batch \ {r}
    /\ at_hand' = {r}
    /\ IF channel[r[2]] = "on"
         THEN disp' = "send" /\ UNCHANGED answer
         ELSE disp' = "record" /\ answer' = "terminal"
    /\ UNCHANGED <<channel, rowVars, boots, received>>

(* What the sender says of the row at hand, and what became of the row: n    *)
(* more deliveries.                                                         *)
Sent(r, says, n) ==
    /\ answer' = says
    /\ delivered' = [delivered EXCEPT ![r] = @ + n]
    /\ disp' = "record"
    /\ UNCHANGED <<channel, rowVars, batch, at_hand, boots>>

(* The template names a field the event does not have, or is malformed,      *)
(* which raises something else and passes for a failure of the sender.      *)
RenderFails(r) ==
    /\ disp = "send" /\ r \in at_hand
    /\ \E says \in {"terminal", "transient"} : Sent(r, says, 0)
    /\ UNCHANGED garbled

(* send_apprise: notify() may fail after some of it was sent. No failure is  *)
(* marked as terminal, not even a URL that apprise does not understand.     *)
SendApprise(r) ==
    /\ disp = "send" /\ r \in at_hand /\ r[2] \in Apprise
    /\ \/ Sent(r, "ok", 1)
       \/ \E n \in 0..1 : Sent(r, "transient", n)
    /\ UNCHANGED garbled

(* assert_public_http_url: the host of a webhook is not a public one, or its *)
(* name cannot be resolved, if only for now.                                *)
RefuseUrl(r) ==
    /\ disp = "send" /\ r \in at_hand /\ r[2] \in Webhooks
    /\ Sent(r, "terminal", 0)
    /\ UNCHANGED garbled

(* send_webhook: answered with success; lost on the way there or back, or    *)
(* answered with a server error, 429 or a redirect; refused with another    *)
(* client error.                                                            *)
SendWebhook(r) ==
    /\ disp = "send" /\ r \in at_hand /\ r[2] \in Webhooks
    /\ \/ Sent(r, "ok", 1)
       \/ \E n \in 0..1 : Sent(r, "transient", n)
       \/ Sent(r, "terminal", 0)
    /\ UNCHANGED garbled

(* Faulty variant: the time limit of a script is not caught. *)
SendBash_TimeoutRaises(r) ==
    /\ disp = "send" /\ r \in at_hand /\ r[2] \in Scripts
    /\ \/ Sent(r, "ok", 1) /\ UNCHANGED garbled
       \/ \E n \in 0..1 : Sent(r, "terminal", n) /\ UNCHANGED garbled
       \/ Sent(r, "transient", 1) /\ UNCHANGED garbled

(* send_bash: it ran; it is not there or not executable, or it ran and       *)
(* failed or took too long; it ran, but its output is not UTF-8, which       *)
(* raises in subprocess.run and passes for a failure to be tried again.     *)
SendBash(r) ==
    /\ disp = "send" /\ r \in at_hand /\ r[2] \in Scripts
    /\ \/ Sent(r, "ok", 1) /\ UNCHANGED garbled
       \/ \E n \in 0..1 : Sent(r, "terminal", n) /\ UNCHANGED garbled
       \/ Sent(r, "transient", 1) /\ garbled' = [garbled EXCEPT ![r] = @ + 1]

(* The batch goes on, or the loop sleeps. *)
Proceed ==
    /\ disp' = IF batch = {} THEN "tick" ELSE "batch"
    /\ at_hand' = {}
    /\ answer' = "ok"
    /\ UNCHANGED <<channel, batch, boots, received>>

RecordSuccess(r) ==
    /\ disp = "record" /\ r \in at_hand /\ row[r] # "deleted"
    /\ answer = "ok"
    /\ row' = [row EXCEPT ![r] = "success"]
    /\ UNCHANGED <<attempts, at>>
    /\ Proceed

(* Faulty variants: the limit is compared before the try is counted, and    *)
(* the row is not given back for another try.                               *)
RecordFailure_OffByOne(r) ==
    /\ disp = "record" /\ r \in at_hand /\ row[r] # "deleted"
    /\ answer # "ok"
    /\ attempts' = [attempts EXCEPT ![r] = @ + 1]
    /\ IF answer = "terminal" \/ attempts[r] >= MaxAttempts
         THEN row' = [row EXCEPT ![r] = "failed"] /\ UNCHANGED at
         ELSE row' = [row EXCEPT ![r] = "pending"] /\ at' = [at EXCEPT ![r] = "later"]
    /\ Proceed

RecordFailure_NotPending(r) ==
    /\ disp = "record" /\ r \in at_hand /\ row[r] # "deleted"
    /\ answer # "ok"
    /\ attempts' = [attempts EXCEPT ![r] = @ + 1]
    /\ IF answer = "terminal" \/ attempts'[r] >= MaxAttempts
         THEN row' = [row EXCEPT ![r] = "failed"] /\ UNCHANGED at
         ELSE at' = [at EXCEPT ![r] = "later"] /\ UNCHANGED row
    /\ Proceed

RecordFailure(r) ==
    /\ disp = "record" /\ r \in at_hand /\ row[r] # "deleted"
    /\ answer # "ok"
    /\ attempts' = [attempts EXCEPT ![r] = @ + 1]
    /\ IF answer = "terminal" \/ attempts'[r] >= MaxAttempts
         THEN row' = [row EXCEPT ![r] = "failed"] /\ UNCHANGED at
         ELSE row' = [row EXCEPT ![r] = "pending"] /\ at' = [at EXCEPT ![r] = "later"]
    /\ Proceed

(* The row is gone, or the commit failed: rolled back and logged, and the   *)
(* row stays as it is.                                                      *)
RecordLost(r) ==
    /\ disp = "record" /\ r \in at_hand
    /\ row[r] = "deleted" \/ "busy" \in Disturbances
    /\ UNCHANGED rowVars
    /\ Proceed

(* cleanup_completed: every finished row older than a week. *)
Cleanup ==
    /\ disp = "tick"
    /\ \E S \in SUBSET {r \in Rows : row[r] \in Final} :
         S # {} /\ row' = [r \in Rows |-> IF r \in S THEN "deleted" ELSE row[r]]
    /\ UNCHANGED <<channel, attempts, at, dispVars, boots, received>>

(* A stop is seen between ticks; the cancel that follows when a batch takes *)
(* too long arrives between two rows; a kill, anywhere. The last start the  *)
(* bound allows stays up.                                                   *)
GoDown ==
    /\ boots < MaxBoots
    /\ \/ "stop" \in Disturbances /\ disp \in {"tick", "dead"}
       \/ "cancel" \in Disturbances /\ disp = "batch"
       \/ "kill" \in Disturbances /\ disp # "down"
    /\ disp' = "down"
    /\ batch' = {}
    /\ at_hand' = {}
    /\ answer' = "ok"
    /\ UNCHANGED <<channel, rowVars, boots, received>>

Row(r) ==
    \/ TakeRaises(r) \/ Take(r)
    \/ RenderFails(r) \/ SendApprise(r) \/ RefuseUrl(r) \/ SendWebhook(r) \/ SendBash(r)
    \/ RecordSuccess(r) \/ RecordFailure(r) \/ RecordLost(r)

Dispatcher == Boot \/ Reap \/ ReapRaises \/ Dequeue \/ \E r \in Rows : Row(r)

Next ==
    \/ Dispatcher
    \/ Cleanup
    \/ GoDown
    \/ \E e \in Events : Publish(e) \/ \E c \in Channels : PublishTest(e, c)
    \/ \E c \in Channels : Create(c) \/ Toggle(c) \/ Delete(c)
    \/ \E r \in Rows : Elapse(r)

Spec == Init /\ [][Next]_vars

(* The loop runs for ever once started, the server is started again when it *)
(* is down, and time passes.                                                *)
FairSpec ==
    /\ Spec
    /\ WF_vars(Dispatcher)
    /\ \A r \in Rows : WF_vars(Elapse(r))

-----------------------------------------------------------------------------
(* A receiver sees a row again only if a failed try was counted, or if the  *)
(* server was started again in between: a row in flight is never sent twice *)
(* by one dispatcher, not even when its outcome could not be recorded.      *)
Accounted == \A r \in Rows : delivered[r] <= attempts[r] + boots

(* A script, which may do anything and is not to be run again whatever       *)
(* became of it (dispatcher.py 220-223), runs once for a row as long as the  *)
(* server is up, unless its output could not be read.                       *)
ScriptsOnce == \A r \in Events \X Scripts : delivered[r] <= boots + garbled[r]

(* A row shows success only if its receiver got it, and a row that waits or *)
(* is in flight has a try left.                                             *)
OutcomeTrue ==
    \A r \in Rows :
        /\ row[r] = "success" => delivered[r] > 0
        /\ row[r] \in {"pending", "in_flight"} => attempts[r] < MaxAttempts

(* A finished row stays finished, whatever is reaped after a restart.       *)
FinalStays ==
    [][\A r \in Rows : row[r] \in Final => row'[r] \in {row[r], "deleted"}]_vars

(* With nothing in its way, every published row gets a verdict.             *)
Settles == \A r \in Rows : row[r] = "pending" ~> row[r] \in Final \cup {"deleted"}
=============================================================================
