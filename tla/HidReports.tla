----------------------------- MODULE HidReports -----------------------------
(***************************************************************************)
(* The keyboard report counters of hid_report_diagnostics.c: hooks around  *)
(* the HOG report queue, counting on the key thread and the HOG worker,    *)
(* and flush_counts, which reports what changed to the journal from the    *)
(* system work queue.  A report is only whether it is all-up; an error is  *)
(* only that there was one; time stamps are left out.                      *)
(*                                                                         *)
(* External: ZMK's HOG service, which on a full queue takes the oldest     *)
(* report off and puts its own again, and whose worker drops the report it *)
(* took when the active profile has no connection, and otherwise notifies  *)
(* the connection it found, whatever the active profile is by then.        *)
(***************************************************************************)
EXTENDS Integers, Sequences, FiniteSets

CONSTANTS
    PROFILE_COUNT,  \* ZMK_BLE_PROFILE_COUNT
    HOG_QUEUE,      \* capacity of zmk_hog_keyboard_msgq
    TOTAL_MOD       \* a total is counted modulo this (2^16)

ASSUME HidAssumption ==
    /\ PROFILE_COUNT \in Nat \ {0} /\ HOG_QUEUE \in Nat \ {0} /\ TOTAL_MOD \in Nat \ {0}

VARIABLES
    counts,             \* of each profile and stage: total, dirty, error
    msgq,               \* zmk_hog_keyboard_msgq
    active,             \* zmk_ble_active_profile_index
    put,                \* the key thread's __wrap_z_impl_k_msgq_put
    dequeued_report, all_up_report, keyboard_notify, notify_profile,
    conn,               \* the profile whose connection the worker has found, none: NoConn
    todo,               \* of each thread: the count_event calls its hook still makes
    to_schedule,        \* threads between the unlock and k_work_schedule
    summary_scheduled,  \* summary_work waits for its time or its turn
    flush,              \* flush_counts: the next counter it visits; past the last one when idle
    recorded,           \* history: the total last reported for each counter
    unmapped,           \* history: reports notified on a connection without a profile
    uncounted_up        \* history: all-up reports dropped without a host or unmapped

hidVars == <<counts, msgq, active, put, dequeued_report, all_up_report, keyboard_notify,
             notify_profile, conn, todo, to_schedule, summary_scheduled, flush, recorded,
             unmapped, uncounted_up>>
hookVars == <<msgq, active, put, dequeued_report, all_up_report, keyboard_notify,
              notify_profile, conn, unmapped, uncounted_up>>

Profiles == 0 .. PROFILE_COUNT - 1
StageNames == <<"RELEASE_OK", "RELEASE_FAILED", "QUEUED", "QUEUE_FAILED", "DEQUEUED", "EVICTED",
    "NO_HOST_DROP", "NOTIFY_ACCEPTED", "NOTIFY_FAILED", "UNSUBSCRIBED", "ALL_UP_QUEUED",
    "ALL_UP_ACCEPTED", "ALL_UP_EVICTED", "ALL_UP_FAILED">>
HidStages == {StageNames[i] : i \in DOMAIN StageNames}
Counters == Profiles \X HidStages
NoConn == -1
\* The counters in the order of flush_counts' two loops; flush is the next one to visit.
Order == PROFILE_COUNT * Len(StageNames)
At(i) == <<i \div Len(StageNames), StageNames[(i % Len(StageNames)) + 1]>>
Flushing == flush < Order

HidThreads == {"keys", "hog"}
NoPut == [pc |-> "idle", profile |-> 0, up |-> FALSE]

HidTypeOK ==
    /\ counts \in [Counters -> [total: 0 .. TOTAL_MOD - 1, dirty: BOOLEAN, error: BOOLEAN]]
    /\ msgq \in Seq(BOOLEAN) /\ Len(msgq) <= HOG_QUEUE
    /\ active \in Profiles
    /\ notify_profile \in Profiles \cup {-1} /\ conn \in Profiles \cup {NoConn}
    /\ put \in [pc: {"idle", "wait", "evict", "again"}, profile: Profiles \cup {0}, up: BOOLEAN]
    /\ dequeued_report \in BOOLEAN /\ all_up_report \in BOOLEAN /\ keyboard_notify \in BOOLEAN
    /\ todo \in [HidThreads -> Seq(Counters \X BOOLEAN)] /\ to_schedule \subseteq HidThreads
    /\ summary_scheduled \in BOOLEAN /\ flush \in 0 .. Order
    /\ recorded \in [Counters -> 0 .. TOTAL_MOD - 1]
    /\ unmapped \in 0 .. TOTAL_MOD - 1 /\ uncounted_up \in 0 .. TOTAL_MOD - 1

HidInit ==
    /\ counts = [k \in Counters |-> [total |-> 0, dirty |-> FALSE, error |-> FALSE]]
    /\ msgq = <<>> /\ active = 0 /\ put = NoPut
    /\ dequeued_report = FALSE /\ all_up_report = FALSE /\ keyboard_notify = FALSE
    /\ notify_profile = 0 /\ conn = NoConn
    /\ todo = [t \in HidThreads |-> <<>>] /\ to_schedule = {}
    /\ summary_scheduled = FALSE /\ flush = Order
    /\ recorded = [k \in Counters |-> 0] /\ unmapped = 0 /\ uncounted_up = 0

-----------------------------------------------------------------------------
(* count_event.                                                            *)

\* A hook's call of count_event, which ignores a profile out of range, and a call
\* made only if a condition holds.
Event(p, stage, err) == IF p \in Profiles THEN << << <<p, stage>>, err>> >> ELSE <<>>
EventIf(cond, p, stage, err) == IF cond THEN Event(p, stage, err) ELSE <<>>

\* The thread is between two hooks.
Free(t) == todo[t] = <<>> /\ t \notin to_schedule

Calls(t, events) ==
    /\ todo' = [todo EXCEPT ![t] = events]
    /\ UNCHANGED <<counts, to_schedule, summary_scheduled, flush, recorded>>

\* The part of count_event under count_lock.
Count(c, err) == [total |-> (c.total + 1) % TOTAL_MOD, dirty |-> TRUE, error |-> c.error \/ err]

CountEvent(t) ==
    /\ todo[t] # <<>> /\ t \notin to_schedule
    /\ LET event == Head(todo[t])
       IN  counts' = [counts EXCEPT ![event[1]] = Count(@, event[2])]
    /\ todo' = [todo EXCEPT ![t] = Tail(@)]
    /\ to_schedule' = to_schedule \cup {t}
    /\ UNCHANGED <<summary_scheduled, flush, recorded, hookVars>>

\* Mutant: a summary that is running already is taken for a scheduled one.
ScheduledWhenIdle == summary_scheduled \/ ~Flushing
\* k_work_schedule(&summary_work), also while flush_counts runs.
Scheduled == TRUE
Schedule(t) ==
    /\ t \in to_schedule
    /\ to_schedule' = to_schedule \ {t}
    /\ summary_scheduled' = Scheduled
    /\ UNCHANGED <<counts, todo, flush, recorded, hookVars>>

-----------------------------------------------------------------------------
(* flush_counts.                                                           *)

FlushStart ==
    /\ summary_scheduled /\ ~Flushing
    /\ summary_scheduled' = FALSE
    /\ flush' = 0
    /\ UNCHANGED <<counts, todo, to_schedule, recorded, hookVars>>

\* The copy taken under count_lock clears the dirty flag and the error.
Copied(k) == [counts EXCEPT ![k].dirty = FALSE, ![k].error = FALSE]

\* One round of the loops: a dirty counter is reported with its total.
FlushOne ==
    /\ Flushing /\ counts[At(flush)].dirty
    /\ counts' = Copied(At(flush))
    /\ recorded' = [recorded EXCEPT ![At(flush)] = counts[At(flush)].total]
    /\ flush' = flush + 1
    /\ UNCHANGED <<todo, to_schedule, summary_scheduled, hookVars>>

\* Rounds that change nothing: the clean counters up to the next dirty one, or
\* to the end, are passed in one step.
FlushPass ==
    /\ Flushing
    /\ \E i \in flush + 1 .. Order :
          /\ \A j \in flush .. i - 1 : ~counts[At(j)].dirty
          /\ i < Order => counts[At(i)].dirty
          /\ flush' = i
    /\ UNCHANGED <<counts, recorded, todo, to_schedule, summary_scheduled, hookVars>>

-----------------------------------------------------------------------------
(* The key thread: zmk_hid_release and zmk_hog_send_keyboard_report.       *)

\* __wrap_zmk_hid_release of a keyboard usage while USB is not selected.
Release(err) ==
    /\ Free("keys") /\ put.pc = "idle"
    /\ Calls("keys", Event(active, IF err THEN "RELEASE_FAILED" ELSE "RELEASE_OK", err))
    /\ UNCHANGED hookVars

\* __wrap_z_impl_k_msgq_put reads the profile and the report; the real put may wait.
PutStart(up) ==
    /\ Free("keys") /\ (put.pc = "idle" \/ (put.pc = "again" /\ put.up = up))
    /\ put' = [pc |-> "wait", profile |-> active, up |-> up]
    /\ UNCHANGED <<counts, todo, to_schedule, summary_scheduled, flush, recorded, msgq, active,
                   dequeued_report, all_up_report, keyboard_notify, notify_profile, conn, unmapped,
                   uncounted_up>>

PutDone ==
    /\ put.pc = "wait" /\ Len(msgq) < HOG_QUEUE
    /\ msgq' = Append(msgq, put.up)
    /\ put' = NoPut
    /\ Calls("keys", Event(put.profile, "QUEUED", FALSE)
                     \o EventIf(put.up, put.profile, "ALL_UP_QUEUED", FALSE))
    /\ UNCHANGED <<active, dequeued_report, all_up_report, keyboard_notify, notify_profile, conn,
                   unmapped, uncounted_up>>

\* The wait times out: HOG will evict a report and put this one again.
PutFailed ==
    /\ put.pc = "wait" /\ Len(msgq) = HOG_QUEUE
    /\ put' = [put EXCEPT !.pc = "evict"]
    /\ Calls("keys", Event(put.profile, "QUEUE_FAILED", TRUE))
    /\ UNCHANGED <<msgq, active, dequeued_report, all_up_report, keyboard_notify,
                   notify_profile, conn, unmapped, uncounted_up>>

\* Mutant: what another thread takes off the queue counts as dequeued.
TakenBy(worker) == "DEQUEUED"
\* __wrap_z_impl_k_msgq_get counts by the thread that took the report.
GetStage(worker) == IF worker THEN "DEQUEUED" ELSE "EVICTED"

\* __wrap_z_impl_k_msgq_get on the key thread.
Evict ==
    /\ put.pc = "evict" /\ Free("keys")
    /\ put' = [put EXCEPT !.pc = "again"]
    /\ IF msgq = <<>>
       THEN UNCHANGED msgq /\ Calls("keys", <<>>)
       ELSE /\ msgq' = Tail(msgq)
            /\ Calls("keys", Event(active, GetStage(FALSE), FALSE)
                             \o EventIf(Head(msgq), active, "ALL_UP_EVICTED", FALSE))
    /\ UNCHANGED <<active, dequeued_report, all_up_report, keyboard_notify, notify_profile, conn,
                   unmapped, uncounted_up>>

-----------------------------------------------------------------------------
(* The HOG worker.                                                         *)

\* Mutant: an all-up report is remembered for the reports after it.
UpSinceThen(report) == all_up_report \/ report
UpNow(report) == report
\* __wrap_z_impl_k_msgq_get on the worker.
Dequeue ==
    /\ Free("hog") /\ ~dequeued_report /\ ~keyboard_notify /\ msgq # <<>>
    /\ msgq' = Tail(msgq)
    /\ dequeued_report' = TRUE /\ all_up_report' = UpNow(Head(msgq))
    /\ Calls("hog", Event(active, GetStage(TRUE), FALSE))
    /\ UNCHANGED <<active, put, keyboard_notify, notify_profile, conn, unmapped, uncounted_up>>

\* __wrap_zmk_ble_active_profile_conn finds no connection, for the report just
\* taken or for a consumer or mouse report of the same worker.
NoHost ==
    /\ Free("hog") /\ ~keyboard_notify /\ conn = NoConn
    /\ dequeued_report' = FALSE
    /\ uncounted_up' = (uncounted_up + (IF dequeued_report /\ all_up_report THEN 1 ELSE 0))
                         % TOTAL_MOD
    /\ Calls("hog", EventIf(dequeued_report, active, "NO_HOST_DROP", FALSE))
    /\ UNCHANGED <<msgq, active, put, all_up_report, keyboard_notify, notify_profile, conn, unmapped>>

\* It finds that of the active profile, for the report just taken.
HostFound ==
    /\ Free("hog") /\ dequeued_report /\ conn = NoConn
    /\ conn' = active
    /\ UNCHANGED <<counts, todo, to_schedule, summary_scheduled, flush, recorded, msgq, active, put,
                   dequeued_report, all_up_report, keyboard_notify, notify_profile, unmapped,
                   uncounted_up>>

\* totem_hid_report_observed, called by zmk_hog_keyboard_report_attempted with that
\* connection: its peer's profile, or -1 when no profile holds that peer any more.
Observed(subscribed) ==
    /\ Free("hog") /\ conn # NoConn
    /\ keyboard_notify' = TRUE /\ dequeued_report' = FALSE /\ conn' = NoConn
    /\ notify_profile' \in {conn, -1}
    /\ Calls("hog", EventIf(~subscribed, notify_profile', "UNSUBSCRIBED", FALSE))
    /\ UNCHANGED <<msgq, active, put, all_up_report, unmapped, uncounted_up>>

\* __wrap_bt_gatt_notify_cb of the keyboard report.
Notify(err) ==
    /\ Free("hog") /\ keyboard_notify
    /\ keyboard_notify' = FALSE
    /\ Calls("hog", Event(notify_profile, IF err THEN "NOTIFY_FAILED" ELSE "NOTIFY_ACCEPTED", err)
             \o EventIf(all_up_report, notify_profile,
                        IF err THEN "ALL_UP_FAILED" ELSE "ALL_UP_ACCEPTED", err))
    /\ LET lost == IF notify_profile \in Profiles THEN 0 ELSE 1
       IN  /\ unmapped' = (unmapped + lost) % TOTAL_MOD
           /\ uncounted_up' = (uncounted_up + (IF all_up_report THEN lost ELSE 0)) % TOTAL_MOD
    /\ UNCHANGED <<msgq, active, put, dequeued_report, all_up_report, notify_profile, conn>>

\* Another profile is selected.
Select(p) ==
    /\ p # active
    /\ active' = p
    /\ UNCHANGED <<counts, todo, to_schedule, summary_scheduled, flush, recorded, msgq, put,
                   dequeued_report, all_up_report, keyboard_notify, notify_profile, conn, unmapped,
                   uncounted_up>>

HidWorker ==
    \/ Dequeue \/ NoHost \/ HostFound
    \/ \E subscribed \in BOOLEAN : Observed(subscribed)
    \/ \E err \in BOOLEAN : Notify(err)

PutAgain == put.pc = "again" /\ PutStart(put.up)

HidKeys == PutAgain \/ PutDone \/ PutFailed \/ Evict

HidCounting == \E t \in HidThreads : CountEvent(t) \/ Schedule(t)

-----------------------------------------------------------------------------
\* No count is lost to the summary: a total that differs from the one last
\* reported is dirty, and flush_counts will still visit it, is scheduled, or is
\* about to be scheduled by the thread that counted, though both threads count
\* while flush_counts copies; an error waits for the summary only with its count.
CountsReported ==
    \A i \in 0 .. Order - 1 :
        LET c == counts[At(i)]
        IN  /\ recorded[At(i)] # c.total \/ c.error => c.dirty
            /\ c.dirty => summary_scheduled \/ to_schedule # {} \/ flush <= i

\* The units of a stage's totals over all profiles, its calls of count_event
\* that a thread has still to make, and how many of both there are.
Units(stage) == {u \in Profiles \X (0 .. TOTAL_MOD - 1) : u[2] < counts[<<u[1], stage>>].total}
Pending(t, stage) == {i \in DOMAIN todo[t] : todo[t][i][1][2] = stage}
Counted(stage) ==
    Cardinality(Units(stage)) + Cardinality(Pending("keys", stage))
    + Cardinality(Pending("hog", stage))
InFlight == IF dequeued_report \/ keyboard_notify THEN 1 ELSE 0

\* Every report is accounted for, across evictions, profile changes while a put
\* waits or a connection is held, and wrapping totals: queued is dequeued, evicted
\* or still queued, and dequeued is dropped without a host, notified, failed or
\* with the worker.  The one gap is count_event's: a report notified on a connection
\* that no profile holds any more is counted nowhere.
ReportsAccounted ==
    /\ (Counted("QUEUED") - Counted("DEQUEUED") - Counted("EVICTED") - Len(msgq))
            % TOTAL_MOD = 0
    /\ (Counted("DEQUEUED") - Counted("NO_HOST_DROP") - Counted("NOTIFY_ACCEPTED")
            - Counted("NOTIFY_FAILED") - unmapped - InFlight) % TOTAL_MOD = 0

\* The same for the all-up reports, which end a key press: one taken off the
\* queue is never mistaken for another report's, and without a count are only those
\* dropped for want of a host or notified on such a connection.
AllUpAccounted ==
    (Counted("ALL_UP_QUEUED") - Counted("ALL_UP_EVICTED") - Counted("ALL_UP_ACCEPTED")
        - Counted("ALL_UP_FAILED") - uncounted_up
        - Cardinality({i \in DOMAIN msgq : msgq[i]})
        - (IF all_up_report THEN InFlight ELSE 0)) % TOTAL_MOD = 0

=============================================================================
