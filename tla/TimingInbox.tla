---------------------------- MODULE TimingInbox ----------------------------
(***************************************************************************)
(* The timing inbox of diagnostic_timing.c: a ring that interrupt and      *)
(* Bluetooth contexts fill under a spinlock and timing_work empties into   *)
(* the journal on the system work queue.  A record is whatever the caller  *)
(* captured; time stamps are left out.  The hooks that capture are those   *)
(* of the modules that extend this one.                                    *)
(***************************************************************************)
EXTENDS Integers, Sequences

CONSTANTS
    TIMING_CAP,     \* capacity of the inbox (24)
    DROPPED_MAX     \* where the count of dropped records saturates (UINT8_MAX)

ASSUME InboxAssumption ==
    /\ TIMING_CAP \in Nat \ {0} /\ DROPPED_MAX \in Nat \ {0}

VARIABLES
    timing_inbox, timing_head, timing_count, timing_dropped,
    timing_queued,  \* timing_work is on the system work queue
    draining,       \* timing_drain is running
    submitting,     \* contexts between the unlock and k_work_submit
    \* history: what was stored and not yet recorded, captures neither recorded
    \* nor reported as dropped, and whether the dropped count ever saturated
    accepted, owed, saturated

inboxData == <<timing_inbox, timing_head, timing_count, timing_dropped, accepted, owed, saturated>>
inboxVars == <<inboxData, timing_queued, draining, submitting>>

NoRecord == <<0, "none">>
Places == 0 .. TIMING_CAP - 1

InboxTypeOK ==
    /\ timing_head \in Places /\ timing_count \in 0 .. TIMING_CAP
    /\ timing_dropped \in 0 .. DROPPED_MAX
    /\ timing_queued \in BOOLEAN /\ draining \in BOOLEAN

InboxInit ==
    /\ timing_inbox = [i \in Places |-> NoRecord]
    /\ timing_head = 0 /\ timing_count = 0 /\ timing_dropped = 0
    /\ timing_queued = FALSE /\ draining = FALSE /\ submitting = {}
    /\ accepted = <<>> /\ owed = 0 /\ saturated = FALSE

HasRoom == timing_count < TIMING_CAP

\* Mutant: the free place is counted from the start of the array.
TailFromZero == timing_count % TIMING_CAP
FreePlace == (timing_head + timing_count) % TIMING_CAP

\* Mutant: a record that finds no room is not counted.
DropForgotten == timing_dropped
OneMoreDropped == IF timing_dropped < DROPPED_MAX THEN timing_dropped + 1 ELSE timing_dropped

\* totem_diagnostic_timing_capture, the part under timing_lock.
Store(record) ==
    /\ owed' = owed + 1
    /\ IF HasRoom
       THEN /\ timing_inbox' = [timing_inbox EXCEPT ![FreePlace] = record]
            /\ timing_count' = timing_count + 1
            /\ accepted' = Append(accepted, record)
            /\ UNCHANGED <<timing_dropped, saturated>>
       ELSE /\ timing_dropped' = OneMoreDropped
            /\ saturated' = (saturated \/ timing_dropped = DROPPED_MAX)
            /\ UNCHANGED <<timing_inbox, timing_count, accepted>>
    /\ UNCHANGED <<timing_head, draining>>

\* A thread captures: the work is submitted only after the unlock.
Capture(c, record) ==
    /\ c \notin submitting
    /\ Store(record)
    /\ submitting' = submitting \cup {c}
    /\ UNCHANGED timing_queued

\* An interrupt captures: no thread runs before its k_work_submit.
CaptureInIsr(record) ==
    /\ Store(record)
    /\ timing_queued' = TRUE
    /\ UNCHANGED submitting

\* k_work_submit(&timing_work), also while the handler runs.
Submit(c) ==
    /\ c \in submitting
    /\ submitting' = submitting \ {c}
    /\ timing_queued' = TRUE
    /\ UNCHANGED <<inboxData, draining>>

\* The work queue starts timing_drain.
DrainStart ==
    /\ timing_queued /\ ~draining
    /\ timing_queued' = FALSE /\ draining' = TRUE
    /\ UNCHANGED <<inboxData, submitting>>

\* Mutant: the loop ends one record early.
AllButOne == timing_count > 1
MoreToDrain == timing_count > 0

\* One round of timing_drain with a record to take, which is then recorded.
DrainOne ==
    /\ draining /\ MoreToDrain
    /\ timing_head' = (timing_head + 1) % TIMING_CAP
    /\ timing_count' = timing_count - 1
    /\ accepted' = Tail(accepted) /\ owed' = owed - 1
    /\ UNCHANGED <<timing_inbox, timing_dropped, saturated, timing_queued, draining, submitting>>

\* The last round: the inbox is empty; what was dropped is reported and forgotten.
DrainEnd ==
    /\ draining /\ ~MoreToDrain
    /\ draining' = FALSE
    /\ timing_dropped' = 0 /\ owed' = owed - timing_dropped
    /\ UNCHANGED <<timing_inbox, timing_head, timing_count, accepted, saturated, timing_queued,
                   submitting>>

-----------------------------------------------------------------------------
\* The ring is a first-in first-out queue of what was stored, whatever
\* interrupts and threads capture while timing_drain empties it.
InboxIsQueue ==
    /\ Len(accepted) = timing_count
    /\ \A i \in 1 .. Len(accepted) :
          timing_inbox[(timing_head + i - 1) % TIMING_CAP] = accepted[i]

\* No record vanishes silently: each capture is recorded, still stored, or
\* counted in the next TIMING_DROPPED report, until that count saturates.
NothingVanishes == ~saturated => owed = timing_count + timing_dropped

\* Whenever there is something to record or report, timing_drain is running,
\* queued, or about to be submitted by a context that has left the lock.
InboxServed ==
    timing_count > 0 \/ timing_dropped > 0 => timing_queued \/ draining \/ submitting # {}

=============================================================================
