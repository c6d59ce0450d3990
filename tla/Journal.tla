------------------------------ MODULE Journal ------------------------------
(***************************************************************************)
(* The diagnostic journal of the left half: host_event_log.c (RAM ring,    *)
(* rate-limited writer, rotating flash blocks, restore at boot) with the   *)
(* boot counter of boot_diagnostics.c that shares its writer.              *)
(*                                                                         *)
(* Actors.  Recorders are the threads whose callbacks record events; Main  *)
(* loads the settings and then records the boot evidence; Sys is the       *)
(* system work queue, which runs the persist work, the HID counter summary *)
(* and the drain of the flash-timing inbox, one handler at a time.  Each   *)
(* critical section of ring_mu is one step, so everything the code leaves  *)
(* between an unlock and the next lock can be interleaved.                 *)
(*                                                                         *)
(* Flash is what the settings backend holds for the keys th/dlog/<slot>    *)
(* and tboot/count.  A save that a reset interrupts may leave the old      *)
(* value, the new one, or one that does not validate; a save that reports  *)
(* an error leaves the old value or one that does not validate.            *)
(***************************************************************************)
EXTENDS Integers

CONSTANTS
    Recorders,      \* threads that record events
    Main, Sys,      \* the main thread and the system work queue
    RING_CAP,       \* CONFIG_TOTEM_HOST_EVENT_LOG_SIZE
    BLOCK_EVENTS,   \* CONFIG_TOTEM_HOST_EVENT_LOG_BLOCK_SIZE
    JOURNAL_SLOTS,  \* CONFIG_TOTEM_HOST_EVENT_LOG_SLOTS
    PERSIST_EVERY,  \* CONFIG_TOTEM_HOST_EVENT_LOG_PERSIST_EVERY
    PERSIST_MIN,    \* CONFIG_TOTEM_HOST_EVENT_LOG_PERSIST_MIN_MS, in ticks
    BOOT_EVENTS,    \* records totem_boot_diagnostics_loaded makes (5 in the code)
    TIMING_CAP,     \* records one drain of the timing inbox can make: its capacity and
                    \* the record of what was dropped; 0 where it is not built
    MaxInputs,      \* bound: records made by callbacks, over all boots
    MaxCrashes,     \* bound: resets
    MaxFails,       \* bound: saves that report an error
    MaxWrites       \* bound: block writes attempted, over all boots

ASSUME JournalAssumption ==
    /\ RING_CAP \in Nat \ {0}
    /\ BLOCK_EVENTS \in Nat \ {0}
    /\ JOURNAL_SLOTS \in Nat /\ JOURNAL_SLOTS >= 2
    /\ PERSIST_EVERY \in Nat \ {0}
    /\ PERSIST_MIN \in Nat \ {0}
    /\ BOOT_EVENTS \in Nat
    /\ TIMING_CAP \in Nat
    /\ MaxInputs \in Nat /\ MaxCrashes \in Nat /\ MaxFails \in Nat /\ MaxWrites \in Nat

VARIABLES
    \* RAM of host_event_log.c
    ring, ring_head, ring_count, ring_seq, events_since_persist,
    persisted_event_seq, journal_seq, next_slot, persist_requested,
    journal_ready, since_persist, restored_blocks, persist_block,
    \* persist_work: queued on Sys, and the ticks left on its timer
    persist_queued, persist_timer,
    \* RAM of boot_diagnostics.c
    boot_count, counter_pending, previous,
    \* the timing inbox: captured flash timings not yet recorded
    timing_count,
    \* where each thread is
    call, sys_pc, boot_pc, boot_left, boot_urgent, loaded,
    \* settings storage
    flash, flash_count,
    \* history: records ever made, budgets used, a counter save that went wrong
    recorded, used, counter_failed

ringVars  == <<ring, ring_head, ring_count, ring_seq, events_since_persist, recorded>>
savedVars == <<persisted_event_seq, journal_seq, next_slot, restored_blocks>>
bootVars  == <<boot_count, counter_pending, previous, boot_pc, boot_left, boot_urgent, loaded>>
flashVars == <<flash, flash_count, counter_failed>>
storeVars == <<savedVars, bootVars, flashVars>>
workVars  == <<persist_queued, persist_timer>>
ctlVars   == <<persist_requested, journal_ready, since_persist, persist_block, timing_count>>
vars == <<ringVars, storeVars, workVars, ctlVars, used, call, sys_pc>>

Threads == Recorders \cup {Main, Sys}
Slots   == 0 .. JOURNAL_SLOTS - 1
NONE    == -1                        \* persist_timer is not running
CounterKey   == -1                   \* tboot/count among the keys loaded
SettingsKeys == Slots \cup {CounterKey}

Event == [id: Nat, durable: BOOLEAN]
ZeroEvent == [id |-> 0, durable |-> FALSE]

Block == [journal_seq: Nat, first_event_seq: Nat, count: 0 .. BLOCK_EVENTS,
          boot: Nat, ev: [0 .. BLOCK_EVENTS - 1 -> Nat]]

\* A slot that is absent, torn or otherwise fails the checks of hevt_settings_set.
EmptyBlock == [journal_seq |-> 0, first_event_seq |-> 0, count |-> 0, boot |-> 0,
               ev |-> [i \in 0 .. BLOCK_EVENTS - 1 |-> 0]]
Valid(block) == block.count > 0
LastSeq(block) == block.first_event_seq + block.count - 1

IdleCall == [pc |-> "idle", urgent |-> FALSE, wait |-> 0]
SysIdle  == sys_pc = "idle" /\ call[Sys].pc = "idle"

TypeOK ==
    /\ ring \in [0 .. RING_CAP - 1 -> Event]
    /\ ring_head \in 0 .. RING_CAP - 1
    /\ ring_count \in 0 .. RING_CAP
    /\ ring_seq \in Nat /\ events_since_persist \in 0 .. PERSIST_EVERY
    /\ persisted_event_seq \in Nat /\ journal_seq \in Nat
    /\ next_slot \in Slots
    /\ persist_requested \in BOOLEAN /\ journal_ready \in BOOLEAN
    /\ since_persist \in 0 .. PERSIST_MIN
    /\ restored_blocks \in [Slots -> Block] /\ persist_block \in Block
    /\ persist_queued \in BOOLEAN /\ persist_timer \in -1 .. PERSIST_MIN
    /\ boot_count \in Nat /\ counter_pending \in BOOLEAN /\ previous \in Nat
    /\ timing_count \in 0 .. TIMING_CAP
    /\ call \in [Threads -> [pc: {"idle", "sched", "call"}, urgent: BOOLEAN,
                             wait: 0 .. PERSIST_MIN]]
    /\ sys_pc \in {"idle", "drain", "persist", "counter", "block", "saved", "failed"}
    /\ boot_pc \in {"loading", "restored", "events", "done"} /\ boot_left \in 0 .. BOOT_EVENTS
    /\ boot_urgent \in BOOLEAN /\ loaded \in SUBSET SettingsKeys
    /\ flash \in [Slots -> Block] /\ flash_count \in Nat
    /\ recorded \in Nat /\ counter_failed \in BOOLEAN
    /\ used \in [{"inputs", "crashes", "fails", "writes"} -> Nat]

-----------------------------------------------------------------------------
(* Power on with empty settings storage.                                   *)
Init ==
    /\ ring = [i \in 0 .. RING_CAP - 1 |-> ZeroEvent]
    /\ ring_head = 0 /\ ring_count = 0 /\ ring_seq = 0 /\ events_since_persist = 0
    /\ persisted_event_seq = 0 /\ journal_seq = 0 /\ next_slot = 0
    /\ persist_requested = FALSE /\ journal_ready = FALSE
    /\ since_persist = PERSIST_MIN
    /\ restored_blocks = [s \in Slots |-> EmptyBlock] /\ persist_block = EmptyBlock
    /\ persist_queued = FALSE /\ persist_timer = NONE
    /\ boot_count = 0 /\ counter_pending = FALSE /\ previous = 0
    /\ timing_count = 0
    /\ call = [t \in Threads |-> IdleCall]
    /\ sys_pc = "idle" /\ boot_pc = "loading" /\ boot_left = 0 /\ boot_urgent = FALSE
    /\ loaded = {}
    /\ flash = [s \in Slots |-> EmptyBlock] /\ flash_count = 0
    /\ recorded = 0 /\ counter_failed = FALSE
    /\ used = [b \in {"inputs", "crashes", "fails", "writes"} |-> 0]

\* Takes one unit of a budget that keeps the model finite.
Spend(budget, limit) == used[budget] < limit /\ used' = [used EXCEPT ![budget] = @ + 1]

-----------------------------------------------------------------------------
(* Recording: record_event, then schedule_persist_coalesced.               *)

NeedPersist == events_since_persist + 1 >= PERSIST_EVERY

\* Mutant: the head runs off the end of the ring.
HeadNoWrap == ring_head + 1
NextHead == (ring_head + 1) % RING_CAP

\* The critical section of record_event.  Timing records pass persist = FALSE.
Insert(persist) ==
    /\ ring' = [ring EXCEPT ![ring_head] = [id |-> recorded + 1, durable |-> persist]]
    /\ ring_head' = NextHead
    /\ ring_count' = IF ring_count < RING_CAP THEN ring_count + 1 ELSE ring_count
    /\ ring_seq' = ring_seq + 1
    /\ events_since_persist' = IF ~persist THEN events_since_persist
                               ELSE IF NeedPersist THEN 0 ELSE events_since_persist + 1
    /\ recorded' = recorded + 1

\* Thread t is about to run schedule_persist_coalesced(urgent).
CallSchedule(t, urgent) ==
    call' = [call EXCEPT ![t] = [pc |-> "sched", urgent |-> urgent, wait |-> 0]]

\* totem_host_event_log_record from a callback.
Record(t) ==
    /\ call[t].pc = "idle"
    /\ Spend("inputs", MaxInputs)
    /\ Insert(TRUE)
    /\ CallSchedule(t, NeedPersist)
    /\ UNCHANGED <<storeVars, workVars, ctlVars, sys_pc>>

\* totem_host_event_log_record_timing from a callback (hid_log_connected).
RecordTiming(t) ==
    /\ call[t].pc = "idle"
    /\ Spend("inputs", MaxInputs)
    /\ Insert(FALSE)
    /\ UNCHANGED <<storeVars, workVars, ctlVars, call, sys_pc>>

\* The delay schedule_persist_coalesced computes.  since_persist saturates at
\* PERSIST_MIN, which is also its value when nothing was persisted this boot.
WaitTicks(urgent) ==
    IF since_persist < PERSIST_MIN THEN PERSIST_MIN - since_persist
    ELSE IF urgent THEN 0 ELSE PERSIST_MIN

\* schedule_persist_coalesced, the part under ring_mu.
SchedulePersist(t) ==
    /\ call[t].pc = "sched"
    /\ persist_requested' = TRUE
    /\ call' = [call EXCEPT ![t] =
                  IF journal_ready
                  THEN [pc |-> "call", urgent |-> @.urgent, wait |-> WaitTicks(@.urgent)]
                  ELSE IdleCall]
    /\ UNCHANGED <<ringVars, storeVars, workVars, used, journal_ready, since_persist,
                   persist_block, timing_count, sys_pc>>

\* schedule_persist_coalesced, after ring_mu: k_work_reschedule moves the timer
\* (or queues the work at once), k_work_schedule does nothing to pending work.
ScheduleWork(t) ==
    /\ call[t].pc = "call"
    /\ call' = [call EXCEPT ![t] = IdleCall]
    /\ \/ /\ call[t].urgent
          /\ persist_queued' = (persist_queued \/ call[t].wait = 0)
          /\ persist_timer' = IF call[t].wait = 0 THEN NONE ELSE call[t].wait
       \/ /\ ~call[t].urgent
          /\ persist_timer' = IF ~persist_queued /\ persist_timer = NONE
                              THEN call[t].wait ELSE persist_timer
          /\ UNCHANGED persist_queued
    /\ UNCHANGED <<ringVars, storeVars, ctlVars, used, sys_pc>>

\* One tick of uptime; the kernel queues persist_work when its timer expires.
Tick ==
    /\ since_persist' = IF since_persist < PERSIST_MIN THEN since_persist + 1 ELSE since_persist
    /\ persist_timer' = IF persist_timer > 1 THEN persist_timer - 1 ELSE NONE
    /\ persist_queued' = (persist_queued \/ persist_timer = 1)
    /\ UNCHANGED <<ringVars, storeVars, used, persist_requested, journal_ready, persist_block,
                   timing_count, call, sys_pc>>

-----------------------------------------------------------------------------
(* The writer: totem_host_event_log_persist on the system work queue.      *)

\* persist_work_handler starts.
PersistWork ==
    /\ SysIdle /\ persist_queued
    /\ persist_queued' = FALSE /\ sys_pc' = "persist"
    /\ UNCHANGED <<ringVars, storeVars, ctlVars, used, persist_timer, call>>

\* flush_counts of hid_report_diagnostics.c: records a dirty counter, then persists.
FlushCounts ==
    /\ SysIdle
    /\ Spend("inputs", MaxInputs)
    /\ Insert(FALSE)
    /\ sys_pc' = "persist"
    /\ UNCHANGED <<storeVars, workVars, ctlVars, call>>

FirstAvailable == ring_seq - ring_count + 1

\* Mutant: saved records are not skipped.
FirstInRing == FirstAvailable
FirstNew == IF persisted_event_seq + 1 < FirstAvailable THEN FirstAvailable
            ELSE persisted_event_seq + 1

TooSoon == since_persist < PERSIST_MIN

\* Mutant: the oldest entry is taken one place too late.
StartOffByOne == (ring_head + RING_CAP - ring_count + 1) % RING_CAP
\* Index of the oldest ring entry, and the ring entry of an event sequence number.
RingStart == (ring_head + RING_CAP - ring_count) % RING_CAP
RingEntry(seq) == ring[(RingStart + (seq - FirstAvailable)) % RING_CAP]

\* The early returns of totem_host_event_log_persist.
PersistSkip ==
    /\ sys_pc = "persist" /\ sys_pc' = "idle"
    /\ \/ /\ ~journal_ready
          /\ UNCHANGED <<persist_requested, call>>
       \/ /\ journal_ready /\ TooSoon
          /\ CallSchedule(Sys, TRUE)
          /\ UNCHANGED persist_requested
       \/ /\ journal_ready /\ ~TooSoon /\ FirstNew > ring_seq
          /\ persist_requested' = FALSE
          /\ UNCHANGED call
    /\ UNCHANGED <<ringVars, storeVars, workVars, used, journal_ready, since_persist,
                   persist_block, timing_count>>

\* The boot that a block tells about, a history field: 0 for a block copied before
\* the boot was counted, which holds none of the boot's own records.
BootOfBlock == IF boot_pc \in {"events", "done"} THEN boot_count ELSE 0

\* The block that PersistBegin builds: the oldest available pending records.
NewBlock ==
    LET pending == ring_seq - FirstNew + 1
        n == IF pending < BLOCK_EVENTS THEN pending ELSE BLOCK_EVENTS
    IN  [journal_seq |-> journal_seq + 1, first_event_seq |-> FirstNew, count |-> n,
         boot |-> BootOfBlock,
         ev |-> [i \in 0 .. BLOCK_EVENTS - 1 |->
                   IF i < n THEN RingEntry(FirstNew + i).id ELSE 0]]

PersistBegin ==
    /\ sys_pc = "persist"
    /\ journal_ready /\ ~TooSoon /\ FirstNew <= ring_seq
    /\ Spend("writes", MaxWrites)
    /\ journal_seq' = journal_seq + 1
    /\ persist_block' = NewBlock
    /\ persist_requested' = FALSE
    /\ sys_pc' = "counter"
    /\ UNCHANGED <<ringVars, bootVars, flashVars, workVars, persisted_event_seq, next_slot,
                   restored_blocks, journal_ready, since_persist, timing_count, call>>

\* __wrap_settings_save_one captures a BEGIN and an END record around a save.
CaptureSave ==
    timing_count' = IF timing_count + 2 < TIMING_CAP THEN timing_count + 2 ELSE TIMING_CAP

\* Mutant: the counter waits for the second write of the boot.
CounterLate == counter_pending /\ since_persist < PERSIST_MIN
CounterDue == counter_pending

\* totem_boot_diagnostics_persist: at most one counter save per boot succeeds.
CounterSkip ==
    /\ sys_pc = "counter" /\ ~CounterDue
    /\ sys_pc' = "block"
    /\ UNCHANGED <<ringVars, storeVars, workVars, ctlVars, used, call>>

CounterSave ==
    /\ sys_pc = "counter" /\ CounterDue
    /\ sys_pc' = "block"
    /\ CaptureSave
    /\ \/ /\ flash_count' = boot_count
          /\ counter_pending' = FALSE
          /\ UNCHANGED <<used, counter_failed>>
       \/ /\ Spend("fails", MaxFails)
          /\ counter_failed' = TRUE
          /\ UNCHANGED <<flash_count, counter_pending>>
    /\ UNCHANGED <<ringVars, savedVars, workVars, flash, boot_count, previous, boot_pc,
                   boot_left, boot_urgent, loaded, persist_requested, journal_ready,
                   since_persist, persist_block, call>>

\* settings_save_one of the block, outside ring_mu.
BlockSaved ==
    /\ sys_pc = "block" /\ sys_pc' = "saved"
    /\ CaptureSave
    /\ flash' = [flash EXCEPT ![next_slot] = persist_block]
    /\ UNCHANGED <<ringVars, savedVars, bootVars, workVars, flash_count, used, counter_failed,
                   persist_requested, journal_ready, since_persist, persist_block, call>>

BlockFailed ==
    /\ sys_pc = "block" /\ sys_pc' = "failed"
    /\ Spend("fails", MaxFails)
    /\ CaptureSave
    /\ \E left \in {flash[next_slot], EmptyBlock} :
          flash' = [flash EXCEPT ![next_slot] = left]
    /\ UNCHANGED <<ringVars, savedVars, bootVars, workVars, flash_count, counter_failed,
                   persist_requested, journal_ready, since_persist, persist_block, call>>

\* Mutants: a backlog is not rescheduled; nothing is.
BacklogForgotten(requested, persisted) == requested
NoRetry(requested, persisted) == FALSE
MorePending(requested, persisted) == requested \/ ring_seq > persisted

\* Mutant: the slot just written is written again.
SameSlot(s) == s
SlotAfter(s) == (s + 1) % JOURNAL_SLOTS

\* The second critical section of totem_host_event_log_persist.
PersistEnd ==
    /\ sys_pc \in {"saved", "failed"} /\ sys_pc' = "idle"
    /\ since_persist' = 0
    /\ \/ /\ sys_pc = "saved"
          /\ persisted_event_seq' = LastSeq(persist_block)
          /\ restored_blocks' = [restored_blocks EXCEPT ![next_slot] = persist_block]
          /\ next_slot' = SlotAfter(next_slot)
          /\ UNCHANGED persist_requested
       \/ /\ sys_pc = "failed"
          /\ persist_requested' = TRUE
          /\ UNCHANGED <<persisted_event_seq, restored_blocks, next_slot>>
    /\ IF MorePending(persist_requested', persisted_event_seq')
       THEN CallSchedule(Sys, TRUE) ELSE UNCHANGED call
    /\ persist_block' = EmptyBlock         \* scratch: rebuilt by the next write
    /\ UNCHANGED <<ringVars, bootVars, flashVars, workVars, journal_seq, used, journal_ready,
                   timing_count>>

\* Mutant: the drain submits the writer for the records it has made.
DrainAsks ==
    /\ timing_count > 0
    /\ SysIdle \/ sys_pc = "drain"
    /\ Insert(FALSE)
    /\ timing_count' = timing_count - 1
    /\ sys_pc' = IF timing_count = 1 THEN "idle" ELSE "drain"
    /\ persist_queued' = TRUE /\ persist_timer' = NONE
    /\ UNCHANGED <<storeVars, used, persist_requested, journal_ready, since_persist, persist_block,
                   call>>
\* timing_drain: records every captured timing, never asking for a save.
TimingDrain ==
    /\ timing_count > 0
    /\ SysIdle \/ sys_pc = "drain"
    /\ Insert(FALSE)
    /\ timing_count' = timing_count - 1
    /\ sys_pc' = IF timing_count = 1 THEN "idle" ELSE "drain"
    /\ UNCHANGED <<storeVars, workVars, used, persist_requested, journal_ready, since_persist,
                   persist_block, call>>

-----------------------------------------------------------------------------
(* Boot: settings_load calls the handlers key by key, in storage order;    *)
(* zmk_settings_loaded follows.                                            *)

\* Mutant: the slot loaded last is taken as the newest.
AnyNewer(block) == Valid(block)
Newer(block) == Valid(block) /\ block.journal_seq >= journal_seq

\* hevt_settings_set for one slot.
LoadSlot(s) ==
    /\ boot_pc = "loading" /\ s \notin loaded
    /\ loaded' = loaded \cup {s}
    /\ restored_blocks' = [restored_blocks EXCEPT ![s] = flash[s]]
    /\ IF Newer(flash[s])
       THEN /\ journal_seq' = flash[s].journal_seq
            /\ next_slot' = SlotAfter(s)
       ELSE UNCHANGED <<journal_seq, next_slot>>
    /\ persisted_event_seq' = IF Valid(flash[s]) /\ LastSeq(flash[s]) > persisted_event_seq
                              THEN LastSeq(flash[s]) ELSE persisted_event_seq
    /\ UNCHANGED <<ringVars, flashVars, workVars, ctlVars, boot_count, counter_pending,
                   previous, boot_pc, boot_left, boot_urgent, used, call, sys_pc>>

\* boot_settings_set; a counter that does not validate counts as zero.
LoadCounter ==
    /\ boot_pc = "loading" /\ CounterKey \notin loaded
    /\ loaded' = loaded \cup {CounterKey}
    /\ boot_count' = flash_count
    /\ UNCHANGED <<ringVars, savedVars, flashVars, workVars, ctlVars, counter_pending, previous,
                   boot_pc, boot_left, boot_urgent, used, call, sys_pc>>

\* The event zmk_settings_loaded reports as the last one of the previous boots.
RestoredPairs ==
    {p \in Slots \X (0 .. BLOCK_EVENTS - 1) : p[2] < restored_blocks[p[1]].count}
\* Mutant: blocks are compared, not the events in them.
FirstOfBlock(p) == restored_blocks[p[1]].first_event_seq
SeqOf(p) == restored_blocks[p[1]].first_event_seq + p[2]
NewestPairs == {p \in RestoredPairs : \A q \in RestoredPairs : SeqOf(q) <= SeqOf(p)}
PreviousEvent ==
    IF NewestPairs = {} THEN 0
    ELSE LET p == CHOOSE p \in NewestPairs : TRUE IN restored_blocks[p[1]].ev[p[2]]

\* zmk_settings_loaded, the part under ring_mu.  From here on the writer may run.
SettingsLoaded ==
    /\ boot_pc = "loading" /\ loaded = SettingsKeys
    /\ ring_seq' = persisted_event_seq + ring_count
    /\ journal_ready' = TRUE
    /\ previous' = PreviousEvent
    /\ boot_pc' = "restored"
    /\ boot_urgent' = (ring_seq' > persisted_event_seq)
    /\ UNCHANGED <<savedVars, flashVars, workVars, ring, ring_head, ring_count,
                   events_since_persist, recorded, boot_count, counter_pending, boot_left,
                   loaded, used, persist_requested, since_persist, persist_block,
                   timing_count, call, sys_pc>>

\* The statements of totem_boot_diagnostics_loaded before its first record run
\* under no lock.  counter_pending, the only one the writer tests, is set last.
CountBoot == boot_count' = boot_count + 1 /\ counter_pending' = TRUE

BootCounted ==
    /\ boot_pc = "restored" /\ boot_pc' = "events"
    /\ CountBoot
    /\ boot_left' = BOOT_EVENTS
    /\ UNCHANGED <<ringVars, savedVars, flashVars, workVars, ctlVars, previous, boot_urgent,
                   loaded, used, call, sys_pc>>

\* One of the boot records of totem_boot_diagnostics_loaded.
BootRecord ==
    /\ boot_pc = "events" /\ boot_left > 0 /\ call[Main].pc = "idle"
    /\ boot_left' = boot_left - 1
    /\ Insert(TRUE)
    /\ CallSchedule(Main, NeedPersist)
    /\ UNCHANGED <<savedVars, flashVars, workVars, ctlVars, boot_count, counter_pending,
                   previous, boot_pc, boot_urgent, loaded, used, sys_pc>>

\* The tail of zmk_settings_loaded: events recorded before the load are saved soon.
BootDone ==
    /\ boot_pc = "events" /\ boot_left = 0 /\ call[Main].pc = "idle"
    /\ boot_pc' = "done"
    /\ IF boot_urgent THEN CallSchedule(Main, TRUE) ELSE UNCHANGED call
    /\ UNCHANGED <<ringVars, savedVars, flashVars, workVars, ctlVars, boot_count,
                   counter_pending, previous, boot_left, boot_urgent, loaded, used, sys_pc>>

\* Power loss, watchdog or fault at any point: RAM is gone, and a save in
\* progress may have left the old value, the new value or an invalid one.
Crash ==
    /\ Spend("crashes", MaxCrashes)
    /\ IF sys_pc = "block"
       THEN \E left \in {flash[next_slot], EmptyBlock, persist_block} :
               flash' = [flash EXCEPT ![next_slot] = left]
       ELSE UNCHANGED flash
    /\ IF sys_pc = "counter" /\ counter_pending
       THEN \/ flash_count' \in {flash_count, boot_count} /\ UNCHANGED counter_failed
            \/ flash_count' = 0 /\ counter_failed' = TRUE
       ELSE UNCHANGED <<flash_count, counter_failed>>
    /\ ring' = [i \in 0 .. RING_CAP - 1 |-> ZeroEvent]
    /\ ring_head' = 0 /\ ring_count' = 0 /\ ring_seq' = 0 /\ events_since_persist' = 0
    /\ persisted_event_seq' = 0 /\ journal_seq' = 0 /\ next_slot' = 0
    /\ persist_requested' = FALSE /\ journal_ready' = FALSE
    /\ since_persist' = PERSIST_MIN
    /\ restored_blocks' = [s \in Slots |-> EmptyBlock] /\ persist_block' = EmptyBlock
    /\ persist_queued' = FALSE /\ persist_timer' = NONE
    /\ boot_count' = 0 /\ counter_pending' = FALSE /\ previous' = 0
    /\ timing_count' = 0
    /\ call' = [t \in Threads |-> IdleCall]
    /\ sys_pc' = "idle" /\ boot_pc' = "loading" /\ boot_left' = 0 /\ boot_urgent' = FALSE
    /\ loaded' = {}
    /\ UNCHANGED <<recorded>>

-----------------------------------------------------------------------------
ThreadStep(t) == SchedulePersist(t) \/ ScheduleWork(t)
Writer == \/ PersistWork \/ PersistSkip \/ PersistBegin \/ CounterSkip \/ CounterSave
          \/ BlockSaved \/ BlockFailed \/ PersistEnd
Boot == (\E s \in Slots : LoadSlot(s)) \/ LoadCounter \/ SettingsLoaded
        \/ BootCounted \/ BootRecord \/ BootDone

Next ==
    \/ \E t \in Recorders : Record(t) \/ RecordTiming(t)
    \/ \E t \in Threads : ThreadStep(t)
    \/ Tick \/ FlushCounts \/ Writer \/ TimingDrain \/ Boot \/ Crash

Spec == Init /\ [][Next]_vars

\* As long as a started thread or handler, the work queue or a timer has something
\* to do, one of them goes on; which of them is left open.  Nothing obliges a
\* callback to record an event, a flush to happen or the board to crash.
Fairness ==
    WF_vars((\E t \in Threads : ThreadStep(t)) \/ Writer \/ TimingDrain \/ Boot \/ Tick)

FairSpec == Spec /\ Fairness

-----------------------------------------------------------------------------
(* Properties.                                                             *)

\* Blocks in flash keep the order in which they were written: a block with the
\* larger journal_seq starts after every event of the other, whatever crashes,
\* failed saves and slot reuse came between (persist, hevt_settings_set).
JournalOrdered ==
    \A s, t \in Slots :
        Valid(flash[s]) /\ Valid(flash[t]) /\ s # t =>
            \/ /\ flash[s].journal_seq < flash[t].journal_seq
               /\ LastSeq(flash[s]) < flash[t].first_event_seq
            \/ /\ flash[t].journal_seq < flash[s].journal_seq
               /\ LastSeq(flash[t]) < flash[s].first_event_seq

\* The saved events are those that were recorded, in recording order and each
\* once: the sequence numbers of two saved events compare as the events do
\* (the ring arithmetic of persist and the renumbering in zmk_settings_loaded).
SavedInRecordingOrder ==
    \A s, t \in Slots : \A i, j \in 0 .. BLOCK_EVENTS - 1 :
        (i < flash[s].count /\ j < flash[t].count) =>
            (flash[s].first_event_seq + i < flash[t].first_event_seq + j
               <=> flash[s].ev[i] < flash[t].ev[j])

\* Reading the slots from next_slot, as the dump does, visits the valid blocks
\* oldest first.
DumpOldestFirst ==
    journal_ready =>
        \A i, j \in Slots :
            LET a == restored_blocks[(next_slot + i) % JOURNAL_SLOTS]
                b == restored_blocks[(next_slot + j) % JOURNAL_SLOTS]
            IN  i < j /\ Valid(a) /\ Valid(b) => a.journal_seq < b.journal_seq

\* A save never touches the newest valid block, so an interrupted one leaves the
\* previous block available (host_event_log.c, comment on totem_diag_block).
NewestSurvives ==
    [][\A s \in Slots :
          /\ Valid(flash[s])
          /\ \A t \in Slots : Valid(flash[t]) => flash[t].journal_seq <= flash[s].journal_seq
          => flash'[s] = flash[s]]_flash

\* The journal implements DurableLog: the valid blocks in storage are a log that
\* grows at its new end and loses nothing but its oldest block, through resets
\* in the middle of a save, failed saves, slot reuse and the search for the
\* next slot at boot (totem_host_event_log_persist, hevt_settings_set).
SavedBlocks == {flash[s] : s \in {t \in Slots : Valid(flash[t])}}
Log == INSTANCE DurableLog WITH blocks <- SavedBlocks
ImplementsLog == Log!Spec

\* An event whose record asked for persistence is never forgotten while it is
\* in the ring: some thread is about to schedule persist_work, the work is
\* queued or timed, or the writer is running (no lost wakeup between the
\* unlocks of record_event, schedule_persist_coalesced and persist).
Unsaved ==
    \E k \in 0 .. RING_CAP - 1 :
        /\ k < ring_count
        /\ FirstAvailable + k > persisted_event_seq
        /\ RingEntry(FirstAvailable + k).durable
NoLostWakeup ==
    journal_ready /\ Unsaved =>
        \/ persist_queued \/ persist_timer # NONE
        \/ \E t \in Threads : call[t].pc # "idle"
        \/ sys_pc \in {"persist", "counter", "block", "saved", "failed"}
        \/ boot_pc \in {"restored", "events"} /\ (boot_urgent \/ boot_left > 0)

\* A block that may hold records of a boot, its number among them, is written
\* only after the boot counter, so no later boot can take that number again,
\* unless saving the counter itself went wrong (totem_boot_diagnostics_persist
\* before settings_save_one).  The writer may run between the unlock of
\* zmk_settings_loaded and counter_pending = true and save a block without the
\* counter; such a block was copied before the boot's first record.
CounterCoversJournal ==
    ~counter_failed => \A s \in Slots : Valid(flash[s]) => flash[s].boot <= flash_count

\* The evidence of the previous boot that zmk_settings_loaded extracts is the
\* newest event that reached flash.
SavedIds ==
    {flash[p[1]].ev[p[2]] :
        p \in {q \in Slots \X (0 .. BLOCK_EVENTS - 1) : q[2] < flash[q[1]].count}}
PreviousIsNewest ==
    [][~journal_ready /\ journal_ready' =>
         IF SavedIds = {} THEN previous' = 0
         ELSE previous' \in SavedIds /\ \A id \in SavedIds : id <= previous']_vars

\* Once callbacks stop recording, the journal falls silent: timings of its own
\* flash writes do not keep it writing (docs/diagnostics.md), also when a backlog
\* of more than one block has to be written and each write adds records to it.
Silent == SysIdle /\ ~persist_queued /\ persist_timer = NONE
FallsSilent == <>[]Silent

\* Every event that asked for persistence is eventually saved, overwritten in
\* the ring or lost to a crash.
EventuallySaved == (journal_ready /\ Unsaved) ~> (~journal_ready \/ ~Unsaved)

-----------------------------------------------------------------------------
(* The strengthening that makes JournalOrdered and NewestSurvives          *)
(* inductive: what the RAM bookkeeping knows about flash.                  *)

\* The maxima that hevt_settings_set and persist keep cover a saved block.
Covered(s) == Valid(flash[s]) => /\ flash[s].journal_seq <= journal_seq
                                 /\ LastSeq(flash[s]) <= persisted_event_seq

\* Loading ends exactly when zmk_settings_loaded runs; nothing is written before.
LoadInv ==
    /\ journal_ready <=> boot_pc # "loading"
    /\ journal_ready => loaded = SettingsKeys
    /\ sys_pc \in {"counter", "block", "saved", "failed"} => journal_ready

\* The block being written starts after everything saved and is the newest.
WriteInv ==
    /\ sys_pc \in {"counter", "block", "saved"} =>
          /\ Valid(persist_block)
          /\ persist_block.journal_seq = journal_seq
          /\ persist_block.first_event_seq > persisted_event_seq
    /\ sys_pc \in {"counter", "block"} =>
          \A s \in Slots : Valid(flash[s]) => flash[s].journal_seq < journal_seq
    /\ sys_pc = "saved" =>
          /\ flash[next_slot] = persist_block
          /\ \A s \in Slots \ {next_slot} :
                Valid(flash[s]) => flash[s].journal_seq < journal_seq

CoverInv == \A s \in Slots : s \in loaded /\ ~(sys_pc = "saved" /\ s = next_slot) => Covered(s)

\* next_slot follows the newest block seen so far.
Newest(s) ==
    /\ s \in loaded /\ Valid(flash[s])
    /\ \A t \in Slots : t \in loaded /\ Valid(flash[t]) =>
                           flash[t].journal_seq <= flash[s].journal_seq
NextSlotInv ==
    /\ sys_pc # "saved" => \A s \in Slots : Newest(s) => next_slot = SlotAfter(s)
    /\ ~journal_ready =>
          \/ journal_seq = 0
          \/ \E t \in Slots : /\ t \in loaded /\ Valid(flash[t])
                              /\ flash[t].journal_seq = journal_seq

\* Inductive relative to TypeOK.
OrderInv == LoadInv /\ WriteInv /\ CoverInv /\ NextSlotInv /\ JournalOrdered

=============================================================================
