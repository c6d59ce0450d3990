# Formal model of the Totem keyboard firmware

This directory models the firmware modules of this repository (`src/`, built
into ZMK for the left half of the keyboard) and the desktop reader of its
diagnostic dump (`tools/read_diag_dump.py`). The modules are TLA+; TLC checks
them on small instances and TLAPS proves the central results for every value of
the constants. Paths below are relative to the repository root.

## 1. The system

The left half is the BLE peripheral of up to five computers ("profiles", one
selected) and the central of the right half. The repository adds to ZMK:

| Part | Source | State | Operations |
|---|---|---|---|
| Diagnostic journal | `src/host_event_log.c` | RAM ring, sequence numbers, `persist_requested`, rotating flash blocks `th/dlog/<slot>` | record an event, schedule and run the rate-limited write, restore at boot, dump |
| Boot diagnostics | `src/boot_diagnostics.c` | boot counter `tboot/count`, evidence of the previous boot | save the counter before the first block of a boot, record the boot evidence |
| Diagnostic timing | `src/diagnostic_timing.c` | bounded inbox of time stamps | wrap `settings_save_one`, capture, drain into the journal |
| HID diagnostics | `src/hid_report_diagnostics.c`, `src/hid_connection_log.c` | counters per profile and stage, what the HOG worker holds | count reports, write summaries and connection records into the journal |
| Verified dump | `host_event_log.c`, `src/totem_studio_extras.c`, `tools/read_diag_dump.py` | snapshot, line ordinal; verifier | send a numbered snapshot over USB, verify it |
| Serial framing | `tools/read_diag_dump.py` | deframer state | escape, deframe, resynchronise |
| Exclusive host | `src/exclusive_host.c` | three work items, ignore time per profile, ring of recent evictions, buffer of authentication failures | scan the connections, evict hosts of other profiles, rate-limit |
| Reconnect watch | `src/reconnect_watch.c` | `next_step`, delayed work | recovery ladder while the selected host is down |
| USB host quiet | `src/usb_host_quiet.c` | delayed work | drop every computer link on USB |
| Fault capture, watchdog | `src/totem_fault.c`, `src/totem_watchdog.c` | record in `__noinit` RAM, reset cause, task watchdog channels | note a crash or hang, report once after the reset |
| Handoff diagnostics | `src/handoff_diagnostics.c`, `src/handoff_radio_tx.c` | per connection handle: armed, counters of termination packets; the observer's view of the shared radio | arm at a disconnect call, follow the packet through the radio interrupts, summarise when the link is gone |
| Security timing | `src/security_timing.c`, `src/security_controller_timing.c` | none of its own | capture every stage of a link's encryption into the timing inbox |
| Loggers | `src/conn_params_log.c`, `src/totem_battery_log.c`, `src/totem_endpoint_log.c` | last values | log |
| Studio USB | `src/totem_studio_usb.c` | retry count | select the USB endpoint with bounded retries |
| Lazy inactive host | `src/lazy_inactive_host.c` | delayed work | alternative to exclusive host (configured off): ask each host for the connection parameters of its role |
| Battery alert tool | `tools/totem_battery_windows.py` | alert latch per half | warn on the desktop |

How they interact. Bluetooth callbacks run on the RX thread and every module
that registered one is called; ZMK events, work items and the disconnected
callback run one at a time on the system work queue. Exclusive host, reconnect
watch and USB quiet share the connection table and may each decide to drop a
host. All of them record events into the journal, from several threads, under
`ring_mu`; the journal's own writer runs on the system work queue, releases the
mutex for the flash write, saves the boot counter on the way, and its flash
writes are themselves timed and recorded. The dump runs on its own queue and
reads the ring under `ring_mu`; it is asked for over the Studio port, which listens
only while the endpoint is on USB. The Bluetooth host, the controller's
interrupts and the settings calls capture time stamps into one bounded inbox
under a spinlock; a work item on the system work queue empties it into the
journal, and shares that queue with the summary of the HID counters, which the
key thread and the HOG worker go on incrementing. The handoff observers hang on
the disconnect call, on the connection state and on the radio, whose interrupts
serve every link in turn.

What is hard:

* **concurrency**: what is decided under a lock and done after it (the schedule
  delay, the block being written), handlers that wait for a Bluetooth command
  while callbacks of the RX thread change the state they are about to write;
* **failure**: a reset inside a flash write, inside the fault handler or inside
  the report; saves that fail; disconnect requests that fail; lost lines and bytes;
* **shared observers**: one radio, one inbox and one report queue watched on
  behalf of several links, profiles and exchanges, in interrupts and threads;
* **ordering**: settings restored in any order, events recorded before they are
  restored, callbacks of old links after new ones;
* **time**: a rate-limited writer that is its own source of events, ignore
  windows, a capped sliding window, a reader that joins late, a feed interval
  that must tolerate missed feeds, retries that end.

`PROJECT.json` lists these hazards line by line, with the properties that
would catch them.

What makes each part correct: the journal keeps saved events in order, never
endangers its newest block, forgets no request to save and does not feed itself;
a dump that the reader accepts is whole; the deframer recovers; eviction
overlooks no background host, is rate-limited and never hits the selected host;
the ladder neither sticks nor runs for ever; a fault is reported once and as itself,
and a hang names a context that had stopped; a termination packet is counted once
and only if it was on the air; no record and no report count is lost without
being reported as lost; with the cable in, the endpoint gets to USB.

## 2. Modules

| Module | Models |
|---|---|
| `Journal` | `host_event_log.c` without the dump, `boot_diagnostics.c`, the settings hook of `diagnostic_timing.c`, what `flush_counts` and `hid_log_connected` do to the journal |
| `DurableLog` | abstract: what the journal promises about storage; `Journal` implements it |
| `HostLink` | what the host modules see of ZMK's BLE core, Zephyr's connection table, USB and the system work queue (external) |
| `ExclusiveHost`, `ReconnectWatch`, `UsbHostQuiet`, `LazyHost` | one policy module each, on top of `HostLink` |
| `HostPolicy` | their composition: one action per callback, event, work item |
| `EvictWindow` | the eviction ring and failure buffer of `exclusive_host.c` as arrays |
| `StudioUsb` | `totem_studio_usb.c` |
| `DumpProtocol` | the dump, the line channel, `DumpVerifier` and `main` of the reader, composed with `StudioUsb` |
| `Framing` | `frame` and `Deframer` |
| `Watchdog` | the three task watchdog channels of `totem_watchdog.c` and their feeding |
| `PostMortem` | `totem_fault.c`, the boot sequence and the hang callback of `totem_watchdog.c`, composed with `Watchdog` |
| `HandoffRadio` | the counters of `handoff_diagnostics.c` and the radio observer `handoff_radio_tx.c` |
| `Handoff` | the disconnect hook and the connection state hook around `HandoffRadio` |
| `TimingInbox` | the inbox of `diagnostic_timing.c` |
| `SecurityTiming` | `security_timing.c`, `security_controller_timing.c`, on top of `TimingInbox` |
| `HidReports` | `hid_report_diagnostics.c` |
| `Diagnostics` | composition of `HidReports` and `SecurityTiming` on one system work queue |
| `JournalProofs`, `HostPolicyProofs`, `EvictWindowProofs`, `HandoffProofs`, `PostMortemProofs`, `DiagnosticsProofs`, `DumpProofs`, `FramingProofs` | the proofs, section 4 |
| `MC...` | instances for TLC |

An operator whose comment begins with `Mutant:` is a variant of the definition
that follows it, with a plausible bug; substituting one makes the property it
belongs to fail (`PROJECT.json`, "mutants").

### Journal

*State.* The C variables under their own names, the work item (`persist_queued`,
`persist_timer` in ticks), the flash contents per slot, program counters of the
recorders (`call`), of the work queue (`sys_pc`) and of the boot (`boot_pc`). An
event is its sequence number, its identity and whether it asked for a save. The
block's `boot`, an event's `id`, and `recorded`, `counter_failed` and `used` are history.

*Actions.* Each critical section of `ring_mu` is one step: `Record` /
`RecordTiming` / `FlushCounts` / `TimingDrain` / `BootRecord` (`record_event`), then
`SchedulePersist` (delay computed under the mutex) and `ScheduleWork` (the
`k_work_reschedule` after it); the writer as `PersistWork`, `PersistSkip` or
`PersistBegin`, `CounterSkip` / `CounterSave`, `BlockSaved` / `BlockFailed`,
`PersistEnd`; loading as `LoadSlot`, `LoadCounter`, `SettingsLoaded`, `BootCounted`,
`BootDone`. `SettingsLoaded` is the section of `zmk_settings_loaded` under `ring_mu`;
the boot is counted after its unlock and without the lock (`BootCounted`), so the
writer may run in between with the journal ready and no counter to save. A block
copied then holds only events from before the counting; its `boot` is 0.
`Crash` may strike anywhere: RAM is lost, a save in flight leaves the old value,
the new one or an invalid one. A save that reports an error leaves the old value
or an invalid one.

*Abstract log.* `DurableLog` has one variable, the set of blocks a boot would find
valid. A block is added only after all others; the only block that may go
missing is the oldest, and never the last one left. `ImplementsLog` maps that
set to the valid contents of the slots; RAM, threads, slots and resets disappear.

*Abstractions.* `since_persist` is the uptime since the last write and saturates
at the minimum interval. A recorder may be in the middle of a schedule computed
before another one; the model keeps every such chain, a superset of what mutex
hand-over allows. Transient read errors during the restore are not modelled. The
inbox is reduced to the number of records a write puts into it; `TimingInbox`
models it in full. Every save puts two timing records into the journal's own ring, four
when the counter is saved too. `FallsSilent` therefore needs a block with room for
more than the records of one write: Kconfig's range 8..32 for the block size guarantees
it, and the instance keeps that proportion (blocks of two, one record to a drain, a ring that
holds more than a block); with smaller blocks the journal would feed itself for ever.

### Host policy

*State.* Per host the connection object, how far its address is resolved,
whether the link is encrypted; bonds, the selected profile, the cable, whether
advertising is paused; the handler the work queue is in (`sys`); the four
modules' variables. `build` says whether the firmware has exclusive host, lazy host or
neither, and never changes. Delays of the ladder, the USB module and the lazy refresh
are not timed (a scheduled work item may run at any later moment); the ignore window
and the sliding window of exclusive host count ticks.

*Interleaving.* The RX thread and the work queue are cooperative threads, so the
RX thread runs inside a handler only where the handler waits for a Bluetooth
command: at each `bt_conn_disconnect` and `bt_conn_le_param_update` and at
`zmk_ble_adv_boost_rearm`. These are the step boundaries of `ScanDrop`/`ScanNote`,
`WatchStart`/`WatchDensified`, `WatchDrop`, `QuietStart`/`QuietDrop`/`QuietDone` and
`RefreshHost`. `usb_host_quiet.c` reads the cable once, in `QuietStart`, and goes on
dropping when it is pulled during its loop; `KeepsSelectedHost` states that exception.
The disconnected callback is deferred to the work queue, which is where `link = "lost"`
comes from.

*Abstractions.* `totem_hid_is_usb` is folded into `powered`. Whether ZMK drops the
old host itself at a switch is left open (both happen). `CONFIG_TOTEM_BOND_HEAL`
is off and `CONFIG_TOTEM_EVICT_REQUIRES_BONDED_ACTIVE` on, as in
`config/totem.conf`. Connections come and go without limit; switches, cable
changes, pauses of advertising and failing requests have budgets. `excused`, `densified`, `asked` and `refused` are history.
`EvictWindow` keeps the C arrays that `HostPolicy` abstracts to a list of ages.

### Dump, Studio USB and framing

A line is its kind, dump id and number. The transmit buffer has `TX_CAP` lines;
`dump_send` waits for room and may give up; any line may be lost; while nobody
reads, the oldest lines are dropped. Each dump has its own id (the code takes the
uptime in milliseconds). The request of the reader arrives only while the endpoint
is on USB, which `StudioUsb` sees to: a listener schedules the work when the cable
or the endpoint changes, the work selects USB and retries at most `STUDIO_TRIES`
times. The cable may be pulled at any point and takes the port with it. `Framing`
works on bytes: the three special ones and plain ones, with the limit on the
payload length, lost bytes and a deframer that starts in mid-frame. There is no
checksum in the frame format, so what a byte lost *inside* a line does to its
number is outside both models.

### PostMortem and Watchdog

The record is its magic, whether its CRC matches, which fault it describes and the
label of the context it blames. A fault wipes the record, fills and seals it, and
reboots; a boot reads the cause register, records its flags, clears the register,
reports the record and invalidates it. Crashes, resets and power cuts strike between any two of these steps, also inside
the fault handler. A power cut leaves arbitrary bytes that do not match their CRC.
This is the image in which `totem_fault.c` owns the fatal error handler. `untold`
and `retold` are history: the causes of the resets that no boot has recorded, and those
that a boot recorded without getting to clear them.

`Watchdog` adds the channels in the code's order; any `task_wdt_add` may fail, and
then nobody is told to feed. Each context that runs feeds every third of the
timeout and may miss two feeds; one that stops never feeds again, and the channel
that runs out enters the fault handler with that context's label.
Where the timeout is a multiple of three (`RacesTimeout`; Kconfig allows it, the default
of 10000 ms is none), the third feed is due on the very tick of the timeout, and
whether it is in time is decided by the order of two timers: the promised tolerance of
two missed feeds does not hold there, and `Unserved` names this case as one in which a
channel of a running context may run out.

### Handoff

*State.* Of each handle `struct handoff_radio` (armed, setups, completed,
uncompleted); the observer's `tx_radio` (whether it has a pending packet, of which
handle); the radio itself, its END event and what CCM last encrypted (external);
the state of each link; the program counter of the wrapped `bt_conn_disconnect`.

*Actions.* Radio interrupts run to completion, one action each: setting up a
packet, encrypting one, END, the switch to another link, to receiving or to
advertising. `__wrap_bt_conn_disconnect` is three steps (arm, the call, disarm on
error), between which interrupts and the loss of the link may come; the
connection state hook writes the summary and disarms. The connection object may
meanwhile have become another link's (`call.live`).

*Abstractions.* Time stamps, the receive counters and the latency probe only add
recorded values. `sent` is history: the packets that were on the air.

### Diagnostics

`TimingInbox`: a capture stores under the spinlock (`Store`) and submits the work
after the unlock (`Submit`), so other contexts come between the two; an interrupt
does both at once. `timing_drain` takes one record at a time. `SecurityTiming`
runs exchanges (a security request, an LTK request that the host answers with the key or
refuses, an encryption change) through
the hooks they meet, in the interrupt, the thread that queues HCI events and the
one that takes them; the tests on packet formats are left to the environment, and of
the encryption PDUs of one procedure the one that starts it and the one queued by the
answer are modelled (a refusal queues none).
`HidReports` has the counters per profile and stage, modulo `TOTAL_MOD` (2^16 in
the code), the HOG queue with its evict-and-put-again on a full queue, the worker
with what it remembers between dequeue and notification, and `flush_counts`, which
visits the counters one by one while both threads go on counting. The worker finds the
connection of the selected profile (`HostFound`) and later looks up the profile of that
connection's peer (`Observed`): by then the selection may have moved on, and no profile
may hold the peer, in which case `count_event` counts nothing; `unmapped` and
`uncounted_up` are the history of what goes uncounted. The balances are over all profiles, so
they do not say to which profile a count belongs. `Diagnostics`
puts both reporters on one system work queue. `Loads` lists the inputs a behaviour
may be given, so that one run can hold several small loads instead of one that is
large in every direction.

## 3. Runs

| Run | States | Checks |
|---|---|---|
| `Journal` | 1.7M | types; `JournalOrdered`: blocks in flash keep their order; `DumpOldestFirst`: reading from `next_slot` is oldest first; `CounterCoversJournal`: a block that knows its boot is written only after the counter that numbers it, also when the writer runs while the boot is being counted; `NoLostWakeup`: an unsaved event always has a write coming; `SavedInRecordingOrder`: saved events are those recorded, once and in order; `NewestSurvives`: no step changes the newest valid block; `PreviousIsNewest`: the next boot reports the newest event; `ImplementsLog`: flash is a `DurableLog` |
| `JournalTiming` | 89k | `EventuallySaved`; `FallsSilent`: the journal stops writing when callbacks stop recording |
| `HostInactive` | 2.9M | exclusive build: `NoMissedScan`: no background host is overlooked; `RateLimited`: evictions respect window and cap; `KeepsSelectedHost`: the scan drops only mapped hosts of other profiles, while the selected one is there; lazy build: `ParamsFollowProfile`: every connected, mapped and encrypted host was asked for the parameters of its role, or the refresh that asks is due or still comes to it |
| `HostRecovery` | 331k | `NoStuckLadder`; `KeepsSelectedHost` for the ladder and the USB module; `LadderEnds`; `QuietOnUsb` |
| `EvictWindow` | 796k | `WinCountExact`, `SuspectExact`: the arrays count exactly what the complete histories contain |
| `Dump` | 356k | `CompleteMeansWhole`: an accepted dump is a whole snapshot; `ReaderSucceeds`: without loss it accepts one; `StudioListens`: with the cable in, the endpoint gets to USB unless refused to the last try |
| `Framing` | 11k | `Resynchronises`: a lost byte costs at most its frame and the next |
| `PostMortem` | 4.6M | `ReportedOnce`; `ReportsLatestFault`; `CauseIsOwn`: the flags a boot records name every reset not yet recorded, and again only those whose recording was cut short before the clear; `HangIsReal`: a reported hang names a context that had stopped |
| `Handoff` | 1.0M | `TxAccounted`: every termination packet is resolved once; `OnlyRealEnds`: only a packet that was on the air counts as completed; `ArmedOnlyInHandoff`; `SummaryComes` |
| `Diagnostics` | 1.2M | `CountsReported`: no count is lost to the summary; `ReportsAccounted`, `AllUpAccounted`: what is queued is dequeued, evicted or queued, what is dequeued is notified, failed, dropped or sent on a connection no profile holds; `InboxIsQueue`, `NothingVanishes`, `InboxServed`: the inbox is first-in first-out, drops only what it counts, and always has its drain coming; `CausalTrace`: the journal follows an exchange in the order of its causes |
| `HostLadderRace` | violation | `EvictAfterDensify`, see below |
| `HostOnlySelected` | violation | `OnlySelectedRemains`, see below |

**Two disagreements.** `HostLadderRace`: step 1 of the ladder waits for the
controller inside `zmk_ble_adv_boost_rearm`; if the selected host connects
meanwhile, the RX thread resets the ladder, and the handler then resumes and sets
`next_step = EVICT` all the same. If the host is lost again before that work
fires, arming is skipped ("already armed") and the new outage begins with
force-eviction instead of densified advertising, against the header of
`reconnect_watch.c`. `HostOnlySelected`: a background host that comes back inside
its ignore window is passed over by the scans its connection causes, and nothing
scans when the window ends; it stays connected beside the selected host, against
"Only the selected host remains connected" (`STABLE-BASELINE.md`).

Other differences between text and code that were met, without a run: nothing
calls the scan with `force` (`exclusive_host.c:274`) although the help of
`BG_EVICT_IGNORE_MS` says a profile switch evicts immediately; the help of
`THRASH_DETECT` says it does not change eviction, but the cap at
`exclusive_host.c:287-297` is part of it; `docs/diagnostics.md:14` names a
ten-second interval where `config/totem.conf` sets 300000 ms; one failed
authentication can be counted twice by the class A detection (once by
`security_changed`, once by the disconnect reason); when only some watchdog
channels can be added, `totem_watchdog_init` calls the watchdog disabled while the
added channels run unfed.

**Bounds, and why they are enough.** `Journal` has a ring of two, blocks of
two and three records to a boot, so the ring wraps, and overwrites records that were not
saved, before and after the restore; three
slots and four writes, so a slot is reused and one of them can be ruined, by a
failed save or by a reset, while two others hold blocks whose order matters; a
recorder, the boot thread and the work queue meet at every unlock. What a second
recorder or a second reset would add is covered by the proofs, which bound
neither. `JournalTiming` bounds writes by eight; a writer that
reaches the bound is stuck in the middle of its handler and not silent, so the bound
cannot hide an endless one. The host runs use two profiles,
one selected and one in the background, because no property relates two
background hosts except the cap, which is reached by one host coming back; the ring of
evictions has three places and the cap is two, so that the cap and not the ring is
what limits them; link events are not bounded. `HostInactive` runs the exclusive and
the lazy host, one build of the firmware each (the variable `build`, chosen at the start:
the lazy option depends on the exclusive one being off), `HostRecovery` the ladder with
the USB module and neither of them; the proofs hold for every combination. `EvictWindow` has rings of three and five
events, so both wrap and are pruned at either end of their windows. `Dump` has two
dumps, of which the reader may join either, loses one line and gives one dump up;
the cable moves once and USB may be refused twice. `Framing` has payloads up to
the limit and three lost bytes. `PostMortem` has two faults and two resets: a
fault in the handler or in the report of another, a reset around either, and two resets
between reading, recording and clearing the cause; a timeout of four
ticks has a feed interval of one tick, so a context may miss two feeds and still be in time.
`Handoff` makes two links, on two handles of which one is encrypted, or both on the
same handle, and has counters that saturate at two. `Diagnostics` has a report queue of one, so the
second report evicts; totals that wrap at three; an inbox of two, which two exchanges
overflow until the dropped count saturates. `CHECK_DEADLOCK FALSE` is
set where the system does stop: a reader that has exited, a board that runs and
does not fault, a load that is used up.

**Fairness.** `Journal`: as long as a thread that started a call, the work queue or a timer
has something to do, one of them goes on; which one is left open, and
nothing obliges a callback to record, a save to succeed or the board to reset. `HostPolicy`: a started handler goes on (weak);
queued work is served (strong, because the queue is first-in first-out but each
of several items disables the others while it runs); timers expire; the
controller completes a requested disconnect. Nothing obliges a host to connect
or to go. `RecoverySpec` is the part of it that `LadderEnds` and `QuietOnUsb` need.
`DumpProtocol`: the dump queue proceeds while the buffer has room, the system
work queue serves the selection of USB, the reader opens the port and reads, and
the request arrives once the port listens. All other specifications state
safety only.

## 4. Proofs

Every theorem holds for all values of the constants that satisfy the assumption
named in the module that declares them (sizes positive, at least two journal slots and
two entries of the eviction ring, budgets natural numbers); the bounds of section 3 do not limit it. Each proof has one
lemma per action and, where an action disturbs several conjuncts, one step per conjunct.

**`JournalProofs`**, for any ring, block and slot size and any number of threads,
inputs, resets and failed saves: `JournalTypeCorrect` (`[]TypeOK`),
`JournalOrderCorrect` (`[]JournalOrdered`), `NewestBlockSurvives` (`NewestSurvives`).
`JournalOrdered` speaks of flash only, and no step's guard does: what keeps it is
what the RAM bookkeeping knows about flash. The inductive invariant is
`TypeOK /\ OrderInv`, where `OrderInv` adds to `JournalOrdered`: `LoadInv` (nothing is
written before everything is restored), `CoverInv` (`journal_seq` and
`persisted_event_seq` are at least those of every restored block), `WriteInv` (the
block being written starts after them), and `NextSlotInv` (`next_slot` follows the
newest block seen so far; this is what makes the slot about to be overwritten not
the newest one). `TypeOK` alone is not inductive either: `persist_block` must be
a valid block while it is written.

The storage as a log: `JournalIsDurableLog` (`Spec => ImplementsLog`, the
refinement), `DumpInOrder` (`DumpOldestFirst`), `BootNumbersCovered`
(`CounterCoversJournal`). That the block given up is the oldest needs more than the
order of the numbers: `RoundInv` says that flash is one round of the writer, so that
walking the slots from the one after the newest meets the blocks in the order they
were written. `RestoredInv` carries this over to what RAM remembers (RAM and flash agree outside
`next_slot`, and the block RAM keeps for `next_slot` is older than all others),
`CounterInv` relates the counter in RAM to the saved one (equal once loaded, one
ahead from `BootCounted` until the save) and the block being written to both: it tells of no
boot when it was copied before `BootCounted`, even if its write ends after it.

The events: `NoWakeupLost` (`NoLostWakeup`), `SavedAsRecorded`
(`SavedInRecordingOrder`), `PreviousBootFound` (`PreviousIsNewest`). `WakeInv` adds to
the wakeup that a running timer has at least one tick left and that a caller's
delay is positive unless it is urgent: no reschedule turns a coming write into none. `IdInv` relates identities to sequence numbers in the ring, in
flash, in the block being written and between them, read backwards from the newest
event, because the ring's start moves at every wrap.

**`HostPolicyProofs`**, for any set of profiles, configuration and budget:
`LadderNeverStuck` (`NoStuckLadder`), inductive once every handler is shown to leave
the ladder "sound" (`LadderSound`: disarmed or scheduled); `SelectedHostKept`
(`KeepsSelectedHost`), from the typing of the link state (`LinkOK`) and the fact that
each module that drops hosts reads the active profile again right before it requests a
disconnect. The exception is `usb_host_quiet.c`, for which `QuietInv` shows that its loop
runs with the cable in or that a cable event has scheduled its work again.
`ParametersFollow` (`ParamsFollowProfile`) is inductive with the types of the
links and of the refresh: every callback that makes a host eligible or changes its
role asks for a refresh. `NoScanMissed` (`NoMissedScan`) needs `ScanInv`, which also speaks
while a scan runs (a background host is excused, still to be visited, or a scan is
coming) and holds on USB too, because a scan on USB excuses what it passes.
`EvictionsRateLimited` (`RateLimited`) compares evictions that happened and says nothing
of the next one, so `RateInv` adds `IgnoredSince` (the age of a host's eviction and
what is left of its ignore window make up the whole window) and `EvictionAllowed`
(a host whose disconnect was requested and is still to be noted is neither ignored nor
over the cap; time that passes in between only helps).

**`EvictWindowProofs`**, for any window and threshold and every ring of at least two
entries: `WindowCountExact` (`WinCountExact`), `SuspectRecordedExactly`
(`SuspectExact`). Both say that an array gives the same answer as the complete history.
The invariant relates array and history by rank (`Newest`: the entry `i` places back is
the `i`-th newest event, and what is missing is older than all of them): `RingInv`
says that the ring forgets only when it is full, `FailInv` that the buffer also
forgets what is out of the window. Then the entries counted are in bijection with the
recent events, which gives the cardinality without induction over the ring. The lower
bound on the ring is needed: a ring of one could never show the two evictions that
clear the suspicion (the code has 16, `exclusive_host.c:97`).

**`HandoffProofs`**, for any number of handles, links and refusals:
`HandoffTypeCorrect`, `TransmissionsAccounted` (`TxAccounted`), `CompletionsAreReal`
(`OnlyRealEnds`), `NothingLeftArmed` (`ArmedOnlyInHandoff`), `HandoffSummarised`
(`SummaryComes`). The strengthening is `PendingInv` (a pending packet belongs to a link
that is no longer up, and is on the air or has just ended: so arming a handle
never resets the counters under a pending packet), `CipherInv` (what the observer took for
an encrypted termination packet is what CCM holds) and `CallInv` (the handle of a
disconnect call under way has no summary outstanding, and is armed while its connection is alive).

**`PostMortemProofs`**, for any number of faults and resets and every timeout of at least
three ticks, multiples of three included: `FaultReportedOnce`, `LatestFaultReported`,
`ReportedHangIsReal`, `ResetCauseIsOwn`. `RecordInv` says that the record matches its
CRC exactly from the end of a handler to the report or a power cut and then
describes the latest fault; `CountInv` that it was not reported before, unless a
reset struck between report and invalidation; `LabelInv` that its label is the
context that stopped; `WatchInv` that a context
that runs and feeds is never three feed intervals old, unless the third feed races with the
timeout. `CauseInv` says what the register holds at each point of the capture: the causes not
recorded and those recorded but not cleared, until the clear empties it.

**`DiagnosticsProofs`**, for any capacity, number of profiles and load:
`InboxQueueCorrect`, `NoRecordVanishes`, `InboxAlwaysServed`, `CountsAlwaysReported`.
The invariant is the conjunction of the three inbox properties with their
types (`InboxInv`), the well-formedness of what each thread's hook still has to do
(`HookInv`), and the types of the counters with `CountsReported` (`HidInv`).
`ReportsAlwaysAccounted` (`ReportsAccounted`) and `AllUpAlwaysAccounted`
(`AllUpAccounted`) hold modulo the width of the counters, for every width: a call of
`count_event` moves one unit from what a thread has still to count to a total. The sum over the
profiles is written as the size of a set of units, so that a step adds or removes one
element, or empties one profile's units when its total wraps. `OneHook` (a put that waits
has no count left to make; the worker is looking for the connection, holds it for its
report or notifies, never two of these) is what keeps two hooks from sharing a thread's list. `TraceIsCausal`
(`CausalTrace`) is about the journal, which is written after everything it describes:
`CausalInv` says that there is a rank `low` for each exchange such that whatever the
journal and the inbox have of it is below `low` and in order, and whatever a thread has
still to capture starts at `low`. It needs that an exchange is with one thread, or once
on the queue between them (`RxFrom`, `QueueFrom`, `HostFrom`).

**`DumpProofs`**, for any buffer, snapshot and number of dumps, losses and aborts:
`DumpTypeCorrect`, `AcceptedDumpIsWhole` (`CompleteMeansWhole`). `WireInv` says that
a begin line on the wire carries the size its own dump was begun with, and no line is
of a dump to come,
`VerifierInv` that a verifier without error has accepted exactly the lines below
`next_line` of the dump it follows.

**`FramingProofs`**, for payloads of any length over any bytes and any number of lost
bytes: `DeframerResynchronises` (`Resynchronises`) and `DeframerBounded` (`TypeOK`: the
buffer stays within the limit of `feed`). `FollowInv` says that from a clean start the deframer has
exactly the bytes sent so far; `EscapeInv` that within a frame without loss both sides
agree about the pending escape even when the deframer took the frame's start for data
of the one before, and `StartInv` that therefore a whole frame leaves a clean start. No
induction over the payload is needed, because a step sends one byte.

**Only model-checked.** Liveness (`FallsSilent`, `EventuallySaved`, `LadderEnds`,
`QuietOnUsb`, `ReaderSucceeds`, `StudioListens`), because the prover does not do
fairness or `ENABLED`. The two properties of the violation runs (`EvictAfterDensify`,
`OnlySelectedRemains`) are false of the code. Every invariant and every action property
of a passing run is proved. No theorem is about what a recursive definition computes: that would need
induction theorems with an operator parameter, which these provers cannot instantiate.

## 5. Not modelled

* Texts, formats and log lines; event contents.
* Battery, endpoint and connection-parameter logs: sampling and printing; the
  battery heartbeat is one more recorder of `Journal`.
* Bond healing, configured off.
* Boot diagnostics: the early capture of the reset reason for its text line; HID
  connection log: the first-time flags that thin its records out.
* Fault capture: the import of a crash record from the Studio log module
  (`fault_import_module_crash`, another image). Watchdog: the printed profile dump.
* Handoff: the receive counters, time stamps and the latency probe. Studio extras:
  the heartbeat, which prints.
* The desktop battery tool (Windows calls); keymap, Kconfig and the ZMK patch (data,
  or code of another repository).
* A failed disconnect in `usb_host_quiet.c` is never retried, so `QuietOnUsb` excuses
  a refused disconnect; `HostRecovery` runs without one.

## 6. Plan

Done, in this order: journal, host policy, eviction window, dump, framing, post
mortem; then the abstract log and its refinement, handoff, timing inbox and security
exchanges, HID counters, Studio USB, watchdog channels, lazy host, and the proofs of
all safety properties of the passing runs. What is left:

1. the safety parts of the liveness arguments (what each waiting process waits for is
   scheduled) where no theorem states them yet: `UsbHostQuiet` and `StudioUsb`;
2. the report's way from `PostMortem` into `Journal`: between the invalidation of the
   record and the journal's write a reset loses the report;
3. the receive side of the handoff observers; the alert latch of the battery tool.
