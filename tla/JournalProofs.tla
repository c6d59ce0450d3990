--------------------------- MODULE JournalProofs ---------------------------
(***************************************************************************)
(* Proofs about Journal for every ring, block and slot size, any number of *)
(* recording threads, and any number of resets and failed saves.           *)
(***************************************************************************)
EXTENDS Journal, TLAPS

\* A remainder is below its divisor.
LEMMA ModRange == ASSUME NEW a \in Nat, NEW n \in Nat \ {0} PROVE a % n \in 0 .. n - 1
  OBVIOUS

\* A record with the fields of struct totem_diag_block is a block.
LEMMA BlockType ==
    ASSUME NEW j \in Nat, NEW f \in Nat, NEW c \in 0 .. BLOCK_EVENTS, NEW b \in Nat,
           NEW e \in [0 .. BLOCK_EVENTS - 1 -> Nat]
    PROVE  [journal_seq |-> j, first_event_seq |-> f, count |-> c, boot |-> b, ev |-> e] \in Block
  BY DEF Block

\* An empty block is a block, and slot arithmetic stays within the slots.
LEMMA EmptyBlockType == EmptyBlock \in Block
  BY JournalAssumption DEF EmptyBlock, Block

\* The slot after a slot is a slot.
LEMMA SlotAfterType == ASSUME NEW s \in Slots PROVE SlotAfter(s) \in Slots
<1>1. s + 1 \in Nat /\ JOURNAL_SLOTS \in Nat \ {0}
  BY JournalAssumption DEF Slots
<1>. QED  BY <1>1, ModRange DEF SlotAfter, Slots

\* record_event keeps the ring's type, timing or not.
RingType ==
    /\ ring \in [0 .. RING_CAP - 1 -> Event] /\ ring_head \in 0 .. RING_CAP - 1
    /\ ring_count \in 0 .. RING_CAP /\ ring_seq \in Nat
    /\ events_since_persist \in 0 .. PERSIST_EVERY /\ recorded \in Nat

\* record_event keeps the ring, its head and its counters in range.
LEMMA InsertType == ASSUME TypeOK, NEW p \in BOOLEAN, Insert(p) PROVE RingType'
<1>. USE JournalAssumption DEF TypeOK, Insert, RingType
<1>1. ring' \in [0 .. RING_CAP - 1 -> Event]
  BY DEF Event
<1>2. ring_head' \in 0 .. RING_CAP - 1
  BY ModRange DEF NextHead
<1>3. events_since_persist' \in 0 .. PERSIST_EVERY
  BY DEF NeedPersist
<1>. QED  BY <1>1, <1>2, <1>3

\* The ring entry of any sequence number from the oldest one on is an event.
LEMMA RingEntryType ==
    ASSUME TypeOK, NEW seq \in Int, seq >= FirstAvailable PROVE RingEntry(seq) \in Event
<1>. USE JournalAssumption DEF TypeOK
<1>1. RingStart \in 0 .. RING_CAP - 1
  <2>1. ring_head + RING_CAP - ring_count \in Nat
    OBVIOUS
  <2>. QED  BY <2>1, ModRange DEF RingStart
<1>. DEFINE k == RingStart + (seq - FirstAvailable)
<1>2. k \in Nat
  BY <1>1 DEF FirstAvailable
<1>3. RingEntry(seq) = ring[k % RING_CAP]
  BY DEF RingEntry
<1>. HIDE DEF k
<1>4. k % RING_CAP \in 0 .. RING_CAP - 1
  BY <1>2, ModRange
<1>. QED  BY <1>3, <1>4

\* The block a write builds is a block that passes the checks of hevt_settings_set.
LEMMA NewBlockType ==
    ASSUME TypeOK, FirstNew <= ring_seq
    PROVE  NewBlock \in Block /\ Valid(NewBlock) /\ FirstNew \in Nat
           /\ FirstNew > persisted_event_seq
<1>. USE JournalAssumption DEF TypeOK
<1>1. FirstNew \in Nat /\ FirstNew > persisted_event_seq
  BY DEF FirstNew, FirstAvailable
<1>3. ASSUME NEW i \in Nat PROVE RingEntry(FirstNew + i).id \in Nat
  <2>1. FirstNew + i \in Int /\ FirstNew + i >= FirstAvailable
    BY <1>1 DEF FirstNew, FirstAvailable
  <2>. QED  BY <2>1, RingEntryType DEF Event
<1>4. \A i \in 0 .. BLOCK_EVENTS - 1 : RingEntry(FirstNew + i).id \in Nat
  BY <1>3
<1>. DEFINE pending == ring_seq - FirstNew + 1
            n == IF pending < BLOCK_EVENTS THEN pending ELSE BLOCK_EVENTS
            ev == [i \in 0 .. BLOCK_EVENTS - 1 |->
                     IF i < n THEN RingEntry(FirstNew + i).id ELSE 0]
<1>5. n \in 1 .. BLOCK_EVENTS
  BY <1>1
<1>. HIDE DEF n
<1>6. ev \in [0 .. BLOCK_EVENTS - 1 -> Nat]
  BY <1>4, <1>5
<1>7. NewBlock = [journal_seq |-> journal_seq + 1, first_event_seq |-> FirstNew, count |-> n,
                  boot |-> BootOfBlock, ev |-> ev]
  BY DEF NewBlock, n
<1>. HIDE DEF ev
<1>8. NewBlock \in Block
  <2>1. journal_seq + 1 \in Nat /\ BootOfBlock \in Nat /\ n \in 0 .. BLOCK_EVENTS
    BY <1>5 DEF BootOfBlock
  <2>. QED  BY <1>1, <1>6, <1>7, <2>1, BlockType
<1>9. NewBlock.count = n
  BY <1>7
<1>. QED  BY <1>1, <1>5, <1>8, <1>9 DEF Valid

\* The previous-boot evidence is an event identity or zero.
LEMMA PreviousEventType == ASSUME TypeOK PROVE PreviousEvent \in Nat
<1>. USE DEF TypeOK
<1>1. CASE NewestPairs = {}
  BY <1>1 DEF PreviousEvent
<1>2. CASE NewestPairs # {}
  <2>. DEFINE p == CHOOSE p \in NewestPairs : TRUE
  <2>1. p \in RestoredPairs
    BY <1>2 DEF NewestPairs
  <2>2. p[1] \in Slots /\ p[2] \in 0 .. BLOCK_EVENTS - 1
    BY <2>1 DEF RestoredPairs
  <2>3. restored_blocks[p[1]] \in Block
    BY <2>2
  <2>4. restored_blocks[p[1]].ev \in [0 .. BLOCK_EVENTS - 1 -> Nat]
    BY <2>3 DEF Block
  <2>5. restored_blocks[p[1]].ev[p[2]] \in Nat
    BY <2>2, <2>4
  <2>. QED  BY <1>2, <2>5 DEF PreviousEvent
<1>. QED  BY <1>1, <1>2

-----------------------------------------------------------------------------
(* Type correctness.                                                       *)

Call == [pc: {"idle", "sched", "call"}, urgent: BOOLEAN, wait: 0 .. PERSIST_MIN]

\* A thread outside schedule_persist_coalesced has a well-typed call.
LEMMA IdleCallType == IdleCall \in Call
  BY JournalAssumption DEF IdleCall, Call

\* Entering schedule_persist_coalesced keeps the calls well-typed.
LEMMA CallScheduleType ==
    ASSUME TypeOK, NEW t \in Threads, NEW u \in BOOLEAN, CallSchedule(t, u)
    PROVE  call' \in [Threads -> Call]
<1>1. [pc |-> "sched", urgent |-> u, wait |-> 0] \in Call
  BY JournalAssumption DEF Call
<1>2. call \in [Threads -> Call]
  BY DEF TypeOK, Call
<1>. QED  BY <1>1, <1>2 DEF CallSchedule

\* Spending a unit of a budget keeps the budgets natural numbers.
LEMMA SpendType ==
    ASSUME TypeOK, NEW b \in {"inputs", "crashes", "fails", "writes"}, NEW m, Spend(b, m)
    PROVE  used' \in [{"inputs", "crashes", "fails", "writes"} -> Nat]
<1>1. used \in [{"inputs", "crashes", "fails", "writes"} -> Nat]
  BY DEF TypeOK
<1>. QED  BY <1>1 DEF Spend

\* Replacing one slot of flash by a block keeps flash well formed.
LEMMA FlashUpdateType ==
    ASSUME TypeOK, NEW b \in Block, NEW s \in Slots
    PROVE  [flash EXCEPT ![s] = b] \in [Slots -> Block]
  BY DEF TypeOK

\* The parts of the type invariant, by groups of variables.
SavedType ==
    /\ persisted_event_seq \in Nat /\ journal_seq \in Nat /\ next_slot \in Slots
    /\ restored_blocks \in [Slots -> Block]
BootType ==
    /\ boot_count \in Nat /\ counter_pending \in BOOLEAN /\ previous \in Nat
    /\ boot_pc \in {"loading", "restored", "events", "done"} /\ boot_left \in 0 .. BOOT_EVENTS
    /\ boot_urgent \in BOOLEAN /\ loaded \in SUBSET SettingsKeys
FlashType == flash \in [Slots -> Block] /\ flash_count \in Nat /\ counter_failed \in BOOLEAN
WorkType  == persist_queued \in BOOLEAN /\ persist_timer \in -1 .. PERSIST_MIN
CtlType ==
    /\ persist_requested \in BOOLEAN /\ journal_ready \in BOOLEAN
    /\ since_persist \in 0 .. PERSIST_MIN /\ persist_block \in Block
    /\ timing_count \in 0 .. TIMING_CAP
CallType  == call \in [Threads -> Call]
SysType   == sys_pc \in {"idle", "drain", "persist", "counter", "block", "saved", "failed"}
UsedType  == used \in [{"inputs", "crashes", "fails", "writes"} -> Nat]

\* The type invariant gives each of its parts.
LEMMA TypeSplit ==
    ASSUME TypeOK
    PROVE  RingType /\ SavedType /\ BootType /\ FlashType /\ WorkType /\ CtlType /\ CallType
           /\ SysType /\ UsedType
  BY DEF TypeOK, RingType, SavedType, BootType, FlashType, WorkType, CtlType, CallType, Call,
         SysType, UsedType

\* The parts together, after a step, give the type invariant after it.
LEMMA TypeJoin ==
    ASSUME RingType', SavedType', BootType', FlashType', WorkType', CtlType', CallType',
           SysType', UsedType'
    PROVE  TypeOK'
  BY DEF TypeOK, RingType, SavedType, BootType, FlashType, WorkType, CtlType, CallType, Call,
         SysType, UsedType

\* A part whose variables a step leaves alone stays.
LEMMA TypeFrame ==
    ASSUME TypeOK
    PROVE  /\ UNCHANGED ringVars => RingType'
           /\ UNCHANGED savedVars => SavedType'
           /\ UNCHANGED bootVars => BootType'
           /\ UNCHANGED flashVars => FlashType'
           /\ UNCHANGED workVars => WorkType'
           /\ UNCHANGED ctlVars => CtlType'
           /\ UNCHANGED call => CallType'
           /\ UNCHANGED sys_pc => SysType'
           /\ UNCHANGED used => UsedType'
<1>1. UNCHANGED ringVars => RingType'
  BY TypeSplit DEF RingType, ringVars
<1>2. UNCHANGED savedVars => SavedType'
  BY TypeSplit DEF SavedType, savedVars
<1>3. UNCHANGED bootVars => BootType'
  BY TypeSplit DEF BootType, bootVars
<1>4. UNCHANGED flashVars => FlashType'
  BY TypeSplit DEF FlashType, flashVars
<1>5. UNCHANGED workVars => WorkType'
  BY TypeSplit DEF WorkType, workVars
<1>6. UNCHANGED ctlVars => CtlType'
  BY TypeSplit DEF CtlType, ctlVars
<1>7. /\ UNCHANGED call => CallType'
      /\ UNCHANGED sys_pc => SysType'
      /\ UNCHANGED used => UsedType'
  BY TypeSplit DEF CallType, SysType, UsedType
<1>. QED  BY <1>1, <1>2, <1>3, <1>4, <1>5, <1>6, <1>7

\* While a write is under way its block passes the checks of hevt_settings_set.
BlockPending == sys_pc \in {"counter", "block", "saved"} => Valid(persist_block)

\* Every action keeps the type invariant.
LEMMA TypeStep == TypeOK /\ BlockPending /\ [Next]_vars => TypeOK'
<1>. SUFFICES ASSUME TypeOK, BlockPending, [Next]_vars PROVE TypeOK'
  OBVIOUS
<1>0. Main \in Threads /\ Sys \in Threads /\ Recorders \subseteq Threads
  BY DEF Threads
<1>u. CASE UNCHANGED vars
  BY <1>u DEF vars, ringVars, storeVars, savedVars, bootVars, flashVars, workVars, ctlVars, TypeOK
<1>. USE DEF ringVars, storeVars, savedVars, bootVars, flashVars, workVars, ctlVars
<1>1. ASSUME NEW t \in Recorders, Record(t) PROVE TypeOK'
  <2>1. NeedPersist \in BOOLEAN
    BY DEF NeedPersist
  <2>2. call' \in [Threads -> Call]
    BY <1>0, <1>1, <2>1, CallScheduleType DEF Record
  <2>3. used' \in [{"inputs", "crashes", "fails", "writes"} -> Nat]
    BY <1>1, SpendType DEF Record
  <2>4. RingType'
    BY <1>1, InsertType DEF Record
  <2>5. UNCHANGED <<savedVars, bootVars, flashVars, workVars, ctlVars, sys_pc>>
    BY <1>1 DEF Record, storeVars
  <2>. QED  BY <2>2, <2>3, <2>4, <2>5, TypeFrame, TypeJoin DEF CallType, UsedType
<1>2. ASSUME NEW t \in Recorders, RecordTiming(t) PROVE TypeOK'
  <2>1. used' \in [{"inputs", "crashes", "fails", "writes"} -> Nat]
    BY <1>2, SpendType DEF RecordTiming
  <2>2. RingType'
    BY <1>2, InsertType DEF RecordTiming
  <2>3. UNCHANGED <<savedVars, bootVars, flashVars, workVars, ctlVars, call, sys_pc>>
    BY <1>2 DEF RecordTiming, storeVars
  <2>. QED  BY <2>1, <2>2, <2>3, TypeFrame, TypeJoin DEF UsedType
<1>3. ASSUME NEW t \in Threads, SchedulePersist(t) PROVE TypeOK'
  <2>1. call[t] \in Call
    BY DEF TypeOK, Call
  <2>2. WaitTicks(call[t].urgent) \in 0 .. PERSIST_MIN
    BY JournalAssumption DEF WaitTicks, TypeOK
  <2>3. [pc |-> "call", urgent |-> call[t].urgent, wait |-> WaitTicks(call[t].urgent)] \in Call
    BY <2>1, <2>2 DEF Call
  <2>4. call' \in [Threads -> Call]
    BY <1>3, <2>3, IdleCallType DEF SchedulePersist, TypeOK, Call
  <2>5. UNCHANGED <<ringVars, savedVars, bootVars, flashVars, workVars, used, sys_pc>>
    BY <1>3 DEF SchedulePersist
  <2>6. CtlType'
    BY <1>3, TypeSplit DEF SchedulePersist, CtlType
  <2>. QED  BY <2>4, <2>5, <2>6, TypeFrame, TypeJoin DEF CallType
<1>4. ASSUME NEW t \in Threads, ScheduleWork(t) PROVE TypeOK'
  <2>1. call[t].wait \in 0 .. PERSIST_MIN
    BY DEF TypeOK
  <2>2. call' \in [Threads -> Call]
    BY <1>4, IdleCallType DEF ScheduleWork, TypeOK, Call
  <2>3. persist_timer' \in -1 .. PERSIST_MIN /\ persist_queued' \in BOOLEAN
    BY <1>4, <2>1, JournalAssumption DEF ScheduleWork, TypeOK, NONE
  <2>4. UNCHANGED <<ringVars, savedVars, bootVars, flashVars, ctlVars, used, sys_pc>>
    BY <1>4 DEF ScheduleWork
  <2>. QED  BY <2>2, <2>3, <2>4, TypeFrame, TypeJoin DEF CallType, WorkType
<1>5. CASE Tick
  <2>1. persist_timer' \in -1 .. PERSIST_MIN /\ since_persist' \in 0 .. PERSIST_MIN
    BY <1>5, JournalAssumption DEF Tick, TypeOK, NONE
  <2>2. UNCHANGED <<ringVars, savedVars, bootVars, flashVars, call, used, sys_pc>>
    BY <1>5 DEF Tick
  <2>3. WorkType' /\ CtlType'
    BY <1>5, <2>1, TypeSplit DEF Tick, WorkType, CtlType
  <2>. QED  BY <2>2, <2>3, TypeFrame, TypeJoin
<1>6. CASE FlushCounts
  <2>1. used' \in [{"inputs", "crashes", "fails", "writes"} -> Nat]
    BY <1>6, SpendType DEF FlushCounts
  <2>2. RingType'
    BY <1>6, InsertType DEF FlushCounts
  <2>3. UNCHANGED <<savedVars, bootVars, flashVars, workVars, ctlVars, call>> /\ SysType'
    BY <1>6 DEF FlushCounts, SysType
  <2>. QED  BY <2>1, <2>2, <2>3, TypeFrame, TypeJoin DEF UsedType
<1>7. CASE PersistWork
  BY <1>7 DEF PersistWork, TypeOK
<1>8. CASE PersistSkip
  <2>1. call' \in [Threads -> Call]
    BY <1>0, <1>8, CallScheduleType DEF PersistSkip, TypeOK, Call
  <2>2. UNCHANGED <<ringVars, savedVars, bootVars, flashVars, workVars, used>> /\ SysType'
    BY <1>8 DEF PersistSkip, SysType
  <2>3. CtlType'
    BY <1>8, TypeSplit DEF PersistSkip, CtlType
  <2>. QED  BY <2>1, <2>2, <2>3, TypeFrame, TypeJoin DEF CallType
<1>9. CASE PersistBegin
  <2>1. used' \in [{"inputs", "crashes", "fails", "writes"} -> Nat]
    BY <1>9, SpendType DEF PersistBegin
  <2>2. persist_block' \in Block
    BY <1>9, NewBlockType DEF PersistBegin
  <2>3. UNCHANGED <<ringVars, bootVars, flashVars, workVars, persisted_event_seq, next_slot,
                    restored_blocks, journal_ready, since_persist, timing_count, call>>
    BY <1>9 DEF PersistBegin
  <2>4. journal_seq' \in Nat
    BY <1>9 DEF PersistBegin, TypeOK
  <2>5. persist_requested' \in BOOLEAN /\ sys_pc' = "counter"
    BY <1>9 DEF PersistBegin
  <2>. QED  BY <2>1, <2>2, <2>3, <2>4, <2>5 DEF TypeOK
<1>10. CASE CounterSkip
  BY <1>10 DEF CounterSkip, TypeOK
<1>11. CASE CounterSave
  <2>1. used' \in [{"inputs", "crashes", "fails", "writes"} -> Nat]
    BY <1>11, SpendType DEF CounterSave, TypeOK
  <2>2. timing_count' \in 0 .. TIMING_CAP
    BY <1>11, JournalAssumption DEF CounterSave, CaptureSave, TypeOK
  <2>3. flash_count' \in Nat /\ counter_pending' \in BOOLEAN /\ counter_failed' \in BOOLEAN
    BY <1>11 DEF CounterSave, TypeOK
  <2>. QED  BY <1>11, <2>1, <2>2, <2>3 DEF CounterSave, TypeOK
<1>12. CASE BlockSaved
  <2>1. flash' \in [Slots -> Block]
    BY <1>12, FlashUpdateType DEF BlockSaved, TypeOK
  <2>. QED  BY <1>12, <2>1, JournalAssumption DEF BlockSaved, CaptureSave, TypeOK
<1>13. CASE BlockFailed
  <2>1. used' \in [{"inputs", "crashes", "fails", "writes"} -> Nat]
    BY <1>13, SpendType DEF BlockFailed
  <2>2. flash' \in [Slots -> Block]
    BY <1>13, FlashUpdateType, EmptyBlockType DEF BlockFailed, TypeOK
  <2>. QED  BY <1>13, <2>1, <2>2, JournalAssumption DEF BlockFailed, CaptureSave, TypeOK
<1>14. CASE PersistEnd
  <2>1. call' \in [Threads -> Call]
    BY <1>0, <1>14, CallScheduleType DEF PersistEnd, TypeOK, Call
  <2>2. persisted_event_seq' \in Nat
    <3>1. CASE sys_pc = "saved"
      <4>1. persist_block.first_event_seq \in Nat /\ persist_block.count \in 1 .. BLOCK_EVENTS
        <5>1. persist_block \in Block
          BY DEF TypeOK
        <5>. QED  BY <3>1, <5>1 DEF BlockPending, Valid, Block
      <4>. QED  BY <1>14, <3>1, <4>1, JournalAssumption DEF PersistEnd, LastSeq
    <3>2. CASE sys_pc = "failed"
      BY <1>14, <3>2 DEF PersistEnd, TypeOK
    <3>. QED  BY <1>14, <3>1, <3>2 DEF PersistEnd
  <2>3. next_slot' \in Slots
    BY <1>14, SlotAfterType DEF PersistEnd, TypeOK
  <2>4. restored_blocks' \in [Slots -> Block]
    BY <1>14 DEF PersistEnd, TypeOK
  <2>5. persist_block' \in Block /\ since_persist' \in 0 .. PERSIST_MIN
    BY <1>14, EmptyBlockType, JournalAssumption DEF PersistEnd
  <2>6. persist_requested' \in BOOLEAN
    BY <1>14 DEF PersistEnd, TypeOK
  <2>. QED  BY <1>14, <2>1, <2>2, <2>3, <2>4, <2>5, <2>6 DEF PersistEnd, TypeOK, Call
<1>15. CASE TimingDrain
  <2>1. RingType'
    BY <1>15, InsertType DEF TimingDrain
  <2>2. timing_count' \in 0 .. TIMING_CAP
    BY <1>15, JournalAssumption DEF TimingDrain, TypeOK
  <2>3. UNCHANGED <<savedVars, bootVars, flashVars, workVars, used, call>> /\ SysType'
    BY <1>15 DEF TimingDrain, SysType
  <2>4. CtlType'
    BY <1>15, <2>2, TypeSplit DEF TimingDrain, CtlType
  <2>. QED  BY <2>1, <2>3, <2>4, TypeFrame, TypeJoin
<1>16. ASSUME NEW s \in Slots, LoadSlot(s) PROVE TypeOK'
  <2>1. flash[s] \in Block
    BY DEF TypeOK
  <2>2. LastSeq(flash[s]) \in Int /\ flash[s].journal_seq \in Nat
    BY <2>1, JournalAssumption DEF LastSeq, Block
  <2>3. persisted_event_seq' \in Nat
    BY <1>16, <2>2 DEF LoadSlot, TypeOK
  <2>4. next_slot' \in Slots /\ journal_seq' \in Nat
    BY <1>16, <2>2, SlotAfterType DEF LoadSlot, TypeOK
  <2>5. restored_blocks' \in [Slots -> Block]
    BY <1>16, <2>1 DEF LoadSlot, TypeOK
  <2>6. UNCHANGED <<ringVars, flashVars, workVars, ctlVars, call, used, sys_pc>>
    BY <1>16 DEF LoadSlot
  <2>7. BootType'
    BY <1>16, TypeSplit DEF LoadSlot, BootType, SettingsKeys
  <2>. QED  BY <2>3, <2>4, <2>5, <2>6, <2>7, TypeFrame, TypeJoin DEF SavedType
<1>17. CASE LoadCounter
  BY <1>17 DEF LoadCounter, TypeOK, SettingsKeys
<1>18. CASE SettingsLoaded
  <2>1. previous' \in Nat
    BY <1>18, PreviousEventType DEF SettingsLoaded
  <2>2. ring_seq' \in Nat
    BY <1>18, JournalAssumption DEF SettingsLoaded, TypeOK
  <2>. QED  BY <1>18, <2>1, <2>2 DEF SettingsLoaded, TypeOK
<1>19. CASE BootRecord
  <2>1. NeedPersist \in BOOLEAN
    BY DEF NeedPersist
  <2>2. call' \in [Threads -> Call]
    BY <1>0, <1>19, <2>1, CallScheduleType DEF BootRecord
  <2>3. RingType'
    BY <1>19, InsertType DEF BootRecord
  <2>4. boot_left' \in 0 .. BOOT_EVENTS
    BY <1>19, JournalAssumption DEF BootRecord, TypeOK
  <2>5. UNCHANGED <<savedVars, flashVars, workVars, ctlVars, used, sys_pc>>
    BY <1>19 DEF BootRecord
  <2>6. BootType'
    BY <1>19, <2>4, TypeSplit DEF BootRecord, BootType
  <2>. QED  BY <2>2, <2>3, <2>5, <2>6, TypeFrame, TypeJoin DEF CallType
<1>20. CASE BootDone
  <2>1. call' \in [Threads -> Call]
    BY <1>0, <1>20, CallScheduleType DEF BootDone, TypeOK, Call
  <2>2. UNCHANGED <<ringVars, savedVars, flashVars, workVars, ctlVars, used, sys_pc>>
    BY <1>20 DEF BootDone
  <2>3. BootType'
    BY <1>20, TypeSplit DEF BootDone, BootType
  <2>. QED  BY <2>1, <2>2, <2>3, TypeFrame, TypeJoin DEF CallType
<1>21. CASE BootCounted
  <2>1. UNCHANGED <<ringVars, savedVars, flashVars, workVars, ctlVars, used, call, sys_pc>>
    BY <1>21 DEF BootCounted
  <2>2. boot_count' \in Nat /\ boot_left' \in 0 .. BOOT_EVENTS
    BY <1>21, JournalAssumption DEF BootCounted, CountBoot, TypeOK
  <2>3. BootType'
    BY <1>21, <2>2, TypeSplit DEF BootCounted, CountBoot, BootType
  <2>. QED  BY <2>1, <2>3, TypeFrame, TypeJoin
<1>22. CASE Crash
  <2>1. used' \in [{"inputs", "crashes", "fails", "writes"} -> Nat]
    BY <1>22, SpendType DEF Crash
  <2>2. flash' \in [Slots -> Block]
    <3>1. CASE sys_pc = "block"
      <4>1. \E left \in {flash[next_slot], EmptyBlock, persist_block} :
                flash' = [flash EXCEPT ![next_slot] = left]
        BY <1>22, <3>1 DEF Crash
      <4>. QED  BY <4>1, FlashUpdateType, EmptyBlockType DEF TypeOK
    <3>2. CASE sys_pc # "block"
      BY <1>22, <3>2 DEF Crash, TypeOK
    <3>. QED  BY <3>1, <3>2
  <2>3. RingType'
    BY <1>22, JournalAssumption DEF Crash, RingType, TypeOK, ZeroEvent, Event
  <2>4. call' \in [Threads -> Call]
    BY <1>22, IdleCallType DEF Crash
  <2>5. restored_blocks' \in [Slots -> Block] /\ persist_block' \in Block
    BY <1>22, EmptyBlockType DEF Crash
  <2>6. flash_count' \in Nat /\ counter_failed' \in BOOLEAN
    <3>1. flash_count' \in {0, flash_count, boot_count} /\ counter_failed' \in {TRUE, counter_failed}
      <4>1. CASE sys_pc = "counter" /\ counter_pending
        BY <1>22, <4>1 DEF Crash
      <4>2. CASE ~(sys_pc = "counter" /\ counter_pending)
        BY <1>22, <4>2 DEF Crash
      <4>. QED  BY <4>1, <4>2
    <3>2. flash_count \in Nat /\ boot_count \in Nat
      BY DEF TypeOK
    <3>3. flash_count' \in Nat
      BY <3>1, <3>2
    <3>4. counter_failed' \in BOOLEAN
      BY <3>1, Zenon DEF TypeOK
    <3>. QED  BY <3>3, <3>4
  <2>7. next_slot' \in Slots /\ since_persist' \in 0 .. PERSIST_MIN
        /\ persist_timer' \in -1 .. PERSIST_MIN /\ timing_count' \in 0 .. TIMING_CAP
        /\ boot_left' \in 0 .. BOOT_EVENTS
    <3>1. /\ next_slot' = 0 /\ since_persist' = PERSIST_MIN /\ persist_timer' = NONE
          /\ timing_count' = 0 /\ boot_left' = 0
      BY <1>22 DEF Crash
    <3>. QED  BY <3>1, JournalAssumption DEF Slots, NONE
  <2>. QED  BY <1>22, <2>1, <2>2, <2>3, <2>4, <2>5, <2>6, <2>7 DEF Crash, TypeOK, RingType, Call
<1>. QED
  BY <1>u, <1>1, <1>2, <1>3, <1>4, <1>5, <1>6, <1>7, <1>8, <1>9, <1>10, <1>11, <1>12, <1>13,
     <1>14, <1>15, <1>16, <1>17, <1>18, <1>19, <1>20, <1>21, <1>22
  DEF Next, ThreadStep, Writer, Boot

-----------------------------------------------------------------------------
(* Order of the saved blocks.                                              *)

\* With two slots or more, the slot after a slot is another one.
LEMMA SlotAfterDiffers == ASSUME NEW s \in Slots PROVE SlotAfter(s) # s
<1>1. s \in Nat /\ s < JOURNAL_SLOTS /\ JOURNAL_SLOTS \in Nat /\ JOURNAL_SLOTS >= 2
  BY JournalAssumption DEF Slots
<1>2. CASE s + 1 < JOURNAL_SLOTS
  BY <1>1, <1>2 DEF SlotAfter
<1>3. CASE s + 1 = JOURNAL_SLOTS
  BY <1>1, <1>3 DEF SlotAfter
<1>. QED  BY <1>1, <1>2, <1>3

\* The fields of the blocks in flash and of the block being written.
LEMMA FlashTypes ==
    ASSUME TypeOK, NEW s \in Slots
    PROVE  /\ flash[s] \in Block /\ flash[s].journal_seq \in Nat
           /\ flash[s].first_event_seq \in Nat /\ flash[s].count \in Nat
           /\ LastSeq(flash[s]) \in Int
<1>1. flash[s] \in Block
  BY DEF TypeOK
<1>2. flash[s].journal_seq \in Nat /\ flash[s].first_event_seq \in Nat /\ flash[s].count \in Nat
  BY <1>1, JournalAssumption DEF Block
<1>. QED  BY <1>1, <1>2 DEF LastSeq

frameVars == <<flash, loaded, journal_ready, boot_pc, journal_seq, persisted_event_seq,
               next_slot, persist_block>>

\* Steps that move no bookkeeping keep the invariant.
LEMMA FrameStep ==
    ASSUME OrderInv, UNCHANGED frameVars,
           \/ sys_pc' = sys_pc
           \/ {sys_pc, sys_pc'} \subseteq {"idle", "persist", "drain"}
           \/ sys_pc = "counter" /\ sys_pc' = "block"
    PROVE  OrderInv'
<1>. USE DEF OrderInv, frameVars
<1>1. LoadInv'
  BY DEF LoadInv
<1>2. WriteInv'
  BY DEF WriteInv, Valid
<1>3. CoverInv'
  BY DEF CoverInv, Covered, Valid, LastSeq
<1>4. NextSlotInv'
  BY DEF NextSlotInv, Newest, Valid, SlotAfter
<1>5. JournalOrdered'
  BY DEF JournalOrdered, Valid, LastSeq
<1>. QED  BY <1>1, <1>2, <1>3, <1>4, <1>5

\* The first critical section of totem_host_event_log_persist.
LEMMA PersistBeginStep == ASSUME TypeOK, OrderInv, PersistBegin PROVE OrderInv'
<1>. USE DEF OrderInv
<1>0. /\ UNCHANGED <<flash, loaded, journal_ready, boot_pc, persisted_event_seq, next_slot>>
      /\ journal_seq' = journal_seq + 1 /\ persist_block' = NewBlock
      /\ sys_pc = "persist" /\ sys_pc' = "counter" /\ journal_ready /\ FirstNew <= ring_seq
  BY DEF PersistBegin, bootVars, flashVars
<1>1. /\ Valid(NewBlock) /\ NewBlock.journal_seq = journal_seq + 1
      /\ NewBlock.first_event_seq = FirstNew /\ FirstNew > persisted_event_seq
  BY <1>0, NewBlockType DEF NewBlock
<1>2. \A s \in Slots : s \in loaded /\ Covered(s)
  BY <1>0 DEF LoadInv, CoverInv, SettingsKeys
<1>3. journal_seq \in Nat
  BY DEF TypeOK
<1>4. \A s \in Slots : Valid(flash[s]) => flash[s].journal_seq < journal_seq + 1
  BY <1>2, <1>3, FlashTypes DEF Covered
<1>5. LoadInv'
  BY <1>0 DEF LoadInv
<1>6. WriteInv'
  BY <1>0, <1>1, <1>4 DEF WriteInv, Valid
<1>7. CoverInv'
  <2>1. ASSUME NEW s \in Slots, Valid(flash[s])
        PROVE  flash[s].journal_seq <= journal_seq + 1
    BY <1>3, <1>4, <2>1, FlashTypes
  <2>. QED  BY <1>0, <1>2, <2>1 DEF CoverInv, Covered, Valid, LastSeq
<1>8. NextSlotInv'
  BY <1>0 DEF NextSlotInv, Newest, Valid, SlotAfter
<1>9. JournalOrdered'
  BY <1>0 DEF JournalOrdered, Valid, LastSeq
<1>. QED  BY <1>5, <1>6, <1>7, <1>8, <1>9

\* The slot about to be written does not hold the newest block.
LEMMA WriteSparesNewest ==
    ASSUME TypeOK, OrderInv, sys_pc = "block", NEW s \in Slots, Valid(flash[s]),
           \A t \in Slots : Valid(flash[t]) => flash[t].journal_seq <= flash[s].journal_seq
    PROVE  s # next_slot
<1>1. loaded = SettingsKeys
  BY DEF OrderInv, LoadInv
<1>2. Newest(s)
  BY <1>1 DEF Newest, SettingsKeys
<1>. QED  BY <1>2, SlotAfterDiffers DEF OrderInv, NextSlotInv

\* Clearing the slot about to be written, or leaving it, keeps the blocks ordered
\* and next_slot after the newest of them.
LEMMA ClearSlot ==
    ASSUME TypeOK, OrderInv, sys_pc = "block", NEW left \in {flash[next_slot], EmptyBlock},
           flash' = [flash EXCEPT ![next_slot] = left]
    PROVE  /\ JournalOrdered'
           /\ \A s \in Slots : Valid(flash'[s]) => Valid(flash[s]) /\ flash'[s] = flash[s]
<1>1. ~Valid(EmptyBlock)
  BY DEF Valid, EmptyBlock
<1>2. next_slot \in Slots /\ flash \in [Slots -> Block]
  BY DEF TypeOK
<1>3. \A s \in Slots : Valid(flash'[s]) => Valid(flash[s]) /\ flash'[s] = flash[s]
  BY <1>1, <1>2
<1>4. JournalOrdered'
  BY <1>3 DEF OrderInv, JournalOrdered, Valid, LastSeq
<1>. QED  BY <1>3, <1>4

\* A save that reports an error.
LEMMA BlockFailedStep == ASSUME TypeOK, OrderInv, BlockFailed PROVE OrderInv'
<1>0. /\ UNCHANGED <<loaded, journal_ready, boot_pc, journal_seq, persisted_event_seq,
                     next_slot, persist_block>>
      /\ sys_pc = "block" /\ sys_pc' = "failed"
  BY DEF BlockFailed, savedVars, bootVars
<1>1. PICK left \in {flash[next_slot], EmptyBlock} : flash' = [flash EXCEPT ![next_slot] = left]
  BY DEF BlockFailed
<1>2. /\ JournalOrdered'
      /\ \A s \in Slots : Valid(flash'[s]) => Valid(flash[s]) /\ flash'[s] = flash[s]
  BY <1>0, <1>1, ClearSlot
<1>2a. \A s \in Slots \ {next_slot} : flash'[s] = flash[s]
  BY <1>1 DEF TypeOK
<1>3. journal_ready /\ loaded = SettingsKeys
  BY <1>0 DEF OrderInv, LoadInv
<1>4. LoadInv'
  BY <1>0, <1>3 DEF OrderInv, LoadInv
<1>5. WriteInv'
  BY <1>0 DEF WriteInv
<1>6. CoverInv'
  BY <1>0, <1>2 DEF OrderInv, CoverInv, Covered, LastSeq, Valid
<1>7. NextSlotInv'
  <2>1. ASSUME NEW s \in Slots, Newest(s)' PROVE Newest(s)
    <3>1. s \in loaded /\ Valid(flash[s]) /\ flash'[s] = flash[s] /\ Valid(flash'[s])
      BY <1>0, <1>2, <2>1 DEF Newest, Valid
    <3>2. ASSUME NEW t \in Slots, Valid(flash[t]), t # next_slot
          PROVE  flash[t].journal_seq <= flash[s].journal_seq
      BY <1>0, <1>2a, <1>3, <2>1, <3>1, <3>2 DEF Newest, Valid, SettingsKeys
    <3>3. ASSUME Valid(flash[next_slot])
          PROVE  flash[next_slot].journal_seq <= flash[s].journal_seq
      <4>1. next_slot \in Slots
        BY DEF TypeOK
      <4>2. SUFFICES ASSUME flash[next_slot].journal_seq > flash[s].journal_seq PROVE FALSE
        BY <4>1, FlashTypes
      <4>3. \A t \in Slots : Valid(flash[t]) =>
                               flash[t].journal_seq <= flash[next_slot].journal_seq
        BY <3>2, <4>1, <4>2, FlashTypes
      <4>. QED  BY <1>0, <3>3, <4>1, <4>3, WriteSparesNewest
    <3>. QED  BY <3>1, <3>2, <3>3 DEF Newest
  <2>. QED  BY <1>0, <1>3, <2>1 DEF OrderInv, NextSlotInv, SlotAfter
<1>. QED  BY <1>2, <1>4, <1>5, <1>6, <1>7 DEF OrderInv

\* Storing the new block keeps the blocks ordered.
LEMMA SavedOrdered ==
    ASSUME TypeOK, OrderInv, sys_pc = "block", flash' = [flash EXCEPT ![next_slot] = persist_block]
    PROVE  JournalOrdered'
<1>1. next_slot \in Slots /\ flash'[next_slot] = persist_block
      /\ \A s \in Slots \ {next_slot} : flash'[s] = flash[s]
  BY DEF TypeOK
<1>2. journal_ready /\ loaded = SettingsKeys
  BY DEF OrderInv, LoadInv
<1>3. ASSUME NEW s \in Slots \ {next_slot}, Valid(flash[s])
      PROVE  /\ flash[s].journal_seq < persist_block.journal_seq
             /\ LastSeq(flash[s]) < persist_block.first_event_seq
  <2>1. /\ persist_block.journal_seq = journal_seq /\ flash[s].journal_seq < journal_seq
        /\ persist_block.first_event_seq > persisted_event_seq
    BY <1>3 DEF OrderInv, WriteInv
  <2>2. LastSeq(flash[s]) <= persisted_event_seq
    BY <1>2, <1>3 DEF OrderInv, CoverInv, Covered, SettingsKeys
  <2>3. persist_block \in Block /\ persisted_event_seq \in Int
    BY DEF TypeOK
  <2>4. LastSeq(flash[s]) \in Int /\ persist_block.first_event_seq \in Int
    BY <2>3, FlashTypes DEF Block
  <2>. QED  BY <2>1, <2>2, <2>3, <2>4
<1>4. SUFFICES ASSUME NEW s \in Slots, NEW t \in Slots, Valid(flash'[s]), Valid(flash'[t]), s # t
               PROVE  \/ /\ flash'[s].journal_seq < flash'[t].journal_seq
                         /\ LastSeq(flash'[s]) < flash'[t].first_event_seq
                      \/ /\ flash'[t].journal_seq < flash'[s].journal_seq
                         /\ LastSeq(flash'[t]) < flash'[s].first_event_seq
  BY DEF JournalOrdered, Valid, LastSeq
<1>5. CASE s = next_slot
  BY <1>1, <1>3, <1>4, <1>5
<1>6. CASE t = next_slot
  BY <1>1, <1>3, <1>4, <1>6
<1>7. CASE s # next_slot /\ t # next_slot
  BY <1>1, <1>4, <1>7 DEF OrderInv, JournalOrdered
<1>. QED  BY <1>5, <1>6, <1>7

\* A save that succeeds.
LEMMA BlockSavedStep == ASSUME TypeOK, OrderInv, BlockSaved PROVE OrderInv'
<1>0. /\ UNCHANGED <<loaded, journal_ready, boot_pc, journal_seq, persisted_event_seq,
                     next_slot, persist_block>>
      /\ sys_pc = "block" /\ sys_pc' = "saved"
      /\ flash' = [flash EXCEPT ![next_slot] = persist_block]
  BY DEF BlockSaved, savedVars, bootVars
<1>1. next_slot \in Slots /\ flash'[next_slot] = persist_block
      /\ \A s \in Slots \ {next_slot} : flash'[s] = flash[s]
  BY <1>0 DEF TypeOK
<1>2. journal_ready /\ loaded = SettingsKeys
  BY <1>0 DEF OrderInv, LoadInv
<1>3. LoadInv'
  BY <1>0, <1>2 DEF OrderInv, LoadInv
<1>4. WriteInv'
  BY <1>0, <1>1 DEF OrderInv, WriteInv, Valid
<1>5. CoverInv'
  BY <1>0, <1>1 DEF OrderInv, CoverInv, Covered, Valid, LastSeq
<1>6. NextSlotInv'
  BY <1>0, <1>2 DEF NextSlotInv
<1>7. JournalOrdered'
  BY <1>0, SavedOrdered
<1>. QED  BY <1>3, <1>4, <1>5, <1>6, <1>7 DEF OrderInv

\* The second critical section of totem_host_event_log_persist.
LEMMA PersistEndStep == ASSUME TypeOK, OrderInv, PersistEnd PROVE OrderInv'
<1>0. /\ UNCHANGED <<flash, loaded, journal_ready, boot_pc, journal_seq>>
      /\ sys_pc \in {"saved", "failed"} /\ sys_pc' = "idle"
  BY DEF PersistEnd, bootVars, flashVars
<1>1. journal_ready /\ loaded = SettingsKeys /\ next_slot \in Slots
  BY <1>0 DEF OrderInv, LoadInv, TypeOK
<1>2. LoadInv'
  BY <1>0, <1>1 DEF OrderInv, LoadInv
<1>3. WriteInv'
  BY <1>0 DEF WriteInv
<1>4. JournalOrdered'
  BY <1>0 DEF OrderInv, JournalOrdered, Valid, LastSeq
<1>5. CASE sys_pc = "failed"
  <2>1. UNCHANGED <<persisted_event_seq, next_slot>>
    BY <1>5 DEF PersistEnd
  <2>2. CoverInv'
    BY <1>0, <1>5, <2>1 DEF OrderInv, CoverInv, Covered, Valid, LastSeq
  <2>3. NextSlotInv'
    BY <1>0, <1>1, <1>5, <2>1 DEF OrderInv, NextSlotInv, Newest, Valid, SlotAfter
  <2>. QED  BY <1>2, <1>3, <1>4, <2>2, <2>3 DEF OrderInv
<1>6. CASE sys_pc = "saved"
  <2>1. /\ persisted_event_seq' = LastSeq(persist_block)
        /\ next_slot' = SlotAfter(next_slot)
    BY <1>6 DEF PersistEnd
  <2>2. /\ flash[next_slot] = persist_block /\ Valid(persist_block)
        /\ persist_block.journal_seq = journal_seq
        /\ persist_block.first_event_seq > persisted_event_seq
        /\ \A s \in Slots \ {next_slot} : Valid(flash[s]) => flash[s].journal_seq < journal_seq
    BY <1>6 DEF OrderInv, WriteInv
  <2>3. LastSeq(persist_block) > persisted_event_seq
    <3>1. /\ persist_block.first_event_seq \in Nat /\ persist_block.count \in Nat
          /\ persisted_event_seq \in Nat
      BY <1>1, <2>2, FlashTypes DEF TypeOK
    <3>. QED  BY <2>2, <3>1 DEF LastSeq, Valid
  <2>4. /\ LastSeq(persist_block) \in Int /\ persisted_event_seq \in Int /\ journal_seq \in Int
    BY <1>1, <2>2, FlashTypes DEF TypeOK
  <2>5. ASSUME NEW s \in Slots, Valid(flash[s])
        PROVE  flash[s].journal_seq <= journal_seq /\ LastSeq(flash[s]) <= LastSeq(persist_block)
    <3>1. CASE s = next_slot
      BY <2>2, <2>4, <3>1
    <3>2. CASE s # next_slot
      <4>1. Covered(s)
        BY <1>1, <3>2 DEF OrderInv, CoverInv, SettingsKeys
      <4>. QED  BY <2>3, <2>4, <2>5, <4>1, FlashTypes DEF Covered
    <3>. QED  BY <3>1, <3>2
  <2>6. CoverInv'
    BY <1>0, <2>1, <2>5 DEF CoverInv, Covered, Valid, LastSeq
  <2>7. NextSlotInv'
    <3>1. ASSUME NEW s \in Slots, Newest(s) PROVE s = next_slot
      <4>1. flash[next_slot].journal_seq <= flash[s].journal_seq /\ Valid(flash[s])
        BY <1>1, <2>2, <3>1 DEF Newest, SettingsKeys
      <4>2. flash[s].journal_seq \in Nat /\ flash[next_slot].journal_seq \in Nat
        BY <1>1, FlashTypes
      <4>. QED  BY <2>2, <4>1, <4>2
    <3>2. \A s \in Slots : Newest(s)' => Newest(s)
      BY <1>0 DEF Newest, Valid
    <3>. QED  BY <1>0, <1>1, <2>1, <3>1, <3>2 DEF NextSlotInv, SlotAfter
  <2>. QED  BY <1>2, <1>3, <1>4, <2>6, <2>7 DEF OrderInv
<1>. QED  BY <1>0, <1>5, <1>6

\* Loading one more slot keeps the maxima over the slots loaded so far.
LEMMA LoadSlotStep == ASSUME TypeOK, OrderInv, NEW u \in Slots, LoadSlot(u) PROVE OrderInv'
<1>0. /\ UNCHANGED <<flash, journal_ready, boot_pc, sys_pc, persist_block>>
      /\ boot_pc = "loading" /\ u \notin loaded /\ loaded' = loaded \cup {u}
  BY DEF LoadSlot, flashVars, ctlVars
<1>1. ~journal_ready /\ sys_pc \notin {"counter", "block", "saved", "failed"}
  BY <1>0 DEF OrderInv, LoadInv
<1>2. /\ journal_seq \in Nat /\ persisted_event_seq \in Nat
      /\ journal_seq' \in Nat /\ persisted_event_seq' \in Nat
      /\ journal_seq' >= journal_seq /\ persisted_event_seq' >= persisted_event_seq
  <2>1. flash[u].journal_seq \in Nat /\ LastSeq(flash[u]) \in Int
    BY FlashTypes
  <2>2. journal_seq \in Nat /\ persisted_event_seq \in Nat
    BY DEF TypeOK
  <2>3. journal_seq' \in Nat /\ journal_seq' >= journal_seq
    <3>1. CASE Newer(flash[u])
      BY <2>1, <3>1 DEF LoadSlot, Newer
    <3>2. CASE ~Newer(flash[u])
      BY <2>2, <3>2 DEF LoadSlot
    <3>. QED  BY <3>1, <3>2
  <2>4. persisted_event_seq' \in Nat /\ persisted_event_seq' >= persisted_event_seq
    BY <2>1, <2>2 DEF LoadSlot
  <2>. QED  BY <2>2, <2>3, <2>4
<1>3. Valid(flash[u]) => flash[u].journal_seq <= journal_seq'
                         /\ LastSeq(flash[u]) <= persisted_event_seq'
  <2>1. flash[u].journal_seq \in Nat /\ LastSeq(flash[u]) \in Int
    BY FlashTypes
  <2>2. Valid(flash[u]) => flash[u].journal_seq <= journal_seq'
    <3>1. CASE Newer(flash[u])
      BY <2>1, <3>1 DEF LoadSlot
    <3>2. CASE ~Newer(flash[u])
      BY <1>2, <2>1, <3>2 DEF LoadSlot, Newer
    <3>. QED  BY <3>1, <3>2
  <2>3. Valid(flash[u]) => LastSeq(flash[u]) <= persisted_event_seq'
    BY <1>2, <2>1 DEF LoadSlot
  <2>. QED  BY <2>2, <2>3
<1>4. LoadInv'
  BY <1>0, <1>1 DEF OrderInv, LoadInv
<1>5. WriteInv'
  BY <1>0, <1>1 DEF WriteInv
<1>6. JournalOrdered'
  BY <1>0 DEF OrderInv, JournalOrdered, Valid, LastSeq
<1>7. CoverInv'
  <2>1. ASSUME NEW s \in Slots, s \in loaded, Valid(flash[s])
        PROVE  flash[s].journal_seq <= journal_seq' /\ LastSeq(flash[s]) <= persisted_event_seq'
    <3>1. Covered(s)
      BY <1>1, <2>1 DEF OrderInv, CoverInv
    <3>. QED  BY <1>2, <2>1, <3>1, FlashTypes DEF Covered
  <2>. QED  BY <1>0, <1>3, <2>1 DEF CoverInv, Covered, Valid, LastSeq
<1>8. NextSlotInv'
  <2>1. CASE Newer(flash[u])
    <3>1. journal_seq' = flash[u].journal_seq /\ next_slot' = SlotAfter(u) /\ Valid(flash[u])
          /\ flash[u].journal_seq >= journal_seq
      BY <2>1 DEF LoadSlot, Newer
    <3>2. ASSUME NEW s \in Slots, Newest(s)' PROVE s = u
      <4>1. SUFFICES ASSUME s # u PROVE FALSE
        OBVIOUS
      <4>2. s \in loaded /\ Valid(flash[s]) /\ flash[u].journal_seq <= flash[s].journal_seq
        BY <1>0, <3>1, <3>2, <4>1 DEF Newest, Valid
      <4>3. flash[s].journal_seq <= journal_seq
        BY <1>1, <4>2 DEF OrderInv, CoverInv, Covered
      <4>4. flash[s].journal_seq \in Nat /\ flash[u].journal_seq \in Nat
        BY FlashTypes
      <4>5. flash[s].journal_seq = flash[u].journal_seq
        BY <1>2, <3>1, <4>2, <4>3, <4>4
      <4>. QED  BY <3>1, <4>1, <4>2, <4>4, <4>5 DEF OrderInv, JournalOrdered
    <3>3. \E t \in Slots : t \in loaded' /\ Valid(flash'[t]) /\ flash'[t].journal_seq = journal_seq'
      BY <1>0, <3>1
    <3>. QED  BY <3>1, <3>2, <3>3 DEF NextSlotInv, SlotAfter, Valid
  <2>2. CASE ~Newer(flash[u])
    <3>1. UNCHANGED <<journal_seq, next_slot>>
      BY <2>2 DEF LoadSlot
    <3>2. Valid(flash[u]) => flash[u].journal_seq < journal_seq
      BY <1>2, <2>2, FlashTypes DEF Newer
    <3>3. \/ journal_seq = 0
          \/ \E t \in Slots : t \in loaded /\ Valid(flash[t]) /\ flash[t].journal_seq = journal_seq
      BY <1>1 DEF OrderInv, NextSlotInv
    <3>4. ASSUME NEW s \in Slots, Newest(s)' PROVE Newest(s)
      <4>1. s # u
        <5>1. SUFFICES ASSUME s = u PROVE FALSE
          OBVIOUS
        <5>2. Valid(flash[u]) /\ \A t \in Slots : t \in loaded /\ Valid(flash[t]) =>
                                     flash[t].journal_seq <= flash[u].journal_seq
          BY <1>0, <3>4, <5>1 DEF Newest, Valid
        <5>3. flash[u].journal_seq \in Nat
          BY FlashTypes
        <5>. QED  BY <1>2, <3>2, <3>3, <5>2, <5>3
      <4>. QED  BY <1>0, <3>4, <4>1 DEF Newest, Valid
    <3>5. sys_pc # "saved" => \A s \in Slots : Newest(s) => next_slot = SlotAfter(s)
      BY DEF OrderInv, NextSlotInv
    <3>. QED  BY <1>0, <1>1, <3>1, <3>3, <3>4, <3>5 DEF NextSlotInv, SlotAfter, Valid
  <2>. QED  BY <2>1, <2>2
<1>. QED  BY <1>4, <1>5, <1>6, <1>7, <1>8 DEF OrderInv

\* A reset at any point.
LEMMA CrashStep == ASSUME TypeOK, OrderInv, Crash PROVE OrderInv'
<1>0. /\ loaded' = {} /\ journal_ready' = FALSE /\ boot_pc' = "loading" /\ sys_pc' = "idle"
      /\ journal_seq' = 0
  BY DEF Crash
<1>1. JournalOrdered'
  <2>1. CASE sys_pc # "block"
    BY <2>1 DEF Crash, OrderInv, JournalOrdered, Valid, LastSeq
  <2>2. CASE sys_pc = "block"
    <3>1. PICK left \in {flash[next_slot], EmptyBlock, persist_block} :
               flash' = [flash EXCEPT ![next_slot] = left]
      BY <2>2 DEF Crash
    <3>2. CASE left \in {flash[next_slot], EmptyBlock}
      BY <2>2, <3>1, <3>2, ClearSlot
    <3>3. CASE left = persist_block
      BY <2>2, <3>1, <3>3, SavedOrdered
    <3>. QED  BY <3>1, <3>2, <3>3
  <2>. QED  BY <2>1, <2>2
<1>2. LoadInv' /\ WriteInv' /\ CoverInv' /\ NextSlotInv'
  BY <1>0 DEF LoadInv, WriteInv, CoverInv, NextSlotInv, Newest
<1>. QED  BY <1>1, <1>2 DEF OrderInv

-----------------------------------------------------------------------------
\* Every action keeps the ordering invariant.
LEMMA OrderStep == TypeOK /\ OrderInv /\ [Next]_vars => OrderInv'
<1>. SUFFICES ASSUME TypeOK, OrderInv, [Next]_vars PROVE OrderInv'
  OBVIOUS
<1>. USE DEF ringVars, storeVars, savedVars, bootVars, flashVars, workVars, ctlVars, frameVars
<1>u. CASE UNCHANGED vars
  BY <1>u, FrameStep DEF vars
<1>1. ASSUME NEW t \in Recorders, Record(t) \/ RecordTiming(t) PROVE OrderInv'
  BY <1>1, FrameStep DEF Record, RecordTiming
<1>2. ASSUME NEW t \in Threads, ThreadStep(t) PROVE OrderInv'
  BY <1>2, FrameStep DEF ThreadStep, SchedulePersist, ScheduleWork
<1>3. CASE Tick
  BY <1>3, FrameStep DEF Tick
<1>4. CASE FlushCounts \/ PersistWork
  BY <1>4, FrameStep DEF FlushCounts, PersistWork, SysIdle
<1>5. CASE PersistSkip
  BY <1>5, FrameStep DEF PersistSkip
<1>6. CASE CounterSkip
  BY <1>6, FrameStep DEF CounterSkip
<1>7. CASE CounterSave
  BY <1>7, FrameStep DEF CounterSave
<1>8. CASE TimingDrain
  BY <1>8, FrameStep DEF TimingDrain, SysIdle
<1>9. CASE BootRecord
  BY <1>9, FrameStep DEF BootRecord
<1>10. CASE LoadCounter
  <2>1. \A s \in Slots : s \in loaded' <=> s \in loaded
    BY <1>10 DEF LoadCounter, CounterKey, Slots
  <2>2. LoadInv'
    BY <1>10 DEF LoadCounter, OrderInv, LoadInv
  <2>3. WriteInv' /\ JournalOrdered'
    BY <1>10 DEF LoadCounter, OrderInv, WriteInv, JournalOrdered, Valid, LastSeq
  <2>4. CoverInv'
    BY <1>10, <2>1 DEF LoadCounter, OrderInv, CoverInv, Covered, Valid, LastSeq
  <2>5. NextSlotInv'
    BY <1>10, <2>1 DEF LoadCounter, OrderInv, NextSlotInv, Newest, Valid, SlotAfter
  <2>. QED  BY <2>2, <2>3, <2>4, <2>5 DEF OrderInv
<1>11. CASE SettingsLoaded \/ BootCounted \/ BootDone
  <2>0. /\ UNCHANGED <<flash, loaded, journal_seq, persisted_event_seq, next_slot, persist_block,
                       sys_pc>>
        /\ journal_ready' /\ boot_pc' # "loading" /\ loaded = SettingsKeys
    BY <1>11 DEF SettingsLoaded, BootCounted, BootDone, OrderInv, LoadInv
  <2>1. LoadInv'
    BY <2>0 DEF LoadInv
  <2>2. WriteInv' /\ JournalOrdered'
    BY <2>0 DEF OrderInv, WriteInv, JournalOrdered, Valid, LastSeq
  <2>3. CoverInv'
    BY <2>0 DEF OrderInv, CoverInv, Covered, Valid, LastSeq
  <2>4. NextSlotInv'
    BY <2>0 DEF OrderInv, NextSlotInv, Newest, Valid, SlotAfter
  <2>. QED  BY <2>1, <2>2, <2>3, <2>4 DEF OrderInv
<1>. QED
  BY <1>u, <1>1, <1>2, <1>3, <1>4, <1>5, <1>6, <1>7, <1>8, <1>9, <1>10, <1>11, PersistBeginStep,
     BlockSavedStep, BlockFailedStep, PersistEndStep, LoadSlotStep, CrashStep
  DEF Next, Writer, Boot

\* Power on with empty storage satisfies the invariant.
LEMMA InitInv == Init => TypeOK /\ OrderInv
<1>. SUFFICES ASSUME Init PROVE TypeOK /\ OrderInv
  OBVIOUS
<1>1. \A s \in Slots : ~Valid(flash[s])
  BY DEF Init, EmptyBlock, Valid
<1>2. OrderInv
  BY <1>1 DEF Init, OrderInv, LoadInv, WriteInv, CoverInv, NextSlotInv, Newest, Covered,
              JournalOrdered
<1>3. ring \in [0 .. RING_CAP - 1 -> Event]
  BY DEF Init, ZeroEvent, Event
<1>4. restored_blocks \in [Slots -> Block] /\ flash \in [Slots -> Block] /\ persist_block \in Block
  BY EmptyBlockType DEF Init
<1>5. call \in [Threads -> Call]
  BY IdleCallType DEF Init
<1>6. /\ ring_head \in 0 .. RING_CAP - 1 /\ ring_count \in 0 .. RING_CAP /\ next_slot \in Slots
      /\ events_since_persist \in 0 .. PERSIST_EVERY /\ since_persist \in 0 .. PERSIST_MIN
      /\ persist_timer \in -1 .. PERSIST_MIN /\ timing_count \in 0 .. TIMING_CAP
      /\ boot_left \in 0 .. BOOT_EVENTS
  BY JournalAssumption DEF Init, Slots, NONE
<1>. QED  BY <1>2, <1>3, <1>4, <1>5, <1>6 DEF Init, TypeOK, Call

\* The variables of the journal keep their types in every reachable state.
THEOREM JournalTypeCorrect == Spec => []TypeOK
<1>1. TypeOK /\ OrderInv /\ [Next]_vars => TypeOK'
  BY TypeStep DEF BlockPending, OrderInv, WriteInv
<1>. QED  BY <1>1, InitInv, OrderStep, PTL DEF Spec

\* However often the board resets or a save fails, the blocks in flash stay
\* ordered by journal_seq and disjoint (totem_host_event_log_persist).
THEOREM JournalOrderCorrect == Spec => []JournalOrdered
<1>1. TypeOK /\ OrderInv /\ [Next]_vars => TypeOK'
  BY TypeStep DEF BlockPending, OrderInv, WriteInv
<1>2. OrderInv => JournalOrdered
  BY DEF OrderInv
<1>. QED  BY <1>1, <1>2, InitInv, OrderStep, PTL DEF Spec

\* No step, a reset in the middle of a save included, changes the newest valid
\* block in flash (the slot choice of persist and hevt_settings_set).
THEOREM NewestBlockSurvives == Spec => NewestSurvives
<1>1. TypeOK /\ OrderInv /\ [Next]_vars => TypeOK'
  BY TypeStep DEF BlockPending, OrderInv, WriteInv
<1>2. ASSUME TypeOK, OrderInv, [Next]_vars, NEW s \in Slots, Valid(flash[s]),
             \A t \in Slots : Valid(flash[t]) => flash[t].journal_seq <= flash[s].journal_seq
      PROVE  flash'[s] = flash[s]
  <2>1. CASE UNCHANGED flash
    BY <2>1
  <2>2. CASE sys_pc = "block" /\ \E b : flash' = [flash EXCEPT ![next_slot] = b]
    BY <1>2, <2>2, WriteSparesNewest DEF TypeOK
  <2>3. UNCHANGED flash \/ (sys_pc = "block" /\ \E b : flash' = [flash EXCEPT ![next_slot] = b])
    <3>1. CASE Crash
      BY <3>1 DEF Crash
    <3>2. CASE BlockSaved \/ BlockFailed
      BY <3>2 DEF BlockSaved, BlockFailed
    <3>3. CASE UNCHANGED vars
      BY <3>3 DEF vars, storeVars, flashVars
    <3>4. ASSUME NEW t \in Recorders, Record(t) \/ RecordTiming(t) PROVE UNCHANGED flash
      BY <3>4 DEF Record, RecordTiming, storeVars, flashVars
    <3>5. ASSUME NEW t \in Threads, ThreadStep(t) PROVE UNCHANGED flash
      BY <3>5 DEF ThreadStep, SchedulePersist, ScheduleWork, storeVars, flashVars
    <3>6. CASE Tick \/ FlushCounts \/ TimingDrain \/ PersistWork \/ PersistSkip
      BY <3>6 DEF Tick, FlushCounts, TimingDrain, PersistWork, PersistSkip, storeVars, flashVars
    <3>7. CASE PersistBegin \/ CounterSkip \/ CounterSave \/ PersistEnd
      BY <3>7 DEF PersistBegin, CounterSkip, CounterSave, PersistEnd, storeVars, flashVars
    <3>8. CASE Boot
      BY <3>8 DEF Boot, LoadSlot, LoadCounter, SettingsLoaded, BootCounted, BootRecord, BootDone, flashVars
    <3>. QED
      BY <1>2, <3>1, <3>2, <3>3, <3>4, <3>5, <3>6, <3>7, <3>8 DEF Next, Writer
  <2>. QED  BY <2>1, <2>2, <2>3
<1>3. TypeOK /\ OrderInv /\ [Next]_vars =>
        [\A s \in Slots :
           /\ Valid(flash[s])
           /\ \A t \in Slots : Valid(flash[t]) => flash[t].journal_seq <= flash[s].journal_seq
           => flash'[s] = flash[s]]_flash
  BY <1>2
<1>. QED  BY <1>1, <1>3, InitInv, OrderStep, PTL DEF Spec, NewestSurvives

-----------------------------------------------------------------------------
(***************************************************************************)
(* More about Journal, on top of TypeOK and OrderInv of JournalProofs:     *)
(* that it implements DurableLog, in which order the dump finds the        *)
(* blocks, and that the boot counter covers them.                          *)
(***************************************************************************)

-----------------------------------------------------------------------------
(* Slots in the order in which the writer goes round them.                 *)

\* How far slot s comes in a round that starts at slot m.
Place(m, s) == IF s >= m THEN s ELSE s + JOURNAL_SLOTS

FlashNewest(n) ==
    /\ Valid(flash[n])
    /\ \A t \in Slots : Valid(flash[t]) => flash[t].journal_seq <= flash[n].journal_seq

HasNewest == (\E s \in Slots : Valid(flash[s])) => \E n \in Slots : FlashNewest(n)

InWriteOrder ==
    \A n \in Slots : FlashNewest(n) =>
        \A a, b \in Slots :
            Valid(flash[a]) /\ Valid(flash[b]) /\ Place(n + 1, a) < Place(n + 1, b) =>
                flash[a].journal_seq < flash[b].journal_seq

\* What is in flash is a round of the writer that ends at the newest block.
RoundInv == HasNewest /\ InWriteOrder

\* A sum of two remainders wraps at most once.
LEMMA WrapOnce ==
    ASSUME NEW n \in Nat \ {0}, NEW a \in 0 .. n + n - 1
    PROVE  a % n = IF a < n THEN a ELSE a - n
<1>1. CASE a < n
  BY <1>1
<1>2. CASE a >= n
  BY <1>2
<1>. QED  BY <1>1, <1>2

\* The slot after a slot, without the remainder.
LEMMA SlotAfterIs ==
    ASSUME NEW s \in Slots
    PROVE  SlotAfter(s) = IF s + 1 < JOURNAL_SLOTS THEN s + 1 ELSE 0
<1>1. JOURNAL_SLOTS \in Nat \ {0} /\ s + 1 \in 0 .. JOURNAL_SLOTS + JOURNAL_SLOTS - 1
  BY JournalAssumption DEF Slots
<1>2. s + 1 < JOURNAL_SLOTS \/ s + 1 = JOURNAL_SLOTS
  BY JournalAssumption DEF Slots
<1>. QED  BY <1>1, <1>2, WrapOnce DEF SlotAfter

\* The slot a number of places after another, as dump_work_handler visits them.
LEMMA SlotFrom ==
    ASSUME NEW m \in Slots, NEW i \in Slots
    PROVE  (m + i) % JOURNAL_SLOTS =
             IF m + i < JOURNAL_SLOTS THEN m + i ELSE m + i - JOURNAL_SLOTS
<1>1. m \in Nat /\ i \in Nat /\ JOURNAL_SLOTS \in Nat \ {0}
      /\ m + i \in 0 .. JOURNAL_SLOTS + JOURNAL_SLOTS - 1
  BY JournalAssumption DEF Slots
<1>2. PICK k : k = m + i
  OBVIOUS
<1>3. k % JOURNAL_SLOTS = IF k < JOURNAL_SLOTS THEN k ELSE k - JOURNAL_SLOTS
  BY <1>1, <1>2, WrapOnce
<1>. QED  BY <1>1, <1>2, <1>3

\* The slot after the newest block starts the round.
LEMMA RoundStarts ==
    ASSUME NEW n \in Slots, NEW s \in Slots, s # SlotAfter(n)
    PROVE  Place(n + 1, SlotAfter(n)) < Place(n + 1, s)
  BY SlotAfterIs, JournalAssumption DEF Place, Slots

\* Rounds that start one slot apart agree on all the other slots.
LEMMA RoundMoves ==
    ASSUME NEW n \in Slots, NEW a \in Slots, NEW b \in Slots,
           a # SlotAfter(n), b # SlotAfter(n),
           Place(SlotAfter(n) + 1, a) < Place(SlotAfter(n) + 1, b)
    PROVE  Place(n + 1, a) < Place(n + 1, b)
  BY SlotAfterIs, JournalAssumption DEF Place, Slots

\* The slot just before a round starts comes last in it.
LEMMA RoundEnds ==
    ASSUME NEW n \in Slots, NEW b \in Slots
    PROVE  ~(Place(n + 1, n) < Place(n + 1, b))
  BY JournalAssumption DEF Place, Slots

-----------------------------------------------------------------------------
\* The only steps that change flash replace the slot about to be written.
LEMMA FlashStep ==
    ASSUME [Next]_vars
    PROVE  \/ UNCHANGED flash
           \/ /\ sys_pc = "block"
              /\ \E left \in {flash[next_slot], EmptyBlock, persist_block} :
                    flash' = [flash EXCEPT ![next_slot] = left]
<1>. USE DEF storeVars, flashVars
<1>1. CASE Crash
  BY <1>1 DEF Crash
<1>2. CASE BlockSaved \/ BlockFailed
  BY <1>2 DEF BlockSaved, BlockFailed
<1>3. CASE UNCHANGED vars
  BY <1>3 DEF vars
<1>4. ASSUME NEW t \in Recorders, Record(t) \/ RecordTiming(t) PROVE UNCHANGED flash
  BY <1>4 DEF Record, RecordTiming
<1>5. ASSUME NEW t \in Threads, ThreadStep(t) PROVE UNCHANGED flash
  BY <1>5 DEF ThreadStep, SchedulePersist, ScheduleWork
<1>6. CASE Tick \/ FlushCounts \/ TimingDrain \/ PersistWork \/ PersistSkip
  BY <1>6 DEF Tick, FlushCounts, TimingDrain, PersistWork, PersistSkip
<1>7. CASE PersistBegin \/ CounterSkip \/ CounterSave \/ PersistEnd
  BY <1>7 DEF PersistBegin, CounterSkip, CounterSave, PersistEnd
<1>8. CASE Boot
  BY <1>8 DEF Boot, LoadSlot, LoadCounter, SettingsLoaded, BootCounted, BootRecord, BootDone
<1>. QED  BY <1>1, <1>2, <1>3, <1>4, <1>5, <1>6, <1>7, <1>8 DEF Next, Writer

\* While a block is written, next_slot follows the newest block in flash, and
\* the block in it, if any, is the oldest.
LEMMA WriteSlot ==
    ASSUME TypeOK, OrderInv, RoundInv, sys_pc = "block", NEW s \in Slots, s # next_slot,
           Valid(flash[s])
    PROVE  /\ \E n \in Slots : FlashNewest(n) /\ next_slot = SlotAfter(n)
           /\ Valid(flash[next_slot]) => flash[next_slot].journal_seq < flash[s].journal_seq
<1>1. loaded = SettingsKeys /\ next_slot \in Slots
  BY DEF OrderInv, LoadInv, TypeOK
<1>2. PICK n \in Slots : FlashNewest(n)
  BY DEF RoundInv, HasNewest
<1>3. next_slot = SlotAfter(n)
  BY <1>1, <1>2 DEF OrderInv, NextSlotInv, Newest, FlashNewest, SettingsKeys
<1>4. Place(n + 1, next_slot) < Place(n + 1, s)
  BY <1>3, RoundStarts
<1>. QED  BY <1>1, <1>2, <1>3, <1>4 DEF RoundInv, InWriteOrder

\* Replacing the slot about to be written keeps the round.
LEMMA RoundStep == TypeOK /\ OrderInv /\ RoundInv /\ [Next]_vars => RoundInv'
<1>. SUFFICES ASSUME TypeOK, OrderInv, RoundInv, [Next]_vars PROVE RoundInv'
  OBVIOUS
<1>1. CASE UNCHANGED flash
  BY <1>1 DEF RoundInv, HasNewest, InWriteOrder, FlashNewest, Valid
<1>2. CASE sys_pc = "block" /\ \E left \in {flash[next_slot], EmptyBlock, persist_block} :
                                  flash' = [flash EXCEPT ![next_slot] = left]
  <2>0. journal_ready /\ loaded = SettingsKeys
    BY <1>2 DEF OrderInv, LoadInv
  <2>1. PICK m \in Slots : m = next_slot
    BY DEF TypeOK
  <2>2. CASE flash' = [flash EXCEPT ![m] = persist_block]
    <3>1. flash'[m] = persist_block /\ \A s \in Slots \ {m} : flash'[s] = flash[s]
      BY <2>1, <2>2 DEF TypeOK
    <3>2. /\ Valid(persist_block) /\ persist_block.journal_seq = journal_seq
          /\ \A s \in Slots : Valid(flash[s]) => flash[s].journal_seq < journal_seq
      BY <1>2 DEF OrderInv, WriteInv
    <3>3. journal_seq \in Nat /\ \A s \in Slots : flash[s].journal_seq \in Nat
      BY FlashTypes DEF TypeOK
    <3>4. \A t \in Slots : Valid(flash'[t]) /\ t # m => flash'[t].journal_seq < journal_seq
      BY <3>1, <3>2
    <3>5. FlashNewest(m)'
      BY <3>1, <3>2, <3>3, <3>4 DEF FlashNewest, Valid
    <3>6. HasNewest'
      BY <3>5 DEF HasNewest
    <3>7. ASSUME NEW n \in Slots, FlashNewest(n)' PROVE n = m
      <4>1. Valid(flash'[n]) /\ flash'[m].journal_seq <= flash'[n].journal_seq
        BY <3>1, <3>2, <3>7 DEF FlashNewest, Valid
      <4>. QED  BY <3>1, <3>2, <3>3, <3>4, <4>1
    <3>8. ASSUME NEW a \in Slots, NEW b \in Slots, Valid(flash'[a]), Valid(flash'[b]),
                 Place(m + 1, a) < Place(m + 1, b)
          PROVE  flash'[a].journal_seq < flash'[b].journal_seq
      <4>1. a # m
        BY <3>8, RoundEnds
      <4>2. CASE b = m
        BY <3>1, <3>2, <3>4, <3>8, <4>1, <4>2
      <4>3. CASE b # m
        <5>1. Valid(flash[a]) /\ Valid(flash[b]) /\ flash'[a] = flash[a] /\ flash'[b] = flash[b]
          BY <3>1, <3>8, <4>1, <4>3
        <5>2. PICK n \in Slots : FlashNewest(n) /\ m = SlotAfter(n)
          BY <1>2, <2>1, <4>1, <5>1, WriteSlot
        <5>3. Place(n + 1, a) < Place(n + 1, b)
          BY <3>8, <4>1, <4>3, <5>2, RoundMoves
        <5>. QED  BY <5>1, <5>2, <5>3 DEF RoundInv, InWriteOrder
      <4>. QED  BY <4>2, <4>3
    <3>9. InWriteOrder'
      BY <3>7, <3>8 DEF InWriteOrder, Valid, Place
    <3>. QED  BY <3>6, <3>9 DEF RoundInv
  <2>3. CASE \E left \in {flash[m], EmptyBlock} : flash' = [flash EXCEPT ![m] = left]
    <3>1. \A s \in Slots : Valid(flash'[s]) => Valid(flash[s]) /\ flash'[s] = flash[s]
      BY <1>2, <2>1, <2>3, ClearSlot
    <3>2. \A s \in Slots \ {m} : flash'[s] = flash[s]
      BY <2>3 DEF TypeOK
    <3>3. ASSUME NEW n \in Slots, FlashNewest(n) PROVE FlashNewest(n)'
      <4>1. n # m
        BY <1>2, <2>1, <3>3, WriteSparesNewest DEF FlashNewest
      <4>. QED  BY <3>1, <3>2, <3>3, <4>1 DEF FlashNewest, Valid
    <3>4. HasNewest'
      BY <3>1, <3>3 DEF RoundInv, HasNewest, Valid
    <3>5. ASSUME NEW n \in Slots, FlashNewest(n)' PROVE FlashNewest(n)
      <4>1. Valid(flash'[n]) /\ Valid(flash[n]) /\ flash'[n] = flash[n]
        BY <3>1, <3>5 DEF FlashNewest, Valid
      <4>2. PICK k \in Slots : FlashNewest(k) /\ FlashNewest(k)'
        BY <3>3, <4>1 DEF RoundInv, HasNewest
      <4>3. flash'[k] = flash[k] /\ flash[k].journal_seq <= flash[n].journal_seq
        BY <3>1, <3>5, <4>1, <4>2 DEF FlashNewest, Valid
      <4>4. \A s \in Slots : flash[s].journal_seq \in Nat
        BY FlashTypes
      <4>. QED  BY <4>1, <4>2, <4>3, <4>4 DEF FlashNewest
    <3>6. InWriteOrder'
      BY <3>1, <3>5 DEF RoundInv, InWriteOrder, Valid, Place
    <3>. QED  BY <3>4, <3>6 DEF RoundInv
  <2>. QED  BY <1>2, <2>1, <2>2, <2>3
<1>. QED  BY <1>1, <1>2, FlashStep

\* Empty storage is a round.
LEMMA RoundInit == Init => RoundInv
<1>. SUFFICES ASSUME Init PROVE RoundInv
  OBVIOUS
<1>1. \A s \in Slots : ~Valid(flash[s])
  BY DEF Init, EmptyBlock, Valid
<1>. QED  BY <1>1 DEF RoundInv, HasNewest, InWriteOrder, FlashNewest

JournalInv == TypeOK /\ OrderInv /\ RoundInv

\* The three parts hold in every reachable state.
LEMMA JournalInvHolds == Spec => []JournalInv
<1>1. JournalInv /\ [Next]_vars => JournalInv'
  BY TypeStep, OrderStep, RoundStep DEF JournalInv, BlockPending, OrderInv, WriteInv
<1>2. Init => JournalInv
  BY InitInv, RoundInit DEF JournalInv
<1>. QED  BY <1>1, <1>2, PTL DEF Spec

-----------------------------------------------------------------------------
(* The refinement.                                                         *)

\* A block in flash is in one slot only.
LEMMA Distinct ==
    ASSUME TypeOK, OrderInv, NEW s \in Slots, NEW t \in Slots, s # t,
           Valid(flash[s]), Valid(flash[t])
    PROVE  flash[s] # flash[t]
<1>1. flash[s].journal_seq \in Nat /\ flash[t].journal_seq \in Nat
  BY FlashTypes
<1>. QED  BY <1>1 DEF OrderInv, JournalOrdered

\* The smaller journal_seq of two blocks in flash belongs to the earlier block.
LEMMA EarlierBlock ==
    ASSUME TypeOK, OrderInv, NEW s \in Slots, NEW t \in Slots,
           Valid(flash[s]), Valid(flash[t]), flash[s].journal_seq < flash[t].journal_seq
    PROVE  Log!Before(flash[s], flash[t])
<1>1. /\ flash[s].journal_seq \in Nat /\ flash[t].journal_seq \in Nat
      /\ flash[s].first_event_seq \in Nat /\ flash[t].first_event_seq \in Nat
      /\ flash[s].count \in Nat
  BY FlashTypes
<1>2. s # t
  BY <1>1
<1>3. LastSeq(flash[s]) < flash[t].first_event_seq
  BY <1>1, <1>2 DEF OrderInv, JournalOrdered
<1>. QED  BY <1>1, <1>3 DEF Log!Before, LastSeq

\* Every step of the journal adds a block at the new end of the log, loses the
\* oldest one, or leaves the log alone.
LEMMA LogStep == ASSUME JournalInv, [Next]_vars PROVE [Log!Next]_SavedBlocks
<1>0. TypeOK /\ OrderInv /\ RoundInv
  BY DEF JournalInv
<1>1. CASE UNCHANGED flash
  BY <1>1 DEF SavedBlocks, Valid
<1>2. CASE sys_pc = "block" /\ \E left \in {flash[next_slot], EmptyBlock, persist_block} :
                                  flash' = [flash EXCEPT ![next_slot] = left]
  <2>1. PICK m \in Slots : m = next_slot
    BY <1>0 DEF TypeOK
  <2>2. ASSUME NEW s \in Slots, s # m, Valid(flash[s]), Valid(flash[m])
        PROVE  Log!Before(flash[m], flash[s]) /\ flash[m] # flash[s]
    <3>1. flash[m].journal_seq < flash[s].journal_seq
      BY <1>0, <1>2, <2>1, <2>2, WriteSlot
    <3>. QED  BY <1>0, <2>2, <3>1, EarlierBlock, Distinct
  <2>3. CASE flash' = [flash EXCEPT ![m] = flash[m]]
    <3>1. flash' = flash
      BY <1>0, <2>3 DEF TypeOK
    <3>. QED  BY <1>1, <3>1
  <2>4. CASE flash' = [flash EXCEPT ![m] = EmptyBlock]
    <3>1. ~Valid(flash'[m]) /\ \A s \in Slots \ {m} : flash'[s] = flash[s]
      BY <1>0, <2>4 DEF TypeOK, EmptyBlock, Valid
    <3>2. CASE ~Valid(flash[m])
      BY <3>1, <3>2 DEF SavedBlocks, Valid
    <3>3. CASE Valid(flash[m])
      <4>1. SavedBlocks' = SavedBlocks \ {flash[m]}
        BY <2>2, <3>1, <3>3 DEF SavedBlocks, Valid
      <4>2. \A c \in SavedBlocks \ {flash[m]} : Log!Before(flash[m], c)
        BY <2>2, <3>3 DEF SavedBlocks
      <4>3. flash[m] \in SavedBlocks
        BY <3>3 DEF SavedBlocks
      <4>4. SavedBlocks # {flash[m]}
        <5>1. PICK n \in Slots : FlashNewest(n)
          BY <1>0, <3>3 DEF RoundInv, HasNewest
        <5>2. n # m
          BY <1>0, <1>2, <2>1, <5>1, WriteSparesNewest DEF FlashNewest
        <5>. QED  BY <2>2, <3>3, <5>1, <5>2 DEF SavedBlocks, FlashNewest
      <4>. QED  BY <4>1, <4>2, <4>3, <4>4 DEF Log!Next, Log!LoseOldest
    <3>. QED  BY <3>2, <3>3
  <2>5. CASE flash' = [flash EXCEPT ![m] = persist_block]
    <3>1. flash'[m] = persist_block /\ \A s \in Slots \ {m} : flash'[s] = flash[s]
      BY <1>0, <2>5 DEF TypeOK
    <3>2. /\ Valid(persist_block) /\ persist_block.journal_seq = journal_seq
          /\ persist_block.first_event_seq > persisted_event_seq
          /\ \A s \in Slots : Valid(flash[s]) => flash[s].journal_seq < journal_seq
      BY <1>0, <1>2 DEF OrderInv, WriteInv
    <3>3. ASSUME NEW s \in Slots, Valid(flash[s]) PROVE Log!Before(flash[s], persist_block)
      <4>1. LastSeq(flash[s]) <= persisted_event_seq
        BY <1>0, <1>2, <3>3 DEF OrderInv, LoadInv, CoverInv, Covered, SettingsKeys
      <4>2. /\ flash[s].first_event_seq \in Nat /\ flash[s].count \in Nat
            /\ persisted_event_seq \in Nat
        BY <1>0, FlashTypes DEF TypeOK
      <4>3. persist_block.first_event_seq \in Nat
        BY <1>0 DEF TypeOK, Block
      <4>. QED  BY <3>2, <3>3, <4>1, <4>2, <4>3 DEF Log!Before, LastSeq
    <3>4. persist_block \in SavedBlocks'
      BY <3>1, <3>2 DEF SavedBlocks, Valid
    <3>5. \A a \in SavedBlocks : Log!Before(a, persist_block)
      BY <3>3 DEF SavedBlocks
    <3>6. ASSUME NEW a \in SavedBlocks, a \notin SavedBlocks' PROVE a = flash[m] /\ Valid(flash[m])
      BY <3>1, <3>6 DEF SavedBlocks, Valid
    <3>7. \A a \in SavedBlocks \ SavedBlocks' : \A c \in SavedBlocks \ {a} : Log!Before(a, c)
      BY <2>2, <3>6 DEF SavedBlocks
    <3>8. ASSUME NEW b \in SavedBlocks', b # persist_block PROVE b \in SavedBlocks
      BY <3>1, <3>8 DEF SavedBlocks, Valid
    <3>9. SavedBlocks' = (SavedBlocks \cap SavedBlocks') \cup {persist_block}
      BY <3>4, <3>8
    <3>10. Log!Append(persist_block)
      BY <3>5, <3>7, <3>9 DEF Log!Append
    <3>. QED  BY <3>4, <3>10 DEF Log!Next
  <2>. QED  BY <1>2, <2>1, <2>3, <2>4, <2>5
<1>. QED  BY <1>1, <1>2, FlashStep

\* The journal implements the abstract log for every ring, block and slot size
\* and any number of resets and failed saves: each write appends or, when it
\* goes wrong, loses at most the oldest block (totem_host_event_log_persist,
\* hevt_settings_set).
THEOREM JournalIsDurableLog == Spec => ImplementsLog
<1>1. Init => Log!Init
  BY DEF Init, Log!Init, SavedBlocks, Valid, EmptyBlock
<1>2. JournalInv /\ [Next]_vars => [Log!Next]_SavedBlocks
  BY LogStep
<1>. QED  BY <1>1, <1>2, JournalInvHolds, PTL DEF Spec, ImplementsLog, Log!Spec

-----------------------------------------------------------------------------
(* What RAM knows of the blocks: the order of the dump.                    *)

\* Outside the slot being replaced RAM and flash agree on what is loaded; the
\* block that RAM still has for that slot is older than all the others.
RestoredInv ==
    /\ \A s \in Slots : s \in loaded /\ ~(journal_ready /\ s = next_slot) =>
                           restored_blocks[s] = flash[s]
    /\ journal_ready /\ Valid(restored_blocks[next_slot]) =>
          \A s \in Slots \ {next_slot} :
              Valid(flash[s]) => restored_blocks[next_slot].journal_seq < flash[s].journal_seq

\* Once every slot is loaded, next_slot holds the oldest block or none.
LEMMA LoadedSlot ==
    ASSUME TypeOK, OrderInv, RoundInv, loaded = SettingsKeys, sys_pc # "saved",
           NEW s \in Slots, s # next_slot, Valid(flash[s]), Valid(flash[next_slot])
    PROVE  flash[next_slot].journal_seq < flash[s].journal_seq
<1>1. next_slot \in Slots
  BY DEF TypeOK
<1>2. PICK n \in Slots : FlashNewest(n)
  BY DEF RoundInv, HasNewest
<1>3. next_slot = SlotAfter(n)
  BY <1>2 DEF OrderInv, NextSlotInv, Newest, FlashNewest, SettingsKeys
<1>4. Place(n + 1, next_slot) < Place(n + 1, s)
  BY <1>3, RoundStarts
<1>. QED  BY <1>1, <1>2, <1>4 DEF RoundInv, InWriteOrder

\* Every action keeps RAM's picture of the blocks.
LEMMA RestoredStep == JournalInv /\ RestoredInv /\ [Next]_vars => RestoredInv'
<1>. SUFFICES ASSUME JournalInv, RestoredInv, [Next]_vars PROVE RestoredInv'
  OBVIOUS
<1>0. TypeOK /\ OrderInv /\ RoundInv
  BY DEF JournalInv
<1>. USE DEF ringVars, storeVars, savedVars, bootVars, flashVars, workVars, ctlVars
<1>f. ASSUME UNCHANGED <<flash, loaded, journal_ready, next_slot, restored_blocks>>
      PROVE  RestoredInv'
  BY <1>f DEF RestoredInv, Valid
<1>u. CASE UNCHANGED vars
  BY <1>f, <1>u DEF vars
<1>1. ASSUME NEW t \in Recorders, Record(t) \/ RecordTiming(t) PROVE RestoredInv'
  BY <1>f, <1>1 DEF Record, RecordTiming
<1>2. ASSUME NEW t \in Threads, ThreadStep(t) PROVE RestoredInv'
  BY <1>f, <1>2 DEF ThreadStep, SchedulePersist, ScheduleWork
<1>3. CASE Tick \/ FlushCounts \/ TimingDrain \/ BootCounted \/ BootRecord \/ BootDone
  BY <1>f, <1>3 DEF Tick, FlushCounts, TimingDrain, BootCounted, BootRecord, BootDone
<1>4. CASE PersistWork \/ PersistSkip \/ PersistBegin \/ CounterSkip \/ CounterSave
  BY <1>f, <1>4 DEF PersistWork, PersistSkip, PersistBegin, CounterSkip, CounterSave
<1>5. CASE BlockSaved \/ BlockFailed
  <2>1. /\ UNCHANGED <<loaded, journal_ready, next_slot, restored_blocks>>
        /\ \A s \in Slots \ {next_slot} : flash'[s] = flash[s]
        /\ sys_pc = "block"
    BY <1>0, <1>5 DEF BlockSaved, BlockFailed, TypeOK
  <2>2. journal_ready
    BY <1>0, <2>1 DEF OrderInv, LoadInv
  <2>. QED  BY <2>1, <2>2 DEF RestoredInv, Valid
<1>6. CASE PersistEnd
  <2>0. /\ UNCHANGED <<flash, loaded, journal_ready>> /\ sys_pc \in {"saved", "failed"}
        /\ journal_ready /\ loaded = SettingsKeys
    BY <1>0, <1>6 DEF PersistEnd, OrderInv, LoadInv
  <2>1. CASE sys_pc = "failed"
    BY <1>f, <1>6, <2>0, <2>1 DEF PersistEnd
  <2>2. CASE sys_pc = "saved"
    <3>1. PICK m \in Slots : m = next_slot
      BY <1>0 DEF TypeOK
    <3>2. /\ restored_blocks' = [restored_blocks EXCEPT ![m] = persist_block]
          /\ next_slot' = SlotAfter(m)
      BY <1>6, <2>2, <3>1 DEF PersistEnd
    <3>3. flash[m] = persist_block /\ FlashNewest(m)
      <4>1. /\ flash[m] = persist_block /\ Valid(persist_block)
            /\ persist_block.journal_seq = journal_seq
            /\ \A s \in Slots \ {m} : Valid(flash[s]) => flash[s].journal_seq < journal_seq
        BY <1>0, <2>2, <3>1 DEF OrderInv, WriteInv
      <4>2. journal_seq \in Nat /\ \A s \in Slots : flash[s].journal_seq \in Nat
        BY <1>0, FlashTypes DEF TypeOK
      <4>. QED  BY <4>1, <4>2 DEF FlashNewest
    <3>4. SlotAfter(m) \in Slots /\ SlotAfter(m) # m
      BY SlotAfterType, SlotAfterDiffers
    <3>5. \A s \in Slots : restored_blocks'[s] = flash[s]
      BY <1>0, <2>0, <3>1, <3>2, <3>3 DEF RestoredInv, SettingsKeys, TypeOK
    <3>6. ASSUME NEW s \in Slots, s # SlotAfter(m), Valid(flash[s]), Valid(flash[SlotAfter(m)])
          PROVE  flash[SlotAfter(m)].journal_seq < flash[s].journal_seq
      BY <1>0, <3>3, <3>4, <3>6, RoundStarts DEF RoundInv, InWriteOrder
    <3>. QED  BY <2>0, <3>2, <3>4, <3>5, <3>6 DEF RestoredInv, Valid
  <2>. QED  BY <2>0, <2>1, <2>2
<1>7. ASSUME NEW u \in Slots, LoadSlot(u) PROVE RestoredInv'
  <2>1. /\ UNCHANGED <<flash, journal_ready>> /\ ~journal_ready /\ loaded' = loaded \cup {u}
        /\ restored_blocks' = [restored_blocks EXCEPT ![u] = flash[u]]
    BY <1>0, <1>7 DEF LoadSlot, OrderInv, LoadInv
  <2>. QED  BY <1>0, <2>1 DEF RestoredInv, TypeOK
<1>8. CASE LoadCounter
  <2>1. /\ UNCHANGED <<flash, journal_ready, next_slot, restored_blocks>>
        /\ \A s \in Slots : s \in loaded' <=> s \in loaded
    BY <1>8 DEF LoadCounter, CounterKey, Slots
  <2>. QED  BY <2>1 DEF RestoredInv, Valid
<1>9. CASE SettingsLoaded
  <2>1. /\ UNCHANGED <<flash, loaded, next_slot, restored_blocks>>
        /\ ~journal_ready /\ loaded = SettingsKeys /\ sys_pc # "saved" /\ next_slot \in Slots
    BY <1>0, <1>9 DEF SettingsLoaded, OrderInv, LoadInv, TypeOK
  <2>2. \A s \in Slots : restored_blocks[s] = flash[s]
    BY <2>1 DEF RestoredInv, SettingsKeys
  <2>. QED  BY <1>0, <2>1, <2>2, LoadedSlot DEF RestoredInv, Valid
<1>10. CASE Crash
  BY <1>10 DEF Crash, RestoredInv
<1>. QED
  BY <1>u, <1>1, <1>2, <1>3, <1>4, <1>5, <1>6, <1>7, <1>8, <1>9, <1>10 DEF Next, Writer, Boot

\* The invariant gives the order in which dump_work_handler reads the slots.
LEMMA RestoredOrdered == ASSUME JournalInv, RestoredInv PROVE DumpOldestFirst
<1>0. TypeOK /\ OrderInv /\ RoundInv
  BY DEF JournalInv
<1>1. SUFFICES ASSUME journal_ready, NEW i \in Slots, NEW j \in Slots, i < j,
                      Valid(restored_blocks[(next_slot + i) % JOURNAL_SLOTS]),
                      Valid(restored_blocks[(next_slot + j) % JOURNAL_SLOTS])
               PROVE  restored_blocks[(next_slot + i) % JOURNAL_SLOTS].journal_seq
                        < restored_blocks[(next_slot + j) % JOURNAL_SLOTS].journal_seq
  BY DEF DumpOldestFirst
<1>2. PICK m \in Slots : m = next_slot
  BY <1>0 DEF TypeOK
<1>. DEFINE a == (m + i) % JOURNAL_SLOTS
            b == (m + j) % JOURNAL_SLOTS
<1>3. /\ a = IF m + i < JOURNAL_SLOTS THEN m + i ELSE m + i - JOURNAL_SLOTS
      /\ b = IF m + j < JOURNAL_SLOTS THEN m + j ELSE m + j - JOURNAL_SLOTS
  BY SlotFrom
<1>. HIDE DEF a, b
<1>4. a \in Slots /\ b \in Slots /\ b # m /\ a # b
  BY <1>1, <1>3, JournalAssumption DEF Slots
<1>5. /\ loaded = SettingsKeys
      /\ \A s \in Slots \ {m} : restored_blocks[s] = flash[s]
  BY <1>0, <1>1, <1>2 DEF OrderInv, LoadInv, RestoredInv, SettingsKeys
<1>6. Valid(restored_blocks[a]) /\ Valid(restored_blocks[b])
  BY <1>1, <1>2 DEF a, b
<1>7. Valid(flash[b]) /\ restored_blocks[b] = flash[b]
  BY <1>4, <1>5, <1>6
<1>8. CASE a = m
  <2>1. restored_blocks[a].journal_seq < restored_blocks[b].journal_seq
    BY <1>1, <1>2, <1>4, <1>6, <1>7, <1>8 DEF RestoredInv
  <2>. QED  BY <1>2, <2>1 DEF a, b
<1>9. CASE a # m
  <2>1. Valid(flash[a]) /\ restored_blocks[a] = flash[a]
    BY <1>4, <1>5, <1>6, <1>9
  <2>2. PICK n \in Slots : FlashNewest(n)
    BY <1>0, <1>4, <1>7 DEF RoundInv, HasNewest
  <2>3. Place(n + 1, a) < Place(n + 1, b)
    <3>1. CASE sys_pc = "saved"
      <4>1. n = m
        <5>1. /\ flash[m] = persist_block /\ Valid(persist_block)
              /\ persist_block.journal_seq = journal_seq
              /\ \A s \in Slots \ {m} : Valid(flash[s]) => flash[s].journal_seq < journal_seq
          BY <1>0, <1>2, <3>1 DEF OrderInv, WriteInv
        <5>2. journal_seq \in Nat /\ \A s \in Slots : flash[s].journal_seq \in Nat
          BY <1>0, FlashTypes DEF TypeOK
        <5>3. flash[m].journal_seq <= flash[n].journal_seq
          BY <2>2, <5>1 DEF FlashNewest
        <5>. QED  BY <2>2, <5>1, <5>2, <5>3 DEF FlashNewest
      <4>. QED  BY <1>1, <1>3, <1>4, <1>9, <4>1, JournalAssumption DEF Place, Slots
    <3>2. CASE sys_pc # "saved"
      <4>1. m = SlotAfter(n)
        BY <1>0, <1>2, <1>5, <2>2, <3>2
        DEF OrderInv, NextSlotInv, Newest, FlashNewest, SettingsKeys
      <4>2. m = IF n + 1 < JOURNAL_SLOTS THEN n + 1 ELSE 0
        BY <4>1, SlotAfterIs
      <4>. QED  BY <1>1, <1>3, <1>4, <1>9, <4>2, JournalAssumption DEF Place, Slots
    <3>. QED  BY <3>1, <3>2
  <2>4. flash[a].journal_seq < flash[b].journal_seq
    BY <1>0, <1>4, <1>7, <2>1, <2>2, <2>3 DEF RoundInv, InWriteOrder
  <2>. QED  BY <1>2, <1>7, <2>1, <2>4 DEF a, b
<1>. QED  BY <1>8, <1>9

\* The dump reads the restored blocks oldest first, whatever the order in which
\* settings were loaded and whichever saves failed (dump_work_handler).
THEOREM DumpInOrder == Spec => []DumpOldestFirst
<1>1. Init => RestoredInv
  BY DEF Init, RestoredInv
<1>2. JournalInv /\ RestoredInv => DumpOldestFirst
  BY RestoredOrdered
<1>. QED  BY <1>1, <1>2, RestoredStep, JournalInvHolds, PTL DEF Spec

-----------------------------------------------------------------------------
(* The boot counter.                                                       *)

\* Where the counter in RAM stands to the one in storage, while no save of the
\* counter has gone wrong: equal once loaded, one ahead from the statements of
\* totem_boot_diagnostics_loaded to the save that precedes the first block copied
\* after them.  A block copied before them tells of no boot.
CounterInv ==
    ~counter_failed =>
        /\ \A s \in Slots : Valid(flash[s]) => flash[s].boot <= flash_count
        /\ ~journal_ready /\ CounterKey \in loaded => boot_count = flash_count
        /\ journal_ready /\ counter_pending => boot_count = flash_count + 1
        /\ journal_ready /\ ~counter_pending => boot_count = flash_count
        /\ sys_pc \in {"counter", "block"} => persist_block.boot \in {0, boot_count}
        /\ sys_pc = "block" => persist_block.boot = 0 \/ ~counter_pending
        /\ boot_pc \in {"loading", "restored"} => ~counter_pending
        /\ sys_pc \in {"counter", "block"} /\ boot_pc = "restored" => persist_block.boot = 0

\* Every action keeps the counter ahead of the blocks.
LEMMA CounterStep == JournalInv /\ CounterInv /\ [Next]_vars => CounterInv'
<1>. SUFFICES ASSUME JournalInv, CounterInv, [Next]_vars PROVE CounterInv'
  OBVIOUS
<1>0. TypeOK /\ OrderInv
  BY DEF JournalInv
<1>t. flash_count \in Nat /\ boot_count \in Nat /\ \A s \in Slots : flash[s].boot \in Nat
  <2>1. \A s \in Slots : flash[s].boot \in Nat
    BY <1>0, FlashTypes DEF Block
  <2>. QED  BY <1>0, <2>1 DEF TypeOK
<1>. USE DEF ringVars, storeVars, savedVars, bootVars, flashVars, workVars, ctlVars
<1>f. ASSUME UNCHANGED <<flash, flash_count, counter_failed, loaded, journal_ready, boot_count,
                         counter_pending, persist_block>>,
             boot_pc' \in {boot_pc, "done"},
             \/ sys_pc' = sys_pc
             \/ sys_pc' \notin {"counter", "block"}
      PROVE  CounterInv'
  BY <1>f DEF CounterInv, Valid
<1>u. CASE UNCHANGED vars
  BY <1>f, <1>u DEF vars
<1>1. ASSUME NEW t \in Recorders, Record(t) \/ RecordTiming(t) PROVE CounterInv'
  BY <1>f, <1>1 DEF Record, RecordTiming
<1>2. ASSUME NEW t \in Threads, ThreadStep(t) PROVE CounterInv'
  BY <1>f, <1>2 DEF ThreadStep, SchedulePersist, ScheduleWork
<1>3. CASE Tick \/ FlushCounts \/ TimingDrain \/ BootRecord \/ BootDone
  BY <1>f, <1>3 DEF Tick, FlushCounts, TimingDrain, BootRecord, BootDone
<1>4. CASE PersistWork \/ PersistSkip
  BY <1>f, <1>4 DEF PersistWork, PersistSkip
<1>5. CASE PersistBegin
  <2>1. persist_block'.boot = IF boot_pc \in {"events", "done"} THEN boot_count ELSE 0
    BY <1>5 DEF PersistBegin, NewBlock, BootOfBlock
  <2>. QED  BY <1>5, <2>1 DEF PersistBegin, CounterInv, Valid
<1>6. CASE CounterSkip
  BY <1>6 DEF CounterSkip, CounterDue, CounterInv, Valid
<1>7. CASE CounterSave
  <2>1. CASE flash_count' = boot_count /\ counter_pending' = FALSE /\ UNCHANGED counter_failed
    <3>1. /\ UNCHANGED <<flash, loaded, journal_ready, boot_count, persist_block, boot_pc>>
          /\ sys_pc = "counter" /\ counter_pending /\ journal_ready
      BY <1>0, <1>7 DEF CounterSave, CounterDue, OrderInv, LoadInv
    <3>2. ~counter_failed => \A s \in Slots : Valid(flash[s]) => flash[s].boot <= boot_count
      BY <1>t, <3>1 DEF CounterInv
    <3>. QED  BY <2>1, <3>1, <3>2 DEF CounterInv, Valid
  <2>2. CASE counter_failed' = TRUE
    BY <2>2 DEF CounterInv
  <2>. QED  BY <1>7, <2>1, <2>2 DEF CounterSave
<1>8. CASE BlockSaved
  <2>1. /\ UNCHANGED <<flash_count, counter_failed, loaded, journal_ready, boot_count,
                       counter_pending, boot_pc>>
        /\ flash' = [flash EXCEPT ![next_slot] = persist_block] /\ sys_pc' = "saved"
        /\ sys_pc = "block"
    BY <1>8 DEF BlockSaved
  <2>2. ~counter_failed => persist_block.boot <= flash_count
    BY <1>0, <1>t, <2>1 DEF CounterInv, OrderInv, LoadInv
  <2>3. ~counter_failed => \A s \in Slots : Valid(flash'[s]) => flash'[s].boot <= flash_count
    BY <1>0, <2>1, <2>2 DEF CounterInv, TypeOK
  <2>. QED  BY <2>1, <2>3 DEF CounterInv, Valid
<1>9. CASE BlockFailed
  <2>1. /\ UNCHANGED <<flash_count, counter_failed, loaded, journal_ready, boot_count,
                       counter_pending, boot_pc>>
        /\ sys_pc' = "failed"
    BY <1>9 DEF BlockFailed
  <2>2. \A s \in Slots : Valid(flash'[s]) => Valid(flash[s]) /\ flash'[s] = flash[s]
    BY <1>0, <1>9, ClearSlot DEF BlockFailed
  <2>. QED  BY <2>1, <2>2 DEF CounterInv, Valid
<1>10. CASE PersistEnd
  BY <1>10 DEF PersistEnd, CounterInv, Valid
<1>11. ASSUME NEW u \in Slots, LoadSlot(u) PROVE CounterInv'
  <2>1. CounterKey \in loaded' <=> CounterKey \in loaded
    BY <1>11 DEF LoadSlot, CounterKey, Slots
  <2>. QED  BY <1>11, <2>1 DEF LoadSlot, CounterInv, Valid
<1>12. CASE LoadCounter
  <2>1. ~journal_ready
    BY <1>0, <1>12 DEF LoadCounter, OrderInv, LoadInv
  <2>2. sys_pc \notin {"counter", "block"}
    BY <1>0, <2>1 DEF OrderInv, LoadInv
  <2>. QED  BY <1>12, <2>1, <2>2 DEF LoadCounter, CounterInv, Valid
<1>13. CASE SettingsLoaded
  <2>1. ~journal_ready /\ loaded = SettingsKeys
    BY <1>0, <1>13 DEF SettingsLoaded, OrderInv, LoadInv
  <2>2. sys_pc \notin {"counter", "block"} /\ CounterKey \in loaded
    BY <1>0, <2>1 DEF OrderInv, LoadInv, SettingsKeys
  <2>. QED  BY <1>13, <2>1, <2>2 DEF SettingsLoaded, CounterInv, Valid
<1>15. CASE BootCounted
  <2>1. /\ boot_pc = "restored" /\ boot_pc' = "events" /\ journal_ready
        /\ boot_count' = boot_count + 1 /\ counter_pending' = TRUE
        /\ UNCHANGED <<flash, flash_count, counter_failed, loaded, journal_ready, persist_block,
                       sys_pc>>
    BY <1>0, <1>15 DEF BootCounted, CountBoot, OrderInv, LoadInv
  <2>. QED  BY <2>1 DEF CounterInv, Valid
<1>14. CASE Crash
  <2>0. /\ counter_pending' = FALSE /\ loaded' = {} /\ journal_ready' = FALSE /\ sys_pc' = "idle"
    BY <1>14 DEF Crash
  <2>1. SUFFICES ASSUME ~counter_failed',
                        NEW s \in Slots, Valid(flash'[s])
                 PROVE  flash'[s].boot <= flash_count'
    BY <2>0 DEF CounterInv, Valid
  <2>2. CASE sys_pc = "block"
    <3>1. UNCHANGED <<flash_count, counter_failed>>
      BY <1>14, <2>2 DEF Crash
    <3>2. PICK left \in {flash[next_slot], EmptyBlock, persist_block} :
               flash' = [flash EXCEPT ![next_slot] = left]
      BY <1>14, <2>2 DEF Crash
    <3>3. CASE left \in {flash[next_slot], EmptyBlock}
      <4>1. Valid(flash[s]) /\ flash'[s] = flash[s]
        BY <1>0, <2>1, <2>2, <3>2, <3>3, ClearSlot
      <4>. QED  BY <2>1, <3>1, <4>1 DEF CounterInv
    <3>4. CASE left = persist_block
      <4>1. persist_block.boot <= flash_count
        BY <1>0, <1>t, <2>1, <2>2, <3>1 DEF CounterInv, OrderInv, LoadInv
      <4>. QED  BY <1>0, <2>1, <3>1, <3>2, <3>4, <4>1 DEF CounterInv, TypeOK
    <3>. QED  BY <3>2, <3>3, <3>4
  <2>3. CASE sys_pc # "block"
    <3>1. UNCHANGED flash
      BY <1>14, <2>3 DEF Crash
    <3>2. /\ ~counter_failed
          /\ \/ flash_count' = flash_count
             \/ flash_count' = boot_count /\ sys_pc = "counter" /\ counter_pending
      <4>1. CASE sys_pc = "counter" /\ counter_pending
        BY <1>14, <2>1, <4>1 DEF Crash
      <4>2. CASE ~(sys_pc = "counter" /\ counter_pending)
        BY <1>14, <2>1, <4>2 DEF Crash
      <4>. QED  BY <4>1, <4>2
    <3>3. flash[s].boot <= flash_count
      BY <2>1, <3>1, <3>2 DEF CounterInv
    <3>4. flash_count' >= flash_count
      BY <1>0, <1>t, <3>2 DEF CounterInv, OrderInv, LoadInv
    <3>5. flash_count' \in Nat
      BY <1>t, <3>2
    <3>. QED  BY <1>t, <3>1, <3>3, <3>4, <3>5
  <2>. QED  BY <2>2, <2>3
<1>. QED
  BY <1>u, <1>1, <1>2, <1>3, <1>4, <1>5, <1>6, <1>7, <1>8, <1>9, <1>10, <1>11, <1>12, <1>13, <1>14,
     <1>15
  DEF Next, Writer, Boot

\* No later boot can take the number of a boot that has blocks in storage, as
\* long as the counter itself was saved (totem_boot_diagnostics_persist runs
\* before settings_save_one of the block).
THEOREM BootNumbersCovered == Spec => []CounterCoversJournal
<1>1. Init => CounterInv
  BY DEF Init, CounterInv, Valid, EmptyBlock
<1>2. CounterInv => CounterCoversJournal
  BY DEF CounterInv, CounterCoversJournal
<1>. QED  BY <1>1, <1>2, CounterStep, JournalInvHolds, PTL DEF Spec

-----------------------------------------------------------------------------
(***************************************************************************)
(* More about Journal: the events in the ring and in the saved blocks, and *)
(* that no request to save is forgotten.  The ring is read from its newest *)
(* entry backwards, which takes the remainders out of its arithmetic.      *)
(***************************************************************************)

-----------------------------------------------------------------------------
(* The ring.                                                               *)

\* The place of the entry that is d entries older than the newest one, in a
\* ring whose next free place is h.
Back(h, d) == IF h - 1 - d >= 0 THEN h - 1 - d ELSE h - 1 - d + RING_CAP

\* The entry of a sequence number in the ring, counted from the newest one.
LEMMA RingEntryBack ==
    ASSUME TypeOK, NEW d \in 0 .. ring_count - 1
    PROVE  /\ RingEntry(ring_seq - d) = ring[Back(ring_head, d)]
           /\ Back(ring_head, d) \in 0 .. RING_CAP - 1
<1>. USE JournalAssumption
<1>0. /\ RING_CAP \in Nat \ {0} /\ ring_head \in 0 .. RING_CAP - 1 /\ ring_count \in 0 .. RING_CAP
      /\ ring_seq \in Nat
  BY DEF TypeOK
<1>1. RingStart = IF ring_head < ring_count THEN ring_head + RING_CAP - ring_count
                  ELSE ring_head - ring_count
  <2>. DEFINE h == ring_head + RING_CAP - ring_count
  <2>1. h \in 0 .. RING_CAP + RING_CAP - 1
    BY <1>0
  <2>2. RingStart = h % RING_CAP
    BY DEF RingStart
  <2>. HIDE DEF h
  <2>3. h % RING_CAP = IF h < RING_CAP THEN h ELSE h - RING_CAP
    BY <1>0, <2>1, WrapOnce
  <2>. QED  BY <1>0, <2>2, <2>3 DEF h
<1>. DEFINE k == RingStart + ((ring_seq - d) - FirstAvailable)
<1>2. k = RingStart + ring_count - 1 - d
  BY <1>0, <1>1 DEF FirstAvailable
<1>3. RingEntry(ring_seq - d) = ring[k % RING_CAP]
  BY DEF RingEntry
<1>. HIDE DEF k
<1>4. k \in 0 .. RING_CAP + RING_CAP - 1
  BY <1>0, <1>1, <1>2
<1>5. k % RING_CAP = IF k < RING_CAP THEN k ELSE k - RING_CAP
  BY <1>0, <1>4, WrapOnce
<1>6. k % RING_CAP = Back(ring_head, d)
  BY <1>0, <1>1, <1>2, <1>5 DEF Back
<1>7. Back(ring_head, d) \in 0 .. RING_CAP - 1
  BY <1>0 DEF Back
<1>. QED  BY <1>3, <1>6, <1>7

\* record_event puts the new entry in front of the others.
LEMMA InsertBack ==
    ASSUME TypeOK, NEW p \in BOOLEAN, Insert(p)
    PROVE  /\ ring_count' \in 1 .. ring_count + 1
           /\ ring'[Back(ring_head', 0)] = [id |-> recorded + 1, durable |-> p]
           /\ \A d \in 1 .. ring_count' - 1 :
                 /\ d - 1 \in 0 .. ring_count - 1
                 /\ ring'[Back(ring_head', d)] = ring[Back(ring_head, d - 1)]
<1>. USE JournalAssumption
<1>0. /\ RING_CAP \in Nat \ {0} /\ ring_head \in 0 .. RING_CAP - 1 /\ ring_count \in 0 .. RING_CAP
      /\ ring \in [0 .. RING_CAP - 1 -> Event]
  BY DEF TypeOK
<1>1. ring_head' = IF ring_head + 1 < RING_CAP THEN ring_head + 1 ELSE 0
  <2>. DEFINE h == ring_head + 1
  <2>1. h \in 0 .. RING_CAP + RING_CAP - 1
    BY <1>0
  <2>2. ring_head' = h % RING_CAP
    BY DEF Insert, NextHead
  <2>. HIDE DEF h
  <2>3. h % RING_CAP = IF h < RING_CAP THEN h ELSE h - RING_CAP
    BY <1>0, <2>1, WrapOnce
  <2>. QED  BY <1>0, <2>2, <2>3 DEF h
<1>2. /\ ring_count' = IF ring_count < RING_CAP THEN ring_count + 1 ELSE ring_count
      /\ ring' = [ring EXCEPT ![ring_head] = [id |-> recorded + 1, durable |-> p]]
  BY DEF Insert
<1>3. Back(ring_head', 0) = ring_head
  BY <1>0, <1>1 DEF Back
<1>4. ring_count' \in 1 .. ring_count + 1
  BY <1>0, <1>2
<1>5. ASSUME NEW d \in 1 .. ring_count' - 1
      PROVE  /\ d - 1 \in 0 .. ring_count - 1
             /\ Back(ring_head', d) = Back(ring_head, d - 1)
             /\ Back(ring_head, d - 1) \in 0 .. RING_CAP - 1
             /\ Back(ring_head, d - 1) # ring_head
  BY <1>0, <1>1, <1>2 DEF Back
<1>. QED  BY <1>0, <1>2, <1>3, <1>4, <1>5

\* Whether a durable event waits in the ring, counted from the newest entry.
UnsavedAgo ==
    \E d \in 0 .. ring_count - 1 : /\ ring_seq - d > persisted_event_seq
                                   /\ ring[Back(ring_head, d)].durable

\* Both descriptions of an unsaved event agree.
LEMMA UnsavedBack == TypeOK => (Unsaved <=> UnsavedAgo)
<1>. SUFFICES ASSUME TypeOK PROVE Unsaved <=> UnsavedAgo
  OBVIOUS
<1>0. ring_count \in 0 .. RING_CAP /\ ring_seq \in Nat /\ RING_CAP \in Nat
  BY JournalAssumption DEF TypeOK
<1>1. ASSUME NEW k \in 0 .. RING_CAP - 1, k < ring_count,
             FirstAvailable + k > persisted_event_seq, RingEntry(FirstAvailable + k).durable
      PROVE  UnsavedAgo
  <2>. DEFINE d == ring_count - 1 - k
  <2>1. d \in 0 .. ring_count - 1 /\ FirstAvailable + k = ring_seq - d
    BY <1>0, <1>1 DEF FirstAvailable
  <2>. HIDE DEF d
  <2>2. RingEntry(ring_seq - d) = ring[Back(ring_head, d)]
    BY <2>1, RingEntryBack
  <2>. QED  BY <1>1, <2>1, <2>2 DEF UnsavedAgo
<1>2. ASSUME NEW d \in 0 .. ring_count - 1, ring_seq - d > persisted_event_seq,
             ring[Back(ring_head, d)].durable
      PROVE  Unsaved
  <2>. DEFINE k == ring_count - 1 - d
  <2>1. k \in 0 .. RING_CAP - 1 /\ k < ring_count /\ FirstAvailable + k = ring_seq - d
    BY <1>0, <1>2 DEF FirstAvailable
  <2>. HIDE DEF k
  <2>2. RingEntry(FirstAvailable + k) = ring[Back(ring_head, d)]
    BY <2>1, RingEntryBack
  <2>. QED  BY <1>2, <2>1, <2>2 DEF Unsaved
<1>. QED  BY <1>1, <1>2 DEF Unsaved, UnsavedAgo

-----------------------------------------------------------------------------
(* No lost wakeup.                                                         *)

\* What will bring the writer to an unsaved event.
WriteComing ==
    \/ persist_queued \/ persist_timer # NONE
    \/ \E t \in Threads : call[t].pc # "idle"
    \/ sys_pc \in {"persist", "counter", "block", "saved", "failed"}
    \/ boot_pc \in {"restored", "events"} /\ (boot_urgent \/ boot_left > 0)

\* A timer that runs has at least a tick left, and so has one about to be set
\* by a call that is not urgent.
WakeInv ==
    /\ journal_ready /\ Unsaved => WriteComing
    /\ persist_timer # 0
    /\ \A t \in Threads : call[t].pc = "call" /\ ~call[t].urgent => call[t].wait > 0

\* A record that does not ask for a save leaves no new event unsaved.
LEMMA TimingUnsaved ==
    ASSUME TypeOK, TypeOK', Insert(FALSE), UNCHANGED persisted_event_seq, Unsaved'
    PROVE  Unsaved
<1>0. UnsavedAgo'
  BY UnsavedBack, PTL
<1>1. PICK d \in 0 .. ring_count' - 1 : /\ ring_seq' - d > persisted_event_seq'
                                        /\ ring'[Back(ring_head', d)].durable
  BY <1>0 DEF UnsavedAgo, Back
<1>2. d # 0
  <2>1. ring'[Back(ring_head', 0)] = [id |-> recorded + 1, durable |-> FALSE]
    BY InsertBack
  <2>. QED  BY <1>1, <2>1
<1>3. ring_count' \in Nat /\ ring_seq \in Nat /\ ring_seq' = ring_seq + 1
  BY DEF TypeOK, Insert
<1>4. d \in 1 .. ring_count' - 1
  BY <1>2
<1>5. /\ d - 1 \in 0 .. ring_count - 1
      /\ ring'[Back(ring_head', d)] = ring[Back(ring_head, d - 1)]
  BY <1>4, InsertBack
<1>6. ring_seq - (d - 1) > persisted_event_seq
  BY <1>1, <1>3, <1>4
<1>. QED  BY <1>1, <1>5, <1>6, UnsavedBack DEF UnsavedAgo

\* An unsaved event is one that the writer would still take from the ring.
LEMMA NothingUnsaved ==
    TypeOK /\ Unsaved => ring_seq > persisted_event_seq /\ FirstNew <= ring_seq
<1>. SUFFICES ASSUME TypeOK, Unsaved
              PROVE  ring_seq > persisted_event_seq /\ FirstNew <= ring_seq
  OBVIOUS
<1>1. PICK d \in 0 .. ring_count - 1 : ring_seq - d > persisted_event_seq
  BY UnsavedBack DEF UnsavedAgo
<1>2. ring_count \in Nat /\ ring_seq \in Nat /\ persisted_event_seq \in Nat
  BY DEF TypeOK
<1>. QED  BY <1>1, <1>2 DEF FirstNew, FirstAvailable

\* A step that leaves the ring and the saved position alone changes nothing about
\* the events that are unsaved.
LEMMA UnsavedFrame ==
    ASSUME UNCHANGED <<ring, ring_head, ring_count, ring_seq, persisted_event_seq>>, Unsaved'
    PROVE  Unsaved
  BY DEF Unsaved, FirstAvailable, RingEntry, RingStart

\* Every action keeps a write coming to an unsaved event.
LEMMA WakeStep == TypeOK /\ TypeOK' /\ OrderInv /\ WakeInv /\ [Next]_vars => WakeInv'
<1>. SUFFICES ASSUME TypeOK, TypeOK', OrderInv, WakeInv, [Next]_vars PROVE WakeInv'
  OBVIOUS
<1>. USE DEF ringVars, storeVars, savedVars, bootVars, flashVars, workVars, ctlVars
<1>. DEFINE Waits == \A t \in Threads : call[t].pc = "call" /\ ~call[t].urgent => call[t].wait > 0
<1>0. Main \in Threads /\ Sys \in Threads /\ Recorders \subseteq Threads
  BY DEF Threads
<1>1. call \in [Threads -> Call] /\ persist_timer # 0 /\ Waits
  BY TypeSplit DEF WakeInv, CallType
<1>s. ASSUME NEW t \in Threads, NEW u, CallSchedule(t, u)
      PROVE  Waits' /\ \E x \in Threads : call'[x].pc # "idle"
  BY <1>1, <1>s DEF CallSchedule
<1>c. ASSUME NEW t \in Threads, NEW u, CallSchedule(t, u), UNCHANGED persist_timer
      PROVE  WakeInv'
  BY <1>1, <1>s, <1>c DEF WakeInv, WriteComing
<1>f. ASSUME UNCHANGED <<persist_queued, persist_timer, call, boot_pc, boot_urgent, boot_left>>,
             \/ sys_pc' \in {"persist", "counter", "block", "saved", "failed"}
             \/ sys_pc' = sys_pc
             \/ {sys_pc, sys_pc'} \subseteq {"idle", "drain"},
             journal_ready' /\ Unsaved' => journal_ready /\ Unsaved
      PROVE  WakeInv'
  BY <1>f DEF WakeInv, WriteComing
<1>u. CASE UNCHANGED vars
  BY <1>f, <1>u, UnsavedFrame DEF vars
<1>2. ASSUME NEW t \in Recorders, Record(t) PROVE WakeInv'
  BY <1>0, <1>c, <1>2 DEF Record
<1>3. ASSUME NEW t \in Recorders, RecordTiming(t) PROVE WakeInv'
  BY <1>f, <1>3, TimingUnsaved DEF RecordTiming
<1>4. ASSUME NEW t \in Threads, SchedulePersist(t) PROVE WakeInv'
  <2>1. /\ UNCHANGED <<ring, ring_head, ring_count, ring_seq, persisted_event_seq, persist_timer,
                       journal_ready>>
        /\ \A x \in Threads \ {t} : call'[x] = call[x]
        /\ call'[t] = IF journal_ready
                      THEN [pc |-> "call", urgent |-> call[t].urgent,
                            wait |-> WaitTicks(call[t].urgent)]
                      ELSE IdleCall
    BY <1>1, <1>4 DEF SchedulePersist
  <2>2. ~call[t].urgent => WaitTicks(call[t].urgent) > 0
    BY JournalAssumption DEF WaitTicks, TypeOK
  <2>3. Waits'
    BY <1>1, <2>1, <2>2 DEF IdleCall
  <2>4. journal_ready' => \E x \in Threads : call'[x].pc # "idle"
    BY <2>1
  <2>. QED  BY <1>1, <2>1, <2>3, <2>4 DEF WakeInv, WriteComing
<1>5. ASSUME NEW t \in Threads, ScheduleWork(t) PROVE WakeInv'
  <2>1. /\ call[t].pc = "call" /\ call[t] \in Call
        /\ \A x \in Threads \ {t} : call'[x] = call[x]
        /\ call'[t] = IdleCall
    BY <1>1, <1>5 DEF ScheduleWork
  <2>2. Waits'
    BY <1>1, <2>1 DEF IdleCall
  <2>3. persist_timer' # 0 /\ (persist_queued' \/ persist_timer' # NONE)
    <3>1. call[t].wait \in 0 .. PERSIST_MIN
      BY <2>1 DEF Call
    <3>2. CASE call[t].urgent
      <4>1. /\ persist_queued' = (persist_queued \/ call[t].wait = 0)
            /\ persist_timer' = IF call[t].wait = 0 THEN NONE ELSE call[t].wait
        BY <1>5, <3>2 DEF ScheduleWork
      <4>2. call[t].wait = 0 => persist_queued'
        BY <4>1, Zenon
      <4>. QED  BY <3>1, <4>1, <4>2, JournalAssumption DEF NONE
    <3>3. CASE ~call[t].urgent
      <4>1. call[t].wait > 0
        BY <1>1, <2>1, <3>3
      <4>. QED  BY <1>1, <1>5, <3>1, <3>3, <4>1, JournalAssumption DEF ScheduleWork, NONE
    <3>. QED  BY <3>2, <3>3
  <2>. QED  BY <2>2, <2>3 DEF WakeInv, WriteComing
<1>6. CASE Tick
  <2>1. /\ UNCHANGED <<ring, ring_head, ring_count, ring_seq, persisted_event_seq, call, sys_pc,
                       boot_pc, boot_urgent, boot_left, journal_ready>>
        /\ persist_timer' = IF persist_timer > 1 THEN persist_timer - 1 ELSE NONE
        /\ persist_queued' = (persist_queued \/ persist_timer = 1)
    BY <1>6 DEF Tick
  <2>2. persist_timer \in -1 .. PERSIST_MIN /\ PERSIST_MIN \in Nat
    BY JournalAssumption DEF TypeOK
  <2>3. persist_timer' # 0
    BY <2>1, <2>2 DEF NONE
  <2>4. persist_timer # NONE => persist_queued' \/ persist_timer' # NONE
    <3>1. persist_timer = 1 => persist_queued'
      BY <2>1, Zenon
    <3>. QED  BY <1>1, <2>1, <2>2, <3>1 DEF NONE
  <2>5. WriteComing => WriteComing'
    BY <2>1, <2>4 DEF WriteComing
  <2>. QED  BY <1>1, <2>1, <2>3, <2>5, UnsavedFrame DEF WakeInv
<1>7. CASE FlushCounts
  BY <1>1, <1>7 DEF FlushCounts, WakeInv, WriteComing
<1>8. CASE PersistWork
  BY <1>1, <1>8 DEF PersistWork, WakeInv, WriteComing
<1>9. CASE PersistSkip
  <2>0. UNCHANGED <<ring, ring_head, ring_count, ring_seq, persisted_event_seq, persist_timer,
                    journal_ready>>
    BY <1>9 DEF PersistSkip
  <2>1. CASE ~journal_ready /\ UNCHANGED call
    BY <1>1, <2>0, <2>1 DEF WakeInv
  <2>2. CASE CallSchedule(Sys, TRUE)
    BY <1>0, <1>c, <2>0, <2>2
  <2>3. CASE FirstNew > ring_seq /\ UNCHANGED call
    <3>1. ~Unsaved
      <4>1. FirstNew \in Int /\ ring_seq \in Int
        BY DEF FirstNew, FirstAvailable, TypeOK
      <4>. QED  BY <2>3, <4>1, NothingUnsaved
    <3>2. ~Unsaved'
      BY <2>0, <3>1, UnsavedFrame
    <3>. QED  BY <1>1, <2>0, <2>3, <3>2 DEF WakeInv
  <2>. QED  BY <1>9, <2>1, <2>2, <2>3 DEF PersistSkip
<1>10. CASE PersistBegin \/ CounterSkip \/ CounterSave \/ BlockSaved \/ BlockFailed
  <2>1. /\ UNCHANGED <<persist_timer, call>>
        /\ sys_pc' \in {"counter", "block", "saved", "failed"}
    BY <1>10 DEF PersistBegin, CounterSkip, CounterSave, BlockSaved, BlockFailed
  <2>. QED  BY <1>1, <2>1 DEF WakeInv, WriteComing
<1>11. CASE PersistEnd
  <2>1. UNCHANGED <<ring, ring_head, ring_count, ring_seq, persist_timer, journal_ready>>
    BY <1>11 DEF PersistEnd
  <2>2. CASE CallSchedule(Sys, TRUE)
    BY <1>0, <1>c, <2>1, <2>2
  <2>3. CASE ~MorePending(persist_requested', persisted_event_seq') /\ UNCHANGED call
    <3>1. ~(ring_seq > persisted_event_seq')
      BY <2>3 DEF MorePending
    <3>2. ~Unsaved'
      <4>1. TypeOK' /\ Unsaved' => (ring_seq > persisted_event_seq)'
        BY NothingUnsaved, PTL
      <4>. QED  BY <2>1, <3>1, <4>1
    <3>. QED  BY <1>1, <2>1, <2>3, <3>2 DEF WakeInv
  <2>. QED  BY <1>11, <2>2, <2>3 DEF PersistEnd
<1>12. CASE TimingDrain
  <2>1. sys_pc \in {"idle", "drain"} /\ sys_pc' \in {"idle", "drain"}
    BY <1>12 DEF TimingDrain, SysIdle
  <2>. QED  BY <1>f, <1>12, <2>1, TimingUnsaved DEF TimingDrain
<1>13. CASE (\E s \in Slots : LoadSlot(s)) \/ LoadCounter
  <2>1. ~journal_ready' /\ UNCHANGED <<persist_timer, call>>
    BY <1>13 DEF LoadSlot, LoadCounter, OrderInv, LoadInv
  <2>. QED  BY <1>1, <2>1 DEF WakeInv
<1>14. CASE SettingsLoaded
  <2>1. /\ UNCHANGED <<persist_timer, call, ring_count, persisted_event_seq>>
        /\ boot_pc' = "restored" /\ boot_urgent' = (ring_seq' > persisted_event_seq)
    BY <1>14 DEF SettingsLoaded
  <2>2. TypeOK' /\ Unsaved' => (ring_seq > persisted_event_seq)'
    BY NothingUnsaved, PTL
  <2>3. Unsaved' => boot_urgent'
    BY <2>1, <2>2
  <2>. QED  BY <1>1, <2>1, <2>3 DEF WakeInv, WriteComing
<1>15. CASE BootRecord
  BY <1>0, <1>c, <1>15 DEF BootRecord
<1>16. CASE BootDone
  <2>1. CASE CallSchedule(Main, TRUE)
    BY <1>0, <1>c, <1>16, <2>1 DEF BootDone
  <2>2. CASE ~boot_urgent /\ UNCHANGED call
    <3>1. /\ UNCHANGED <<ring, ring_head, ring_count, ring_seq, persisted_event_seq, persist_queued,
                         persist_timer, sys_pc, journal_ready>>
          /\ boot_left = 0
      BY <1>16 DEF BootDone
    <3>2. WriteComing => WriteComing'
      BY <2>2, <3>1 DEF WriteComing
    <3>. QED  BY <1>1, <2>2, <3>1, <3>2, UnsavedFrame DEF WakeInv
  <2>. QED  BY <1>16, <2>1, <2>2 DEF BootDone
<1>18. CASE BootCounted
  <2>1. /\ UNCHANGED <<ring, ring_head, ring_count, ring_seq, persisted_event_seq, persist_queued,
                       persist_timer, sys_pc, journal_ready, call, boot_urgent>>
        /\ boot_pc' = "events" /\ boot_left' = BOOT_EVENTS
    BY <1>18 DEF BootCounted
  <2>2. boot_left > 0 => boot_left' > 0
    BY <1>0, <2>1, JournalAssumption DEF TypeOK
  <2>3. WriteComing => WriteComing'
    BY <2>1, <2>2 DEF WriteComing
  <2>. QED  BY <1>1, <2>1, <2>3, UnsavedFrame DEF WakeInv
<1>17. CASE Crash
  <2>1. ~journal_ready' /\ persist_timer' = NONE /\ call' = [t \in Threads |-> IdleCall]
    BY <1>17 DEF Crash
  <2>. QED  BY <2>1 DEF WakeInv, NONE, IdleCall
<1>. QED
  BY <1>u, <1>2, <1>3, <1>4, <1>5, <1>6, <1>7, <1>8, <1>9, <1>10, <1>11, <1>12, <1>13, <1>14,
     <1>15, <1>16, <1>17, <1>18
  DEF Next, ThreadStep, Writer, Boot

\* An event whose record asked for a save always has a write coming, whatever
\* happens between the unlocks of record_event, schedule_persist_coalesced and
\* totem_host_event_log_persist.
THEOREM NoWakeupLost == Spec => []NoLostWakeup
<1>1. Init => WakeInv
  BY DEF Init, WakeInv, NONE, IdleCall
<1>2. WakeInv => NoLostWakeup
  BY DEF WakeInv, WriteComing, NoLostWakeup
<1>3. JournalInv => TypeOK /\ OrderInv
  BY DEF JournalInv
<1>. QED  BY <1>1, <1>2, <1>3, WakeStep, JournalInvHolds, PTL DEF Spec

-----------------------------------------------------------------------------
(* The identities of the saved events.                                     *)

\* The ring holds the events recorded last, without a gap.
RingIds == \A d \in 0 .. ring_count - 1 : ring[Back(ring_head, d)].id = recorded - d

\* A block holds events recorded one after the other.
Consecutive(b) == \A i \in 0 .. BLOCK_EVENTS - 1 : i < b.count => b.ev[i] = b.ev[0] + i
LastId(b) == b.ev[0] + b.count - 1

\* Blocks in flash hold consecutive events, later blocks later ones.
FlashIds ==
    /\ \A s \in Slots : Valid(flash[s]) => Consecutive(flash[s])
    /\ \A s, t \in Slots :
          Valid(flash[s]) /\ Valid(flash[t]) /\ flash[s].journal_seq < flash[t].journal_seq =>
              LastId(flash[s]) < flash[t].ev[0]

\* What is saved was recorded before what the ring holds, as long as the ring
\* has no numbers, and before the events from persisted_event_seq on afterwards.
SavedBefore ==
    /\ ~journal_ready =>
          \A s \in Slots : Valid(flash[s]) => LastId(flash[s]) <= recorded - ring_count
    /\ journal_ready =>
          /\ persisted_event_seq <= ring_seq
          /\ \A s \in Slots : Valid(flash[s]) /\ ~(sys_pc = "saved" /\ s = next_slot) =>
                LastId(flash[s]) <= recorded - (ring_seq - persisted_event_seq)

\* The block being written holds the events of its sequence numbers.
BlockIds ==
    sys_pc \in {"counter", "block", "saved"} =>
        /\ Consecutive(persist_block)
        /\ persist_block.ev[0] = recorded - (ring_seq - persist_block.first_event_seq)
        /\ LastSeq(persist_block) <= ring_seq

IdInv == RingIds /\ FlashIds /\ SavedBefore /\ BlockIds

\* The identities in a block are numbers.
LEMMA BlockIdTypes ==
    ASSUME NEW b \in Block
    PROVE  /\ b.ev[0] \in Nat /\ b.count \in Nat /\ b.first_event_seq \in Nat
           /\ LastId(b) \in Int /\ LastSeq(b) \in Int
<1>1. b.ev \in [0 .. BLOCK_EVENTS - 1 -> Nat] /\ b.count \in Nat /\ b.first_event_seq \in Nat
  BY JournalAssumption DEF Block
<1>2. 0 \in 0 .. BLOCK_EVENTS - 1
  BY JournalAssumption
<1>3. b.ev[0] \in Nat
  BY <1>1, <1>2
<1>. QED  BY <1>1, <1>3 DEF LastId, LastSeq

\* The numbers IdInv speaks of.
LEMMA IdTypes ==
    ASSUME TypeOK
    PROVE  /\ recorded \in Nat /\ ring_seq \in Nat /\ persisted_event_seq \in Nat
           /\ ring_count \in Nat /\ next_slot \in Slots
           /\ \A s \in Slots : flash[s] \in Block /\ LastId(flash[s]) \in Int
                                 /\ flash[s].ev[0] \in Nat /\ flash[s].journal_seq \in Nat
<1>1. \A s \in Slots : flash[s] \in Block
  BY DEF TypeOK
<1>2. \A s \in Slots : flash[s].journal_seq \in Nat
  BY FlashTypes
<1>3. \A s \in Slots : LastId(flash[s]) \in Int /\ flash[s].ev[0] \in Nat
  BY <1>1, BlockIdTypes
<1>4. /\ recorded \in Nat /\ ring_seq \in Nat /\ persisted_event_seq \in Nat
      /\ ring_count \in Nat /\ next_slot \in Slots
  BY JournalAssumption DEF TypeOK
<1>. QED  BY <1>1, <1>2, <1>3, <1>4

\* record_event moves the ring, the identities and the numbers together.
LEMMA InsertIds ==
    ASSUME TypeOK, IdInv, NEW p \in BOOLEAN, Insert(p),
           UNCHANGED <<flash, journal_ready, persisted_event_seq, next_slot, persist_block>>,
           \/ sys_pc' = sys_pc
           \/ sys_pc' \in {"idle", "drain", "persist"} /\ sys_pc # "saved"
    PROVE  IdInv'
<1>0. /\ recorded' = recorded + 1 /\ ring_seq' = ring_seq + 1 /\ ring_count' \in 1 .. ring_count + 1
      /\ ring_count' \in Nat
  <2>1. ring_count' \in 1 .. ring_count + 1
    BY InsertBack
  <2>. QED  BY <2>1, IdTypes DEF Insert
<1>1. RingIds'
  <2>1. SUFFICES ASSUME NEW d \in 0 .. ring_count' - 1
                 PROVE  ring'[Back(ring_head', d)].id = recorded' - d
    BY DEF RingIds, Back
  <2>2. CASE d = 0
    <3>1. ring'[Back(ring_head', 0)] = [id |-> recorded + 1, durable |-> p]
      BY InsertBack
    <3>. QED  BY <1>0, <2>2, <3>1, IdTypes
  <2>3. CASE d # 0
    <3>1. d \in 1 .. ring_count' - 1
      BY <2>3
    <3>2. /\ d - 1 \in 0 .. ring_count - 1
          /\ ring'[Back(ring_head', d)] = ring[Back(ring_head, d - 1)]
      BY <3>1, InsertBack
    <3>3. ring[Back(ring_head, d - 1)].id = recorded - (d - 1)
      BY <3>2 DEF IdInv, RingIds
    <3>. QED  BY <1>0, <3>1, <3>2, <3>3, IdTypes
  <2>. QED  BY <2>2, <2>3
<1>2. FlashIds'
  BY DEF IdInv, FlashIds, Valid, Consecutive, LastId
<1>3. SavedBefore'
  <2>1. ASSUME ~journal_ready, NEW s \in Slots, Valid(flash[s])
        PROVE  LastId(flash[s]) <= recorded' - ring_count'
    <3>1. LastId(flash[s]) <= recorded - ring_count
      BY <2>1 DEF IdInv, SavedBefore
    <3>. QED  BY <1>0, <3>1, IdTypes
  <2>2. ASSUME journal_ready PROVE persisted_event_seq <= ring_seq'
    BY <1>0, <2>2, IdTypes DEF IdInv, SavedBefore
  <2>3. ring_seq' - persisted_event_seq = ring_seq - persisted_event_seq + 1
        /\ recorded' - (ring_seq' - persisted_event_seq) = recorded - (ring_seq - persisted_event_seq)
    BY <1>0, IdTypes
  <2>. QED  BY <2>1, <2>2, <2>3 DEF IdInv, SavedBefore, Valid, LastId
<1>4. BlockIds'
  <2>1. SUFFICES ASSUME sys_pc \in {"counter", "block", "saved"}
                 PROVE  /\ Consecutive(persist_block)
                        /\ persist_block.ev[0] = recorded' - (ring_seq' - persist_block.first_event_seq)
                        /\ LastSeq(persist_block) <= ring_seq'
    BY DEF BlockIds, Consecutive, LastSeq
  <2>2. /\ Consecutive(persist_block)
        /\ persist_block.ev[0] = recorded - (ring_seq - persist_block.first_event_seq)
        /\ LastSeq(persist_block) <= ring_seq
    BY <2>1 DEF IdInv, BlockIds
  <2>3. persist_block.first_event_seq \in Nat /\ LastSeq(persist_block) \in Int
    BY BlockIdTypes DEF TypeOK
  <2>. QED  BY <1>0, <2>2, <2>3, IdTypes
<1>. QED  BY <1>1, <1>2, <1>3, <1>4 DEF IdInv

idVars == <<ring, ring_head, ring_count, ring_seq, recorded, flash, journal_ready,
            persisted_event_seq, next_slot>>

\* A step that records, saves and numbers nothing keeps the identities.
LEMMA IdFrame ==
    ASSUME IdInv, UNCHANGED idVars,
           \/ sys_pc' = sys_pc /\ UNCHANGED persist_block
           \/ sys_pc = "counter" /\ sys_pc' = "block" /\ UNCHANGED persist_block
           \/ sys_pc # "saved" /\ sys_pc' \notin {"counter", "block", "saved"}
    PROVE  IdInv'
<1>. USE DEF IdInv, idVars
<1>1. RingIds'
  BY DEF RingIds, Back
<1>2. FlashIds'
  BY DEF FlashIds, Valid, Consecutive, LastId
<1>3. SavedBefore'
  BY DEF SavedBefore, Valid, LastId
<1>4. BlockIds'
  BY DEF BlockIds, Consecutive, LastSeq
<1>. QED  BY <1>1, <1>2, <1>3, <1>4

\* The block that a write builds holds the events of its sequence numbers.
LEMMA NewBlockIds ==
    ASSUME TypeOK, RingIds, FirstNew <= ring_seq
    PROVE  /\ Consecutive(NewBlock)
           /\ NewBlock.ev[0] = recorded - (ring_seq - FirstNew)
           /\ LastSeq(NewBlock) <= ring_seq
<1>. DEFINE pending == ring_seq - FirstNew + 1
            n == IF pending < BLOCK_EVENTS THEN pending ELSE BLOCK_EVENTS
            ev == [i \in 0 .. BLOCK_EVENTS - 1 |->
                     IF i < n THEN RingEntry(FirstNew + i).id ELSE 0]
<1>0. /\ FirstNew \in Nat /\ FirstNew >= FirstAvailable /\ ring_seq \in Nat
      /\ FirstAvailable = ring_seq - ring_count + 1 /\ ring_count \in Nat /\ recorded \in Nat
      /\ BLOCK_EVENTS \in Nat \ {0}
  <2>1. FirstNew \in Nat
    BY NewBlockType
  <2>2. ring_seq \in Nat /\ ring_count \in Nat /\ recorded \in Nat /\ persisted_event_seq \in Nat
    BY IdTypes
  <2>3. FirstNew >= FirstAvailable
    BY <2>2 DEF FirstNew, FirstAvailable
  <2>. QED  BY <2>1, <2>2, <2>3, JournalAssumption DEF FirstAvailable
<1>1. n \in 1 .. BLOCK_EVENTS /\ n <= ring_seq - FirstNew + 1
  BY <1>0
<1>2. /\ NewBlock.ev = ev /\ NewBlock.count = n /\ NewBlock.first_event_seq = FirstNew
  BY DEF NewBlock
<1>. HIDE DEF n
<1>3. ASSUME NEW i \in 0 .. BLOCK_EVENTS - 1, i < n
      PROVE  ev[i] = recorded - (ring_seq - FirstNew) + i
  <2>1. PICK d : d = ring_seq - FirstNew - i
    OBVIOUS
  <2>2. d \in 0 .. ring_count - 1 /\ FirstNew + i = ring_seq - d
    BY <1>0, <1>1, <1>3, <2>1
  <2>3. RingEntry(ring_seq - d).id = recorded - d
    BY <2>2, RingEntryBack DEF RingIds
  <2>4. ev[i] = RingEntry(FirstNew + i).id
    BY <1>3
  <2>. QED  BY <1>0, <2>1, <2>2, <2>3, <2>4
<1>. HIDE DEF ev
<1>4. NewBlock.ev[0] = recorded - (ring_seq - FirstNew)
  <2>1. 0 \in 0 .. BLOCK_EVENTS - 1 /\ 0 < n
    BY <1>0, <1>1
  <2>2. ev[0] = recorded - (ring_seq - FirstNew) + 0
    BY <1>3, <2>1
  <2>. QED  BY <1>0, <1>2, <2>2
<1>5. Consecutive(NewBlock)
  BY <1>0, <1>2, <1>3, <1>4 DEF Consecutive
<1>6. LastSeq(NewBlock) <= ring_seq
  BY <1>0, <1>1, <1>2 DEF LastSeq
<1>. QED  BY <1>4, <1>5, <1>6

\* Storing the block being written keeps the identities in flash in order.
LEMMA SavedIdsOrdered ==
    ASSUME TypeOK, OrderInv, IdInv, sys_pc = "block",
           flash' = [flash EXCEPT ![next_slot] = persist_block]
    PROVE  /\ FlashIds' /\ LastId(persist_block) <= recorded
<1>1. /\ next_slot \in Slots /\ flash'[next_slot] = persist_block
      /\ \A s \in Slots \ {next_slot} : flash'[s] = flash[s]
  BY DEF TypeOK
<1>2. /\ journal_ready /\ Valid(persist_block) /\ persist_block.journal_seq = journal_seq
      /\ persist_block.first_event_seq > persisted_event_seq
      /\ \A s \in Slots : Valid(flash[s]) => flash[s].journal_seq < journal_seq
  BY DEF OrderInv, LoadInv, WriteInv
<1>3. /\ Consecutive(persist_block)
      /\ persist_block.ev[0] = recorded - (ring_seq - persist_block.first_event_seq)
      /\ LastSeq(persist_block) <= ring_seq
  BY DEF IdInv, BlockIds
<1>4. /\ persist_block.first_event_seq \in Nat /\ persist_block.count \in Nat
      /\ persist_block.ev[0] \in Nat
  BY BlockIdTypes DEF TypeOK
<1>5. LastId(persist_block) <= recorded
  BY <1>3, <1>4, IdTypes DEF LastId, LastSeq
<1>6. ASSUME NEW s \in Slots, Valid(flash[s]) PROVE LastId(flash[s]) < persist_block.ev[0]
  <2>1. LastId(flash[s]) <= recorded - (ring_seq - persisted_event_seq)
    BY <1>2, <1>6 DEF IdInv, SavedBefore
  <2>. QED  BY <1>2, <1>3, <1>4, <2>1, IdTypes
<1>7. ASSUME NEW s \in Slots, Valid(flash'[s]) PROVE Consecutive(flash'[s])
  BY <1>1, <1>3, <1>7 DEF IdInv, FlashIds
<1>8. ASSUME NEW s \in Slots, NEW t \in Slots, Valid(flash'[s]), Valid(flash'[t]),
             flash'[s].journal_seq < flash'[t].journal_seq
      PROVE  LastId(flash'[s]) < flash'[t].ev[0]
  <2>0. journal_seq \in Nat /\ \A x \in Slots : flash[x].journal_seq \in Nat
    BY IdTypes DEF TypeOK
  <2>1. s # next_slot
    BY <1>1, <1>2, <1>8, <2>0
  <2>2. Valid(flash[s]) /\ flash'[s] = flash[s]
    BY <1>1, <1>8, <2>1
  <2>3. CASE t = next_slot
    BY <1>1, <1>6, <2>2, <2>3
  <2>4. CASE t # next_slot
    BY <1>1, <1>8, <2>2, <2>4 DEF IdInv, FlashIds
  <2>. QED  BY <2>3, <2>4
<1>. QED  BY <1>5, <1>7, <1>8 DEF FlashIds, Valid, Consecutive, LastId

\* What is saved was recorded.
LEMMA SavedRecorded ==
    ASSUME TypeOK, OrderInv, IdInv, NEW s \in Slots, Valid(flash[s])
    PROVE  LastId(flash[s]) <= recorded
<1>1. CASE ~journal_ready
  BY <1>1, IdTypes DEF IdInv, SavedBefore
<1>2. CASE journal_ready /\ ~(sys_pc = "saved" /\ s = next_slot)
  <2>1. persisted_event_seq <= ring_seq
        /\ LastId(flash[s]) <= recorded - (ring_seq - persisted_event_seq)
    BY <1>2 DEF IdInv, SavedBefore
  <2>. QED  BY <2>1, IdTypes
<1>3. CASE sys_pc = "saved" /\ s = next_slot
  <2>1. flash[s] = persist_block
    BY <1>3 DEF OrderInv, WriteInv
  <2>2. /\ flash[s].ev[0] = recorded - (ring_seq - flash[s].first_event_seq)
        /\ LastSeq(flash[s]) <= ring_seq
    BY <1>3, <2>1 DEF IdInv, BlockIds
  <2>3. flash[s].first_event_seq \in Nat /\ flash[s].count \in Nat /\ flash[s].ev[0] \in Nat
    BY IdTypes, BlockIdTypes
  <2>. QED  BY <2>2, <2>3, IdTypes DEF LastId, LastSeq
<1>. QED  BY <1>1, <1>2, <1>3

\* Every action keeps the identities.
LEMMA IdStep == TypeOK /\ OrderInv /\ IdInv /\ [Next]_vars => IdInv'
<1>. SUFFICES ASSUME TypeOK, OrderInv, IdInv, [Next]_vars PROVE IdInv'
  OBVIOUS
<1>. USE DEF ringVars, storeVars, savedVars, bootVars, flashVars, workVars, ctlVars, idVars
<1>u. CASE UNCHANGED vars
  BY <1>u, IdFrame DEF vars
<1>1. ASSUME NEW t \in Recorders, Record(t) \/ RecordTiming(t) PROVE IdInv'
  BY <1>1, InsertIds DEF Record, RecordTiming
<1>2. ASSUME NEW t \in Threads, ThreadStep(t) PROVE IdInv'
  BY <1>2, IdFrame DEF ThreadStep, SchedulePersist, ScheduleWork
<1>3. CASE Tick \/ PersistWork \/ PersistSkip \/ CounterSkip \/ CounterSave
  BY <1>3, IdFrame DEF Tick, PersistWork, PersistSkip, CounterSkip, CounterSave, SysIdle
<1>4. CASE FlushCounts \/ TimingDrain
  <2>1. sys_pc # "saved" /\ sys_pc' \in {"idle", "drain", "persist"}
    BY <1>4 DEF FlushCounts, TimingDrain, SysIdle
  <2>. QED  BY <1>4, <2>1, InsertIds DEF FlushCounts, TimingDrain
<1>5. CASE BootRecord
  BY <1>5, InsertIds DEF BootRecord
<1>6. CASE LoadCounter \/ BootCounted \/ BootDone
  BY <1>6, IdFrame DEF LoadCounter, BootCounted, BootDone
<1>7. CASE PersistBegin
  <2>1. /\ UNCHANGED <<ring, ring_head, ring_count, ring_seq, recorded, flash, journal_ready,
                       persisted_event_seq, next_slot>>
        /\ persist_block' = NewBlock /\ sys_pc = "persist" /\ sys_pc' = "counter"
        /\ FirstNew <= ring_seq
    BY <1>7 DEF PersistBegin
  <2>2. RingIds' /\ FlashIds' /\ SavedBefore'
    BY <2>1 DEF IdInv, RingIds, Back, FlashIds, SavedBefore, Valid, Consecutive, LastId
  <2>3. NewBlock.first_event_seq = FirstNew
    BY DEF NewBlock
  <2>4. BlockIds'
    BY <2>1, <2>3, NewBlockIds DEF IdInv, BlockIds, Consecutive, LastSeq
  <2>. QED  BY <2>2, <2>4 DEF IdInv
<1>8. CASE BlockSaved
  <2>1. /\ UNCHANGED <<ring, ring_head, ring_count, ring_seq, recorded, journal_ready,
                       persisted_event_seq, next_slot, persist_block>>
        /\ flash' = [flash EXCEPT ![next_slot] = persist_block]
        /\ sys_pc = "block" /\ sys_pc' = "saved"
    BY <1>8 DEF BlockSaved
  <2>2. FlashIds'
    BY <2>1, SavedIdsOrdered
  <2>3. journal_ready /\ \A s \in Slots \ {next_slot} : flash'[s] = flash[s]
    BY <2>1 DEF OrderInv, LoadInv, TypeOK
  <2>4. SavedBefore'
    BY <2>1, <2>3 DEF IdInv, SavedBefore, Valid, LastId
  <2>5. RingIds' /\ BlockIds'
    BY <2>1 DEF IdInv, RingIds, Back, BlockIds, Consecutive, LastSeq
  <2>. QED  BY <2>2, <2>4, <2>5 DEF IdInv
<1>9. CASE BlockFailed
  <2>1. /\ UNCHANGED <<ring, ring_head, ring_count, ring_seq, recorded, journal_ready,
                       persisted_event_seq, next_slot, persist_block>>
        /\ sys_pc = "block" /\ sys_pc' = "failed"
    BY <1>9 DEF BlockFailed
  <2>2. \A s \in Slots : Valid(flash'[s]) => Valid(flash[s]) /\ flash'[s] = flash[s]
    BY <1>9, ClearSlot DEF BlockFailed
  <2>3. FlashIds'
    BY <2>2 DEF IdInv, FlashIds, Valid, Consecutive, LastId
  <2>4. SavedBefore'
    BY <2>1, <2>2 DEF IdInv, SavedBefore, Valid, LastId
  <2>5. RingIds' /\ BlockIds'
    BY <2>1 DEF IdInv, RingIds, Back, BlockIds
  <2>. QED  BY <2>3, <2>4, <2>5 DEF IdInv
<1>10. CASE PersistEnd
  <2>1. /\ UNCHANGED <<ring, ring_head, ring_count, ring_seq, recorded, flash, journal_ready>>
        /\ sys_pc \in {"saved", "failed"} /\ sys_pc' = "idle"
    BY <1>10 DEF PersistEnd
  <2>2. CASE sys_pc = "failed"
    BY <1>10, <2>1, <2>2, IdFrame DEF PersistEnd
  <2>3. CASE sys_pc = "saved"
    <3>0. journal_ready
      BY <2>3 DEF OrderInv, LoadInv
    <3>1. /\ persisted_event_seq' = LastSeq(persist_block)
          /\ flash[next_slot] = persist_block /\ Valid(persist_block)
          /\ persist_block.first_event_seq > persisted_event_seq
      BY <1>10, <2>3 DEF PersistEnd, OrderInv, WriteInv
    <3>2. /\ persist_block.ev[0] = recorded - (ring_seq - persist_block.first_event_seq)
          /\ LastSeq(persist_block) <= ring_seq
      BY <2>3 DEF IdInv, BlockIds
    <3>3. /\ persist_block.first_event_seq \in Nat /\ persist_block.count \in Nat
          /\ persist_block.ev[0] \in Nat /\ persist_block.count > 0
      BY <3>1, BlockIdTypes DEF TypeOK, Valid
    <3>4. LastSeq(persist_block) \in Nat /\ LastSeq(persist_block) > persisted_event_seq
      BY <3>1, <3>3, IdTypes DEF LastSeq
    <3>5. ASSUME NEW s \in Slots, Valid(flash[s])
          PROVE  LastId(flash[s]) <= recorded - (ring_seq - LastSeq(persist_block))
      <4>1. CASE s = next_slot
        BY <3>1, <3>2, <3>3, <4>1, IdTypes DEF LastId, LastSeq
      <4>2. CASE s # next_slot
        <5>1. LastId(flash[s]) <= recorded - (ring_seq - persisted_event_seq)
          BY <3>0, <3>5, <4>2 DEF IdInv, SavedBefore
        <5>. QED  BY <3>4, <5>1, IdTypes
      <4>. QED  BY <4>1, <4>2
    <3>6. SavedBefore'
      BY <2>1, <3>0, <3>1, <3>2, <3>5 DEF SavedBefore, Valid, LastId
    <3>7. RingIds' /\ FlashIds' /\ BlockIds'
      BY <2>1 DEF IdInv, RingIds, Back, FlashIds, Valid, Consecutive, LastId, BlockIds
    <3>. QED  BY <3>6, <3>7 DEF IdInv
  <2>. QED  BY <2>1, <2>2, <2>3
<1>11. ASSUME NEW u \in Slots, LoadSlot(u) PROVE IdInv'
  <2>1. /\ UNCHANGED <<ring, ring_head, ring_count, ring_seq, recorded, flash, journal_ready,
                       persist_block, sys_pc>>
        /\ ~journal_ready
    BY <1>11 DEF LoadSlot, OrderInv, LoadInv
  <2>2. RingIds' /\ FlashIds' /\ BlockIds'
    BY <2>1 DEF IdInv, RingIds, Back, FlashIds, Valid, Consecutive, LastId, BlockIds, LastSeq
  <2>3. SavedBefore'
    BY <2>1 DEF IdInv, SavedBefore, Valid, LastId
  <2>. QED  BY <2>2, <2>3 DEF IdInv
<1>12. CASE SettingsLoaded
  <2>1. /\ UNCHANGED <<ring, ring_head, ring_count, recorded, flash, persisted_event_seq,
                       persist_block, sys_pc>>
        /\ ring_seq' = persisted_event_seq + ring_count /\ journal_ready'
        /\ ~journal_ready
    BY <1>12 DEF SettingsLoaded, OrderInv, LoadInv
  <2>2. sys_pc \notin {"counter", "block", "saved"}
    BY <2>1 DEF OrderInv, LoadInv
  <2>3. RingIds' /\ FlashIds' /\ BlockIds'
    BY <2>1, <2>2 DEF IdInv, RingIds, Back, FlashIds, Valid, Consecutive, LastId, BlockIds
  <2>4. /\ recorded - (ring_seq' - persisted_event_seq) = recorded - ring_count
        /\ persisted_event_seq <= ring_seq'
    BY <2>1, IdTypes
  <2>5. SavedBefore'
    BY <2>1, <2>4 DEF IdInv, SavedBefore, Valid, LastId
  <2>. QED  BY <2>3, <2>5 DEF IdInv
<1>13. CASE Crash
  <2>1. /\ ring_count' = 0 /\ ~journal_ready' /\ sys_pc' = "idle" /\ UNCHANGED recorded
    BY <1>13 DEF Crash
  <2>2. RingIds' /\ BlockIds'
    BY <2>1 DEF RingIds, BlockIds
  <2>3. recorded' - ring_count' = recorded
    BY <2>1, IdTypes
  <2>4. CASE UNCHANGED flash
    BY <2>1, <2>2, <2>3, <2>4, SavedRecorded
    DEF IdInv, FlashIds, SavedBefore, Valid, Consecutive, LastId
  <2>5. CASE sys_pc = "block" /\ \E left \in {flash[next_slot], EmptyBlock} :
                                    flash' = [flash EXCEPT ![next_slot] = left]
    <3>1. \A s \in Slots : Valid(flash'[s]) => Valid(flash[s]) /\ flash'[s] = flash[s]
      BY <2>5, ClearSlot
    <3>. QED  BY <2>1, <2>2, <2>3, <3>1, SavedRecorded
              DEF IdInv, FlashIds, SavedBefore, Valid, Consecutive, LastId
  <2>6. CASE sys_pc = "block" /\ flash' = [flash EXCEPT ![next_slot] = persist_block]
    <3>1. FlashIds' /\ LastId(persist_block) <= recorded
      BY <2>6, SavedIdsOrdered
    <3>2. \A s \in Slots : Valid(flash'[s]) => LastId(flash'[s]) <= recorded
      BY <2>6, <3>1, SavedRecorded DEF TypeOK
    <3>. QED  BY <2>1, <2>2, <2>3, <3>1, <3>2 DEF IdInv, SavedBefore, Valid, LastId
  <2>. QED  BY <1>13, <2>4, <2>5, <2>6 DEF Crash
<1>. QED
  BY <1>u, <1>1, <1>2, <1>3, <1>4, <1>5, <1>6, <1>7, <1>8, <1>9, <1>10, <1>11, <1>12, <1>13
  DEF Next, Writer, Boot

\* Sequence numbers and identities of the saved events agree.
LEMMA SavedOrder == ASSUME TypeOK, OrderInv, IdInv PROVE SavedInRecordingOrder
<1>1. SUFFICES ASSUME NEW s \in Slots, NEW t \in Slots, NEW i \in 0 .. BLOCK_EVENTS - 1,
                      NEW j \in 0 .. BLOCK_EVENTS - 1, i < flash[s].count, j < flash[t].count
               PROVE  flash[s].first_event_seq + i < flash[t].first_event_seq + j
                        <=> flash[s].ev[i] < flash[t].ev[j]
  BY DEF SavedInRecordingOrder
<1>2. /\ i \in Nat /\ j \in Nat
      /\ flash[s].count \in Nat /\ flash[t].count \in Nat
      /\ flash[s].first_event_seq \in Nat /\ flash[t].first_event_seq \in Nat
      /\ flash[s].journal_seq \in Nat /\ flash[t].journal_seq \in Nat
      /\ flash[s].ev[0] \in Nat /\ flash[t].ev[0] \in Nat
  BY FlashTypes, IdTypes
<1>3. Valid(flash[s]) /\ Valid(flash[t])
  BY <1>1, <1>2 DEF Valid
<1>4. flash[s].ev[i] = flash[s].ev[0] + i /\ flash[t].ev[j] = flash[t].ev[0] + j
  BY <1>1, <1>3 DEF IdInv, FlashIds, Consecutive
<1>5. CASE s = t
  BY <1>2, <1>4, <1>5
<1>6. CASE s # t
  <2>1. CASE flash[s].journal_seq < flash[t].journal_seq
    <3>1. LastSeq(flash[s]) < flash[t].first_event_seq /\ LastId(flash[s]) < flash[t].ev[0]
      BY <1>2, <1>3, <1>6, <2>1 DEF OrderInv, JournalOrdered, IdInv, FlashIds
    <3>. QED  BY <1>1, <1>2, <1>4, <3>1 DEF LastSeq, LastId
  <2>2. CASE flash[t].journal_seq < flash[s].journal_seq
    <3>1. LastSeq(flash[t]) < flash[s].first_event_seq /\ LastId(flash[t]) < flash[s].ev[0]
      BY <1>2, <1>3, <1>6, <2>2 DEF OrderInv, JournalOrdered, IdInv, FlashIds
    <3>. QED  BY <1>1, <1>2, <1>4, <3>1 DEF LastSeq, LastId
  <2>. QED  BY <1>3, <1>6, <2>1, <2>2 DEF OrderInv, JournalOrdered
<1>. QED  BY <1>5, <1>6

\* The identities hold in every reachable state.
LEMMA IdsHold == Spec => []IdInv
<1>1. Init => IdInv
  <2>. SUFFICES ASSUME Init PROVE IdInv
    OBVIOUS
  <2>1. \A s \in Slots : ~Valid(flash[s])
    BY DEF Init, EmptyBlock, Valid
  <2>. QED  BY <2>1 DEF Init, IdInv, RingIds, FlashIds, SavedBefore, BlockIds
<1>2. JournalInv => TypeOK /\ OrderInv
  BY DEF JournalInv
<1>. QED  BY <1>1, <1>2, IdStep, JournalInvHolds, PTL DEF Spec

\* The saved events are those recorded, each once and in recording order, through
\* wrapped rings, blocks that do not divide them and the renumbering at boot
\* (totem_host_event_log_persist, zmk_settings_loaded).
THEOREM SavedAsRecorded == Spec => []SavedInRecordingOrder
<1>1. JournalInv /\ IdInv => SavedInRecordingOrder
  BY SavedOrder DEF JournalInv
<1>. QED  BY <1>1, IdsHold, JournalInvHolds, PTL

-----------------------------------------------------------------------------
(* The evidence about the previous boot.                                   *)

\* With every slot loaded, zmk_settings_loaded finds the newest saved event.
LEMMA PreviousFound ==
    ASSUME JournalInv, RestoredInv, IdInv, SettingsLoaded
    PROVE  IF SavedIds = {} THEN previous' = 0
           ELSE previous' \in SavedIds /\ \A id \in SavedIds : id <= previous'
<1>0. TypeOK /\ OrderInv /\ RoundInv
  BY DEF JournalInv
<1>1. previous' = PreviousEvent /\ loaded = SettingsKeys /\ ~journal_ready
  BY <1>0 DEF SettingsLoaded, OrderInv, LoadInv
<1>2. \A s \in Slots : restored_blocks[s] = flash[s]
  BY <1>1 DEF RestoredInv, SettingsKeys
<1>. DEFINE Pairs == {q \in Slots \X (0 .. BLOCK_EVENTS - 1) : q[2] < flash[q[1]].count}
<1>3. RestoredPairs = Pairs
  BY <1>2 DEF RestoredPairs
<1>4. SavedIds = {flash[p[1]].ev[p[2]] : p \in Pairs}
  BY DEF SavedIds
<1>5. ASSUME NEW p \in Pairs
      PROVE  /\ p[1] \in Slots /\ p[2] \in 0 .. BLOCK_EVENTS - 1 /\ p[2] < flash[p[1]].count
             /\ SeqOf(p) = flash[p[1]].first_event_seq + p[2]
             /\ SeqOf(p) \in Nat /\ flash[p[1]].ev[p[2]] \in Nat
  <2>1. p[1] \in Slots /\ p[2] \in 0 .. BLOCK_EVENTS - 1 /\ p[2] < flash[p[1]].count
    OBVIOUS
  <2>2. flash[p[1]] \in Block
    BY <1>0, <2>1 DEF TypeOK
  <2>3. flash[p[1]].first_event_seq \in Nat /\ flash[p[1]].ev \in [0 .. BLOCK_EVENTS - 1 -> Nat]
    BY <2>2 DEF Block
  <2>4. SeqOf(p) = flash[p[1]].first_event_seq + p[2]
    BY <1>2, <2>1 DEF SeqOf
  <2>5. p[2] \in Nat
    BY <2>1
  <2>6. SeqOf(p) \in Nat
    BY <2>3, <2>4, <2>5
  <2>7. flash[p[1]].ev[p[2]] \in Nat
    BY <2>1, <2>3
  <2>. QED  BY <2>1, <2>4, <2>6, <2>7
<1>6. ASSUME NEW p \in Pairs, NEW q \in Pairs, SeqOf(q) <= SeqOf(p)
      PROVE  flash[q[1]].ev[q[2]] <= flash[p[1]].ev[p[2]]
  <2>1. SavedInRecordingOrder
    BY <1>0, SavedOrder
  <2>2. SeqOf(p) < SeqOf(q) <=> flash[p[1]].ev[p[2]] < flash[q[1]].ev[q[2]]
    BY <1>5, <2>1 DEF SavedInRecordingOrder
  <2>3. /\ SeqOf(p) \in Nat /\ SeqOf(q) \in Nat /\ flash[p[1]].ev[p[2]] \in Nat
        /\ flash[q[1]].ev[q[2]] \in Nat
    BY <1>5
  <2>. QED  BY <1>6, <2>2, <2>3
<1>7. CASE Pairs = {}
  <2>1. NewestPairs = {} /\ SavedIds = {}
    BY <1>3, <1>4, <1>7 DEF NewestPairs
  <2>. QED  BY <1>1, <2>1 DEF PreviousEvent
<1>8. CASE Pairs # {}
  <2>1. NewestPairs # {}
    <3>1. PICK n \in Slots : FlashNewest(n)
      <4>1. PICK p \in Pairs : TRUE
        BY <1>8
      <4>2. p[1] \in Slots /\ p[2] \in Nat /\ p[2] < flash[p[1]].count /\ flash[p[1]].count \in Nat
        BY <1>0, <1>5, FlashTypes
      <4>3. Valid(flash[p[1]])
        BY <4>2 DEF Valid
      <4>. QED  BY <1>0, <4>2, <4>3 DEF RoundInv, HasNewest
    <3>2. flash[n].count \in 1 .. BLOCK_EVENTS /\ BLOCK_EVENTS \in Nat
      <4>1. flash[n] \in Block /\ Valid(flash[n])
        BY <1>0, <3>1 DEF TypeOK, FlashNewest
      <4>. QED  BY <4>1, JournalAssumption DEF Block, Valid
    <3>3. PICK last \in 0 .. BLOCK_EVENTS - 1 : last = flash[n].count - 1
      BY <3>2
    <3>4. <<n, last>> \in Pairs
      BY <3>2, <3>3
    <3>5. ASSUME NEW q \in Pairs PROVE SeqOf(q) <= SeqOf(<<n, last>>)
      <4>1. SeqOf(<<n, last>>) = LastSeq(flash[n])
        <5>1. SeqOf(<<n, last>>) = flash[n].first_event_seq + last
          BY <1>2 DEF SeqOf
        <5>2. flash[n].first_event_seq \in Nat
          BY <1>0, FlashTypes
        <5>. QED  BY <3>2, <3>3, <5>1, <5>2 DEF LastSeq
      <4>2. PICK s \in Slots : s = q[1]
        BY <1>5
      <4>3. /\ SeqOf(q) = flash[s].first_event_seq + q[2] /\ q[2] < flash[s].count /\ q[2] \in Nat
        BY <1>5, <4>2
      <4>4. /\ flash[s].first_event_seq \in Nat /\ flash[s].count \in Nat
            /\ flash[n].first_event_seq \in Nat /\ flash[n].count \in Nat
            /\ flash[s].journal_seq \in Nat /\ flash[n].journal_seq \in Nat
        BY <1>0, FlashTypes
      <4>5. SeqOf(q) <= LastSeq(flash[s])
        BY <4>3, <4>4 DEF LastSeq
      <4>6. Valid(flash[s]) /\ Valid(flash[n]) /\ flash[s].journal_seq <= flash[n].journal_seq
        BY <3>1, <4>3, <4>4 DEF Valid, FlashNewest
      <4>7. s = n \/ LastSeq(flash[s]) < flash[n].first_event_seq
        BY <1>0, <4>4, <4>6 DEF OrderInv, JournalOrdered
      <4>. QED  BY <3>2, <4>1, <4>3, <4>4, <4>5, <4>7 DEF LastSeq
    <3>. QED  BY <1>3, <3>4, <3>5 DEF NewestPairs
  <2>2. PICK p \in NewestPairs : PreviousEvent = restored_blocks[p[1]].ev[p[2]]
    BY <2>1 DEF PreviousEvent
  <2>3. p \in Pairs /\ \A q \in Pairs : SeqOf(q) <= SeqOf(p)
    BY <1>3 DEF NewestPairs
  <2>4. PreviousEvent = flash[p[1]].ev[p[2]]
    BY <1>2, <1>5, <2>2, <2>3
  <2>. HIDE DEF Pairs
  <2>5. PreviousEvent \in SavedIds
    BY <1>4, <2>3, <2>4
  <2>6. \A id \in SavedIds : id <= PreviousEvent
    BY <1>4, <1>6, <2>3, <2>4
  <2>. QED  BY <1>1, <2>5, <2>6
<1>. QED  BY <1>7, <1>8

\* The evidence reported about the previous boot is the newest event that any
\* earlier boot saved, in whatever order the slots were loaded
\* (zmk_settings_loaded).
THEOREM PreviousBootFound == Spec => PreviousIsNewest
<1>1. Init => RestoredInv
  BY DEF Init, RestoredInv
<1>2. JournalInv /\ RestoredInv /\ IdInv /\ [Next]_vars =>
        [~journal_ready /\ journal_ready' =>
           IF SavedIds = {} THEN previous' = 0
           ELSE previous' \in SavedIds /\ \A id \in SavedIds : id <= previous']_vars
  <2>. SUFFICES ASSUME JournalInv, RestoredInv, IdInv, [Next]_vars, ~journal_ready, journal_ready'
                PROVE  IF SavedIds = {} THEN previous' = 0
                       ELSE previous' \in SavedIds /\ \A id \in SavedIds : id <= previous'
    OBVIOUS
  <2>. USE DEF ctlVars
  <2>1. ASSUME NEW t \in Recorders PROVE ~Record(t) /\ ~RecordTiming(t)
    BY DEF Record, RecordTiming
  <2>2. ASSUME NEW t \in Threads PROVE ~ThreadStep(t)
    BY DEF ThreadStep, SchedulePersist, ScheduleWork
  <2>3. ~Tick /\ ~FlushCounts /\ ~TimingDrain /\ ~Crash
    BY DEF Tick, FlushCounts, TimingDrain, Crash
  <2>4. ~Writer
    BY DEF Writer, PersistWork, PersistSkip, PersistBegin, CounterSkip, CounterSave, BlockSaved,
           BlockFailed, PersistEnd
  <2>5. ~LoadCounter /\ ~BootCounted /\ ~BootRecord /\ ~BootDone
        /\ \A s \in Slots : ~LoadSlot(s)
    BY DEF LoadCounter, BootCounted, BootRecord, BootDone, LoadSlot
  <2>6. SettingsLoaded
    BY <2>1, <2>2, <2>3, <2>4, <2>5 DEF Next, Boot, vars
  <2>. QED  BY <2>6, PreviousFound
<1>. QED
  BY <1>1, <1>2, RestoredStep, IdsHold, JournalInvHolds, PTL DEF Spec, PreviousIsNewest

=============================================================================
