-------------------------- MODULE PostMortemProofs --------------------------
(***************************************************************************)
(* Proofs about PostMortem, for every timeout and any number of faults and *)
(* resets.                                                                 *)
(*                                                                         *)
(* None of the properties is inductive as it stands: each speaks of what a *)
(* boot reports, and what makes it true is what the record in RAM can be   *)
(* at every point of a fault, a reset or a report.                         *)
(***************************************************************************)
EXTENDS PostMortem, TLAPS

-----------------------------------------------------------------------------
(* Watchdog and types.                                                     *)

Magics == {"zero", "TOFT", "other"}
Phases == {"reset_reason", "record", "clear_cause", "report", "clear", "running", "handler", "sealed"}

\* WDT_FEED_INTERVAL is at least a tick; three of them fit in the timeout, and
\* unless they race with it the third feed comes before it.
LEMMA FeedInterval ==
    /\ WDT_FEED_INTERVAL \in Nat
    /\ WDT_FEED_INTERVAL >= 1
    /\ ~RacesTimeout => 3 * WDT_FEED_INTERVAL < WDT_TIMEOUT
  BY TimeoutAssumption, SMT DEF WDT_FEED_INTERVAL, RacesTimeout

\* The timeout, without the arithmetic of TimeoutAssumption.
LEMMA TimeoutNat == WDT_TIMEOUT \in Nat /\ 0 \in 0 .. WDT_TIMEOUT
  BY TimeoutAssumption

\* A watchdog that was not started, or was stopped by a reset, is well-typed.
LEMMA ZeroAges == [c \in FeedContexts |-> 0] \in [FeedContexts -> 0 .. WDT_TIMEOUT]
  BY TimeoutNat

\* The three contexts are three names.
LEMMA Contexts == FeedContexts = {"sched", "sysworkq", "timer"}
  <1>1. ChannelOrder[1] = "sched" /\ ChannelOrder[2] = "sysworkq" /\ ChannelOrder[3] = "timer"
    BY DEF ChannelOrder
  <1>2. 1 .. 3 = {1, 2, 3}
    OBVIOUS
  <1> QED
    BY <1>1, <1>2 DEF FeedContexts

\* Each channel that is added belongs to one of the contexts.
LEMMA ArmWatchdogType ==
    ASSUME WatchdogTypeOK, ArmWatchdog
    PROVE  WatchdogTypeOK'
  <1>1. PICK n \in 0 .. 3 : channels' = {ChannelOrder[i] : i \in 1 .. n} /\ feeders' = (n = 3)
    BY DEF ArmWatchdog
  <1>2. channels' \subseteq FeedContexts
    BY <1>1 DEF FeedContexts
  <1> QED
    BY <1>1, <1>2 DEF WatchdogTypeOK, ArmWatchdog

\* A tick keeps every age within the timeout.
LEMMA TickType ==
    ASSUME WatchdogTypeOK, Tick
    PROVE  WatchdogTypeOK'
  <1>1. PICK missed \in SUBSET {c \in channels : FeedDue(c) /\ MayMiss(c)} :
          unfed' = [c \in FeedContexts |->
                      IF c \notin channels \/ (FeedDue(c) /\ c \notin missed) THEN 0
                      ELSE unfed[c] + 1]
    BY DEF Tick
  <1>2. \A c \in FeedContexts : unfed'[c] \in 0 .. WDT_TIMEOUT
    BY <1>1, TimeoutAssumption DEF WatchdogTypeOK, Tick
  <1> QED
    BY <1>1, <1>2 DEF WatchdogTypeOK, Tick

-----------------------------------------------------------------------------
(* The inductive invariant.                                                *)

Records == [magic: Magics, crc_ok: BOOLEAN, fault: -1 .. MaxFaults, label: Labels]

\* What a power cut leaves is no valid record, and neither is a wiped one.
LEMMA GarbageRecords ==
    ASSUME NEW r \in Garbage
    PROVE  r \in Records /\ r.crc_ok = FALSE
  <1>1. PICK m \in Magics : r = [magic |-> m, crc_ok |-> FALSE, fault |-> -1, label |-> "none"]
    BY DEF Garbage, Magics
  <1> QED
    BY <1>1, PostMortemAssumption DEF Records, Labels

\* The record after a handler's first step.
LEMMA ZeroedRecord == Zeroed \in Records /\ Zeroed.crc_ok = FALSE
  BY PostMortemAssumption DEF Zeroed, Records, Magics, Labels

\* TypeOK, part by part; the record's own type is in RecordInv.
RamType ==
    /\ last_fault \in [fault: 0 .. MaxFaults, label: Labels] /\ label \in Labels /\ hung \in Labels
    /\ status \in 0 .. 3 /\ phase \in Phases /\ resets \in 0 .. MaxResets
    /\ flags \subseteq Listed \cup {"OTHER"} \/ flags = Unread
CauseType == resetreas \subseteq Causes /\ cause \subseteq Causes /\ untold \subseteq Causes
             /\ retold \subseteq Causes
FaultType ==
    /\ faults \in 0 .. MaxFaults /\ completed \in BOOLEAN
    /\ reported \in [1 .. MaxFaults -> Nat] /\ interrupted \subseteq 1 .. MaxFaults

\* The register holds the causes that no boot has recorded, those that one recorded
\* and could not clear, and, before the clear, those that this boot has just
\* recorded.
CauseInv ==
    /\ phase = "clear_cause" => untold = {} /\ resetreas = cause /\ retold \subseteq cause
    /\ phase # "clear_cause" => resetreas = untold \cup retold
    /\ phase = "record" => cause = resetreas

\* A context that runs and was told to feed is never older than three feeds,
\* unless the third races with the timeout, and outside "running" no channel has
\* aged.
WatchInv ==
    /\ \A c \in FeedContexts :
          feeders /\ c \notin stuck /\ ~RacesTimeout => unfed[c] < 3 * WDT_FEED_INTERVAL
    /\ phase # "running" => unfed = [c \in FeedContexts |-> 0]

\* The record matches its CRC exactly from the end of a fault handler to the
\* report or to a power cut, and describes the latest fault.
RecordInv ==
    /\ fault_rec \in Records
    /\ fault_rec.crc_ok = completed
    /\ completed => fault_rec.magic = "TOFT" /\ fault_rec.fault = faults /\ faults >= 1
    /\ phase = "handler" => faults >= 1 /\ ~completed
    /\ phase = "sealed" => completed
    /\ phase = "clear" => completed /\ last_fault.fault = faults

\* What a handler is about, and then its record, is what has really stopped.
LabelInv ==
    /\ phase = "handler" /\ label \in FeedContexts => label = hung
    /\ completed /\ fault_rec.label \in FeedContexts => fault_rec.label = hung

\* A fault to come was not reported, and a record that waits for its first
\* report was not either.
CountInv ==
    /\ \A f \in 1 .. MaxFaults : f > faults => reported[f] = 0
    /\ phase = "handler" => reported[faults] = 0
    /\ completed /\ phase # "clear" => reported[faults] = 0 \/ faults \in interrupted
    /\ ReportedOnce

Inv == /\ RamType /\ CauseType /\ CauseInv /\ FaultType /\ WatchdogTypeOK
       /\ WatchInv /\ RecordInv /\ LabelInv /\ CountInv

\* The parts make up TypeOK.
LEMMA TypeJoin == Inv => TypeOK
  <1> SUFFICES ASSUME Inv PROVE TypeOK
    OBVIOUS
  <1>1. /\ fault_rec.magic \in {"zero", "TOFT", "other"} /\ fault_rec.crc_ok \in BOOLEAN
        /\ fault_rec.fault \in -1 .. MaxFaults /\ fault_rec.label \in Labels
        /\ fault_rec.crc_ok => fault_rec.magic = "TOFT"
    BY DEF Inv, RecordInv, Records, Magics
  <1> QED
    BY <1>1 DEF Inv, TypeOK, RamType, CauseType, FaultType, Phases

\* The first boot.
LEMMA InitInv == Init => Inv
  <1> SUFFICES ASSUME Init PROVE Inv
    OBVIOUS
  <1>1. RamType
    BY PostMortemAssumption DEF Init, RamType, NoFault, Labels, Phases
  <1>2. CauseType /\ CauseInv
    BY DEF Init, CauseType, CauseInv, Causes, Listed
  <1>3. FaultType
    <2>1. reported \in [1 .. MaxFaults -> Nat]
      BY DEF Init
    <2>2. faults \in 0 .. MaxFaults
      BY PostMortemAssumption DEF Init
    <2> QED
      BY <2>1, <2>2 DEF Init, FaultType
  <1>4. WatchdogTypeOK
    BY ZeroAges DEF Init, WatchdogInit, WatchdogTypeOK
  <1>5. WatchInv
    BY FeedInterval DEF Init, WatchInv, WatchdogInit
  <1>6. RecordInv
    <2>1. fault_rec \in Records /\ fault_rec.crc_ok = FALSE
      BY GarbageRecords DEF Init
    <2> QED
      BY <2>1 DEF Init, RecordInv
  <1>7. LabelInv /\ CountInv
    BY PostMortemAssumption DEF Init, LabelInv, CountInv, ReportedOnce
  <1> QED
    BY <1>1, <1>2, <1>3, <1>4, <1>5, <1>6, <1>7 DEF Inv

\* A fault strikes.  Only here does the argument need the watchdog: a channel
\* that has run out belongs to a context that stopped or to an unfed channel.
LEMMA FaultKeeps ==
    ASSUME Inv, NEW what \in Labels, FaultBegin(what),
           what \in FeedContexts => Unserved(what)
    PROVE  Inv'
  <1> USE DEF FaultBegin
  <1>1. RamType'
    BY DEF Inv, RamType, Labels, Phases
  <1>2. CauseType' /\ CauseInv'
    BY DEF Inv, CauseType, CauseInv, NoteUncleared
  <1>3. FaultType'
    <2>1. phase = "clear" => last_fault.fault \in 1 .. MaxFaults
      BY PostMortemAssumption DEF Inv, RecordInv, FaultType
    <2>2. interrupted' \subseteq 1 .. MaxFaults
      BY <2>1 DEF Inv, FaultType
    <2>3. faults' \in 0 .. MaxFaults
      BY PostMortemAssumption DEF Inv, FaultType
    <2> QED
      BY <2>2, <2>3 DEF Inv, FaultType
  <1>4. WatchdogTypeOK'
    BY ZeroAges DEF Inv, WatchdogTypeOK
  <1>5. WatchInv'
    BY FeedInterval DEF WatchInv
  <1>6. RecordInv'
    <2>1. fault_rec' \in Records /\ fault_rec'.crc_ok = FALSE
      BY ZeroedRecord DEF WipeRecord
    <2>2. faults' >= 1
      BY PostMortemAssumption DEF Inv, FaultType
    <2> QED
      BY <2>1, <2>2 DEF RecordInv
  <1>7. LabelInv'
    BY DEF LabelInv
  <1>8. CountInv'
    BY PostMortemAssumption DEF Inv, FaultType, CountInv, RecordInv, ReportedOnce
  <1> QED
    BY <1>1, <1>2, <1>3, <1>4, <1>5, <1>6, <1>7, <1>8 DEF Inv

\* The handler completes the record.
LEMMA SealKeeps ==
    ASSUME Inv, FaultSeal
    PROVE  Inv'
  <1> USE DEF FaultSeal
  <1>1. RamType'
    BY DEF Inv, RamType, ramVars, Phases
  <1>2. CauseType' /\ CauseInv' /\ WatchdogTypeOK'
    BY DEF Inv, CauseType, CauseInv, causeVars, WatchdogTypeOK, watchdogVars
  <1>3. FaultType'
    BY DEF Inv, FaultType
  <1>4. WatchInv'
    BY DEF Inv, WatchInv, watchdogVars
  <1>5. RecordInv'
    <2>1. /\ fault_rec' \in Records /\ fault_rec'.crc_ok = TRUE /\ fault_rec'.magic = "TOFT"
          /\ fault_rec'.fault = faults
      BY PostMortemAssumption DEF Inv, RamType, FaultType, Records, Magics
    <2> QED
      BY <2>1 DEF Inv, RecordInv
  <1>6. LabelInv'
    BY DEF Inv, LabelInv
  <1>7. CountInv'
    BY DEF Inv, CountInv, ReportedOnce
  <1> QED
    BY <1>1, <1>2, <1>3, <1>4, <1>5, <1>6, <1>7 DEF Inv

\* What a reset leaves of the watchdog is well-typed.
LEMMA ResetWatchdog ==
    ASSUME WatchdogReset, phase' = "reset_reason"
    PROVE  WatchdogTypeOK' /\ WatchInv'
  BY ZeroAges, FeedInterval DEF WatchdogReset, WatchdogTypeOK, WatchInv

\* A reset after a fault, or from outside, which keeps the record.
LEMMA RestartKeeps ==
    ASSUME Inv, NEW why \in Causes, Restart(why),
           UNCHANGED <<fault_rec, completed>>,
           interrupted' = IF phase = "clear" THEN interrupted \cup {last_fault.fault} ELSE interrupted,
           resets' \in 0 .. MaxResets
    PROVE  Inv'
  <1> USE DEF Restart
  <1>1. RamType'
    BY PostMortemAssumption DEF Inv, RamType, NoFault, Labels, Phases
  <1>2. CauseType' /\ CauseInv'
    BY DEF Inv, CauseType, CauseInv, NoteUncleared
  <1>3. FaultType'
    <2>1. phase = "clear" => last_fault.fault \in 1 .. MaxFaults
      BY PostMortemAssumption DEF Inv, RecordInv, FaultType
    <2>2. interrupted' \subseteq 1 .. MaxFaults
      BY <2>1 DEF Inv, FaultType
    <2> QED
      BY <2>2 DEF Inv, FaultType
  <1>4. WatchdogTypeOK' /\ WatchInv'
    BY ResetWatchdog
  <1>5. RecordInv'
    BY DEF Inv, RecordInv
  <1>6. LabelInv'
    BY DEF Inv, LabelInv
  <1>7. CountInv'
    BY DEF Inv, CountInv, ReportedOnce, RecordInv
  <1> QED
    BY <1>1, <1>2, <1>3, <1>4, <1>5, <1>6, <1>7 DEF Inv

\* A power cut, which does not keep it.
LEMMA PowerCutKeeps ==
    ASSUME Inv, PowerCut
    PROVE  Inv'
  <1> USE DEF PowerCut
  <1>1. RamType'
    BY PostMortemAssumption DEF Inv, RamType, NoFault, Labels, Phases
  <1>2. CauseType' /\ CauseInv'
    BY DEF Inv, CauseType, CauseInv, Causes, Listed
  <1>3. FaultType'
    BY DEF Inv, FaultType
  <1>4. WatchdogTypeOK' /\ WatchInv'
    BY ResetWatchdog
  <1>5. RecordInv'
    <2>1. fault_rec' \in Records /\ fault_rec'.crc_ok = FALSE
      BY GarbageRecords
    <2> QED
      BY <2>1 DEF RecordInv
  <1>6. LabelInv'
    BY DEF LabelInv
  <1>7. CountInv'
    BY DEF Inv, CountInv, ReportedOnce
  <1> QED
    BY <1>1, <1>2, <1>3, <1>4, <1>5, <1>6, <1>7 DEF Inv

\* The boot reads, records and clears the reset cause.
LEMMA CaptureKeeps ==
    ASSUME Inv, ReadResetCause \/ RecordResetCause \/ ClearResetCause
    PROVE  Inv'
  <1> USE DEF ReadResetCause, RecordResetCause, ClearResetCause
  <1>1. RamType'
    <2>1. compress_reset_cause(cause) \subseteq Listed \cup {"OTHER"}
      BY DEF compress_reset_cause
    <2> QED
      BY <2>1 DEF Inv, RamType, Phases, ramVars, faultVars
  <1>2. CauseType' /\ CauseInv'
    BY DEF Inv, CauseType, CauseInv, hwinfo_clear_reset_cause
  <1>3. FaultType'
    BY DEF Inv, FaultType, faultVars
  <1>4. WatchdogTypeOK' /\ WatchInv'
    BY DEF Inv, WatchdogTypeOK, WatchInv, watchdogVars
  <1>5. RecordInv'
    BY DEF Inv, RecordInv, faultVars, ramVars
  <1>6. LabelInv'
    BY DEF Inv, LabelInv, faultVars, ramVars
  <1>7. CountInv'
    BY DEF Inv, CountInv, ReportedOnce, faultVars
  <1> QED
    BY <1>1, <1>2, <1>3, <1>4, <1>5, <1>6, <1>7 DEF Inv

\* Arming the watchdog at the end of the boot: no channel has aged.
LEMMA ArmedFresh ==
    ASSUME WatchInv, phase # "running", phase' = "running", ArmWatchdog
    PROVE  WatchInv'
  BY FeedInterval DEF WatchInv, ArmWatchdog

\* A boot without a valid record.
LEMMA ReportNoneKeeps ==
    ASSUME Inv, ReportNone
    PROVE  Inv'
  <1> USE DEF ReportNone
  <1>1. RamType'
    BY DEF Inv, RamType, Phases, faultVars
  <1>2. CauseType' /\ CauseInv'
    BY DEF Inv, CauseType, CauseInv, causeVars
  <1>3. FaultType'
    BY DEF Inv, FaultType, faultVars
  <1>4. WatchdogTypeOK' /\ WatchInv'
    BY ArmWatchdogType, ArmedFresh DEF Inv
  <1>5. RecordInv'
    BY DEF Inv, RecordInv, faultVars
  <1>6. LabelInv'
    BY DEF Inv, LabelInv, faultVars
  <1>7. CountInv'
    BY DEF Inv, CountInv, ReportedOnce, faultVars
  <1> QED
    BY <1>1, <1>2, <1>3, <1>4, <1>5, <1>6, <1>7 DEF Inv

\* A boot with one: the fault it reports is the latest, and this is its first
\* report unless a reset cut an earlier one short.
LEMMA ReportFaultKeeps ==
    ASSUME Inv, ReportFault
    PROVE  Inv'
  <1> USE DEF ReportFault
  <1>0. completed /\ fault_rec.fault = faults /\ faults \in 1 .. MaxFaults /\ fault_rec.label \in Labels
    BY PostMortemAssumption DEF Inv, FaultType, RecordInv, Records, fault_valid
  <1>1. RamType'
    BY <1>0, PostMortemAssumption DEF Inv, RamType, Phases
  <1>2. CauseType' /\ CauseInv'
    BY DEF Inv, CauseType, CauseInv, causeVars
  <1>3. FaultType'
    <2>1. reported' \in [1 .. MaxFaults -> Nat]
      BY DEF Inv, FaultType
    <2> QED
      BY <2>1 DEF Inv, FaultType
  <1>4. WatchdogTypeOK' /\ WatchInv'
    BY DEF Inv, WatchdogTypeOK, WatchInv, watchdogVars
  <1>5. RecordInv'
    BY <1>0 DEF Inv, RecordInv
  <1>6. LabelInv'
    BY DEF Inv, LabelInv
  <1>7. CountInv'
    <2>1. \A f \in 1 .. MaxFaults : reported'[f] = IF f = faults THEN reported[f] + 1 ELSE reported[f]
      BY <1>0 DEF Inv, FaultType
    <2>2. reported[faults] = 0 \/ faults \in interrupted
      BY <1>0 DEF Inv, CountInv
    <2>3. \A f \in 1 .. MaxFaults : f > faults => reported'[f] = 0
      BY <2>1, <1>0 DEF Inv, CountInv
    <2>4. ReportedOnce'
      BY <2>1, <2>2, <1>0 DEF Inv, CountInv, ReportedOnce
    <2> QED
      BY <2>3, <2>4 DEF CountInv
  <1> QED
    BY <1>1, <1>2, <1>3, <1>4, <1>5, <1>6, <1>7 DEF Inv

\* The report ends with the invalidation.
LEMMA ReportClearKeeps ==
    ASSUME Inv, ReportClear
    PROVE  Inv'
  <1> USE DEF ReportClear
  <1>1. RamType'
    BY DEF Inv, RamType, Phases
  <1>2. CauseType' /\ CauseInv'
    BY DEF Inv, CauseType, CauseInv, causeVars
  <1>3. FaultType'
    BY DEF Inv, FaultType
  <1>4. WatchdogTypeOK' /\ WatchInv'
    BY ArmWatchdogType, ArmedFresh DEF Inv
  <1>5. RecordInv'
    <2>1. fault_rec' \in Records /\ fault_rec'.crc_ok = FALSE
      BY DEF Inv, RecordInv, Records, Magics, Invalidated
    <2> QED
      BY <2>1 DEF RecordInv
  <1>6. LabelInv'
    BY DEF LabelInv
  <1>7. CountInv'
    BY DEF Inv, CountInv, ReportedOnce
  <1> QED
    BY <1>1, <1>2, <1>3, <1>4, <1>5, <1>6, <1>7 DEF Inv

\* The third feed is due, and is not missed unless it races with the timeout.
LEMMA ThirdFeed == (3 * WDT_FEED_INTERVAL) % WDT_FEED_INTERVAL = 0
  <1>1. \A k \in Nat : k >= 1 => (3 * k) % k = 0
    OBVIOUS
  <1> QED
    BY <1>1, FeedInterval

\* A context that runs and feeds never reaches its timeout, unless it loses that race.
LEMMA TickKeeps ==
    ASSUME WatchdogTypeOK, WatchInv, Tick, phase = "running", phase' = phase
    PROVE  WatchInv'
  <1>1. PICK missed \in SUBSET {c \in channels : FeedDue(c) /\ MayMiss(c)} :
          unfed' = [c \in FeedContexts |->
                      IF c \notin channels \/ (FeedDue(c) /\ c \notin missed) THEN 0
                      ELSE unfed[c] + 1]
    BY DEF Tick
  <1>2. ASSUME NEW c \in FeedContexts, feeders', c \notin stuck', ~RacesTimeout
        PROVE  unfed'[c] < 3 * WDT_FEED_INTERVAL
    <2>1. feeders /\ c \notin stuck /\ unfed[c] < 3 * WDT_FEED_INTERVAL /\ unfed[c] \in Nat
      BY <1>2 DEF Tick, WatchInv, WatchdogTypeOK
    <2>2. CASE unfed'[c] = 0
      BY <2>2, FeedInterval
    <2>3. CASE unfed'[c] # 0
      <3>1. unfed'[c] = unfed[c] + 1 /\ ~(FeedDue(c) /\ ~MayMiss(c))
        BY <1>1, <2>3
      <3>2. unfed[c] + 1 # 3 * WDT_FEED_INTERVAL
        <4> SUFFICES ASSUME unfed[c] + 1 = 3 * WDT_FEED_INTERVAL PROVE FALSE
          OBVIOUS
        <4>1. FeedDue(c)
          BY <2>1, ThirdFeed DEF FeedDue
        <4>2. ~MayMiss(c)
          BY <1>2, FeedInterval, TimeoutNat DEF MayMiss
        <4> QED
          BY <4>1, <4>2, <3>1
      <3> QED
        BY <3>1, <3>2, <2>1, FeedInterval
    <2> QED
      BY <2>2, <2>3
  <1> QED
    BY <1>2 DEF WatchInv

\* The firmware runs.
LEMMA RunningKeeps ==
    ASSUME Inv, Running
    PROVE  Inv'
  <1> USE DEF Running
  <1>1. RamType' /\ CauseType' /\ CauseInv' /\ FaultType'
    BY DEF Inv, RamType, CauseType, CauseInv, FaultType, ramVars, causeVars, faultVars
  <1>2. WatchdogTypeOK' /\ WatchInv'
    <2>1. CASE Tick
      BY <2>1, TickType, TickKeeps DEF Inv
    <2>2. CASE \E c \in FeedContexts : Stall(c)
      BY <2>2 DEF Inv, Stall, WatchdogTypeOK, WatchInv
    <2> QED
      BY <2>1, <2>2
  <1>3. RecordInv' /\ LabelInv' /\ CountInv'
    BY DEF Inv, RecordInv, LabelInv, CountInv, ReportedOnce, ramVars, faultVars
  <1> QED
    BY <1>1, <1>2, <1>3 DEF Inv

-----------------------------------------------------------------------------
(* The theorems.                                                           *)

\* The hypothesis of FaultKeeps holds when a channel bites.
LEMMA BitesStopped ==
    ASSUME Inv, NEW c \in channels, Bites(c)
    PROVE  c \in Labels /\ Unserved(c)
  BY FeedInterval, TimeoutNat DEF Inv, WatchInv, WatchdogTypeOK, Bites, Labels, Unserved

\* Every step keeps the invariant.
LEMMA NextInv == Inv /\ [Next]_vars => Inv'
  <1> SUFFICES ASSUME Inv, [Next]_vars PROVE Inv'
    OBVIOUS
  <1>1. CASE Crash
    <2>1. "crash" \in Labels /\ "crash" \notin FeedContexts
      BY Contexts DEF Labels
    <2> QED
      BY <1>1, <2>1, FaultKeeps DEF Crash
  <1>2. CASE Hang
    <2>1. PICK c \in channels : Bites(c) /\ FaultBegin(c)
      BY <1>2 DEF Hang
    <2> QED
      BY <2>1, BitesStopped, FaultKeeps
  <1>3. CASE FaultSeal
    BY <1>3, SealKeeps
  <1>4. CASE Reboot
    <2>1. "SOFTWARE" \in Causes /\ resets' \in 0 .. MaxResets /\ phase # "clear"
      BY <1>4 DEF Reboot, Causes, Listed, Inv, RamType
    <2> QED
      BY <1>4, <2>1, RestartKeeps DEF Reboot
  <1>5. CASE ResetStrikes
    <2>1. PICK why \in Causes : Restart(why)
      BY <1>5 DEF ResetStrikes, Causes, Listed
    <2>2. resets' \in 0 .. MaxResets
      BY <1>5, PostMortemAssumption DEF ResetStrikes, Inv, RamType
    <2> QED
      BY <1>5, <2>1, <2>2, RestartKeeps DEF ResetStrikes
  <1>6. CASE PowerCut
    BY <1>6, PowerCutKeeps
  <1>7. CASE ReadResetCause \/ RecordResetCause \/ ClearResetCause
    BY <1>7, CaptureKeeps
  <1>8. CASE ReportNone
    BY <1>8, ReportNoneKeeps
  <1>9. CASE ReportFault
    BY <1>9, ReportFaultKeeps
  <1>10. CASE ReportClear
    BY <1>10, ReportClearKeeps
  <1>11. CASE Running
    BY <1>11, RunningKeeps
  <1>12. CASE UNCHANGED vars
    <2>1. RamType' /\ CauseType' /\ CauseInv' /\ FaultType'
      BY <1>12 DEF Inv, RamType, CauseType, CauseInv, FaultType, vars, ramVars, causeVars, faultVars
    <2>2. WatchdogTypeOK' /\ WatchInv'
      BY <1>12 DEF Inv, WatchdogTypeOK, WatchInv, vars, watchdogVars
    <2>3. RecordInv' /\ LabelInv' /\ CountInv'
      BY <1>12 DEF Inv, RecordInv, LabelInv, CountInv, ReportedOnce, vars, ramVars, faultVars
    <2> QED
      BY <2>1, <2>2, <2>3 DEF Inv
  <1> QED
    BY <1>1, <1>2, <1>3, <1>4, <1>5, <1>6, <1>7, <1>8, <1>9, <1>10, <1>11, <1>12 DEF Next

\* Inv is an invariant of fault capture: the strengthening all that follows
\* rests on.
THEOREM PostMortemInvariant == Spec => []Inv
  BY InitInv, NextInv, PTL DEF Spec

\* Record, reset cause, watchdog and histories stay well-typed for every timeout
\* and any number of faults and resets.
THEOREM PostMortemTypeCorrect == Spec => []TypeOK
  BY TypeJoin, PostMortemInvariant, PTL

\* No fault is reported twice, unless a reset struck between the report and the
\* invalidation that ends it (totem_fault_report_and_clear).
THEOREM FaultReportedOnce == Spec => []ReportedOnce
  <1>1. Inv => ReportedOnce
    BY DEF Inv, CountInv
  <1> QED
    BY <1>1, PostMortemInvariant, PTL

\* Only a report step leaves phase "report" for "clear".
LEMMA ReportStep ==
    ASSUME Inv, [Next]_vars, phase = "report"
    PROVE  /\ phase' = "clear" => ReportFault
           /\ phase' = "running" => ReportNone
  BY DEF Next, Crash, Hang, FaultBegin, FaultSeal, Reboot, ResetStrikes, Restart, PowerCut,
         ReadResetCause, RecordResetCause, ClearResetCause, ReportNone, ReportFault, ReportClear, Running, vars

\* A boot reports the latest fault or none, and is silent only when no handler
\* completed a record since the last report or power cut.
THEOREM LatestFaultReported == Spec => ReportsLatestFault
  <1>1. ASSUME Inv, [Next]_vars, phase = "report"
        PROVE  /\ phase' = "clear" => last_fault'.fault = faults
               /\ phase' = "running" => ~completed
    <2>1. ReportFault => last_fault'.fault = faults
      BY <1>1 DEF Inv, RecordInv, Records, ReportFault, fault_valid
    <2>2. ReportNone => ~completed
      BY <1>1 DEF Inv, RecordInv, ReportNone, fault_valid
    <2> QED
      BY <1>1, <2>1, <2>2, ReportStep
  <1>2. Inv /\ [Next]_vars =>
          [phase = "report" =>
             /\ phase' = "clear" => last_fault'.fault = faults
             /\ phase' = "running" => ~completed]_vars
    BY <1>1
  <1> QED
    BY <1>2, PostMortemInvariant, PTL DEF Spec, ReportsLatestFault

\* A reported hang names a context that had stopped, or a channel that nobody
\* was told to feed: a third of the timeout is soon enough after two misses for
\* every timeout but a multiple of three, and then it names one that missed two
\* feeds and lost the race of the third.
THEOREM ReportedHangIsReal == Spec => HangIsReal
  <1>1. ASSUME Inv, [Next]_vars, phase = "report", phase' = "clear",
               last_fault'.label \in FeedContexts
        PROVE  last_fault'.label = hung
    <2>1. ReportFault
      BY <1>1, ReportStep
    <2> QED
      BY <1>1, <2>1 DEF Inv, LabelInv, RecordInv, ReportFault, fault_valid
  <1>2. Inv /\ [Next]_vars =>
          [phase = "report" /\ phase' = "clear" /\ last_fault'.label \in FeedContexts =>
             last_fault'.label = hung]_vars
    BY <1>1
  <1> QED
    BY <1>2, PostMortemInvariant, PTL DEF Spec, HangIsReal

\* The reset flags a boot records are those of the resets that no boot recorded
\* and of those recorded but not cleared, for any sequence of resets, faults and
\* failed reads at any point between read, record and clear.
THEOREM ResetCauseIsOwn == Spec => CauseIsOwn
  <1>1. ASSUME Inv, [Next]_vars, flags = Unread, flags' # Unread
        PROVE  flags' = compress_reset_cause(untold \cup retold)
    <2>1. RecordResetCause
      BY <1>1 DEF Next, Crash, Hang, FaultBegin, FaultSeal, Reboot, ResetStrikes, Restart, PowerCut,
                  ReadResetCause, ClearResetCause, ReportNone, ReportFault, ReportClear, Running, vars,
                  ramVars
    <2>2. cause = untold \cup retold
      BY <1>1, <2>1 DEF RecordResetCause, Inv, CauseInv
    <2> QED
      BY <2>1, <2>2 DEF RecordResetCause
  <1>2. Inv /\ [Next]_vars =>
          [flags = Unread /\ flags' # Unread =>
             flags' = compress_reset_cause(untold \cup retold)]_vars
    BY <1>1
  <1> QED
    BY <1>2, PostMortemInvariant, PTL DEF Spec, CauseIsOwn

=============================================================================
