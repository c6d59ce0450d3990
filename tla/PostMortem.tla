----------------------------- MODULE PostMortem -----------------------------
(***************************************************************************)
(* totem_fault.c with the boot sequence of totem_watchdog.c: a crash or a  *)
(* hang leaves a record in RAM that survives a reset, the next boot        *)
(* captures the reset reason, reports the record and invalidates it.       *)
(*                                                                         *)
(* The record is its magic, whether its CRC matches, and the number of the *)
(* fault it describes; a power cut leaves bytes that do not match.  Resets *)
(* strike at every point, inside the fault handler and inside the report   *)
(* included.  This is the image in which totem_fault.c owns the fatal      *)
(* error handler (CONFIG_ZMK_STUDIO_LOG_FAULT_CAPTURE off).                *)
(***************************************************************************)
EXTENDS Watchdog

CONSTANTS
    MaxFaults,      \* bound: faults
    MaxResets       \* bound: resets and power cuts that are no answer to a fault

ASSUME PostMortemAssumption ==
    MaxFaults \in Nat /\ MaxResets \in Nat

VARIABLES
    fault_rec,      \* __noinit
    last_fault,     \* the fault this boot reported: its number, 0 for none, and its label
    status,         \* fault_status of this boot
    phase,          \* where boot, report or the fault handler is
    resetreas,      \* causes the hardware has accumulated
    cause,          \* the causes totem_capture_reset_reason has read
    flags,          \* totem_reset_flags as recorded
    label,          \* what the running handler is about: a crash or a channel
    faults,         \* history: faults so far, the number of the latest
    hung,           \* history: the context whose hang the latest fault is
    completed,      \* history: its record was completed and not yet reported or lost
    reported,       \* history: times each fault was reported
    interrupted,    \* history: faults whose report a reset cut short
    untold,         \* history: causes of the resets that no boot has recorded
    retold,         \* history: causes recorded by a boot that stopped before it cleared them
    resets          \* budget spent

ramVars    == <<last_fault, status, flags, label>>
faultVars  == <<faults, hung, completed, reported, interrupted>>
causeVars  == <<resetreas, cause, untold, retold>>
vars == <<fault_rec, phase, resets, ramVars, faultVars, causeVars, watchdogVars>>

Listed == {"PIN", "SOFTWARE", "WATCHDOG", "POR"}
Causes == Listed \cup {"LOCKUP"}    \* LOCKUP stands for the causes without a flag
Unread == {"unread"}                \* totem_reset_flags was not captured

Labels == FeedContexts \cup {"crash", "none"}

Zeroed  == [magic |-> "zero", crc_ok |-> FALSE, fault |-> 0, label |-> "none"]
Garbage == {[magic |-> m, crc_ok |-> FALSE, fault |-> -1, label |-> "none"] :
               m \in {"zero", "TOFT", "other"}}
NoFault == [fault |-> 0, label |-> "none"]

TypeOK ==
    /\ fault_rec.magic \in {"zero", "TOFT", "other"} /\ fault_rec.crc_ok \in BOOLEAN
    /\ fault_rec.crc_ok => fault_rec.magic = "TOFT"
    /\ fault_rec.fault \in -1 .. MaxFaults /\ fault_rec.label \in Labels
    /\ last_fault \in [fault: 0 .. MaxFaults, label: Labels] /\ label \in Labels
    /\ status \in 0 .. 3
    /\ phase \in {"reset_reason", "record", "clear_cause", "report", "clear", "running", "handler", "sealed"}
    /\ WatchdogTypeOK /\ hung \in Labels
    /\ resetreas \subseteq Causes /\ cause \subseteq Causes
    /\ untold \subseteq Causes /\ retold \subseteq Causes
    /\ flags \subseteq Listed \cup {"OTHER"} \/ flags = Unread
    /\ faults \in 0 .. MaxFaults /\ completed \in BOOLEAN
    /\ reported \in [1 .. MaxFaults -> Nat] /\ interrupted \subseteq 1 .. MaxFaults
    /\ resets \in 0 .. MaxResets

Init ==
    /\ fault_rec \in Garbage
    /\ last_fault = NoFault /\ status = 0 /\ phase = "reset_reason" /\ label = "none"
    /\ WatchdogInit
    /\ resetreas = {"POR"} /\ cause = {} /\ untold = {"POR"} /\ retold = {} /\ flags = Unread
    /\ faults = 0 /\ hung = "none" /\ completed = FALSE
    /\ reported = [f \in 1 .. MaxFaults |-> 0] /\ interrupted = {}
    /\ resets = 0

-----------------------------------------------------------------------------
(* Faults.                                                                 *)

\* Mutant: the old record is not wiped first.
KeepRecord == fault_rec
WipeRecord == Zeroed

\* A boot that stops after it has recorded the causes leaves them in the register.
NoteUncleared == retold' = IF phase = "clear_cause" THEN retold \cup cause ELSE retold

\* A handler begins and wipes the record; from here on no other context runs.
FaultBegin(what) ==
    /\ faults < MaxFaults /\ faults' = faults + 1
    /\ phase' = "handler" /\ label' = what
    /\ hung' = IF what \in FeedContexts /\ Unserved(what) THEN what ELSE "none"
    /\ stuck' = {} /\ unfed' = [c \in FeedContexts |-> 0]
    /\ fault_rec' = WipeRecord
    /\ completed' = FALSE
    /\ interrupted' = IF phase = "clear" THEN interrupted \cup {last_fault.fault} ELSE interrupted
    /\ cause' = {} /\ NoteUncleared
    /\ UNCHANGED <<reported, last_fault, status, flags, resetreas, untold, resets, channels, feeders>>

\* k_sys_fatal_error_handler: a crash, at any point and also within a handler.
Crash == FaultBegin("crash")

\* totem_task_wdt_cb and totem_fault_note_task_wdt: a channel has run out.
Hang == \E c \in channels : Bites(c) /\ phase = "running" /\ FaultBegin(c)

\* The fields are filled in and fault_seal makes them valid.
FaultSeal ==
    /\ phase = "handler" /\ phase' = "sealed"
    /\ fault_rec' = [magic |-> "TOFT", crc_ok |-> TRUE, fault |-> faults, label |-> label]
    /\ completed' = TRUE
    /\ UNCHANGED <<faults, hung, reported, interrupted, ramVars, causeVars, resets, watchdogVars>>

\* What a reset for the given reason does to everything but the record.
Restart(why) ==
    /\ phase' = "reset_reason" /\ label' = "none" /\ WatchdogReset
    /\ last_fault' = NoFault /\ status' = 0 /\ flags' = Unread
    /\ resetreas' = resetreas \cup {why} /\ cause' = {}
    /\ untold' = untold \cup {why} /\ NoteUncleared
    /\ UNCHANGED <<faults, hung, reported>>

\* sys_reboot at the end of both handlers.
Reboot ==
    /\ phase = "sealed"
    /\ Restart("SOFTWARE")
    /\ UNCHANGED <<fault_rec, completed, interrupted, resets>>

\* A reset from outside: pin, the hardware watchdog once armed, a lockup.
ResetStrikes ==
    /\ resets < MaxResets /\ resets' = resets + 1
    /\ \E why \in {"PIN", "LOCKUP"} \cup (IF channels # {} THEN {"WATCHDOG"} ELSE {}) : Restart(why)
    /\ interrupted' = IF phase = "clear" THEN interrupted \cup {last_fault.fault} ELSE interrupted
    /\ UNCHANGED <<fault_rec, completed>>

\* RAM and the cause register are lost.
PowerCut ==
    /\ resets < MaxResets /\ resets' = resets + 1
    /\ fault_rec' \in Garbage
    /\ completed' = FALSE
    /\ phase' = "reset_reason" /\ label' = "none" /\ WatchdogReset
    /\ last_fault' = NoFault /\ status' = 0 /\ flags' = Unread
    /\ resetreas' = {"POR"} /\ cause' = {} /\ untold' = {"POR"} /\ retold' = {}
    /\ UNCHANGED <<faults, hung, reported, interrupted>>

-----------------------------------------------------------------------------
(* totem_watchdog_init.                                                    *)

compress_reset_cause(causes) ==
    IF causes # {} /\ causes \cap Listed = {} THEN {"OTHER"} ELSE causes \cap Listed

\* totem_capture_reset_reason reads the register; an error ends the capture and
\* leaves the register alone.
ReadResetCause ==
    /\ phase = "reset_reason"
    /\ \/ phase' = "record" /\ cause' = resetreas
       \/ phase' = "report" /\ UNCHANGED cause
    /\ UNCHANGED <<fault_rec, ramVars, faultVars, resetreas, untold, retold, resets, watchdogVars>>

\* It records the flags ...
RecordResetCause ==
    /\ phase = "record" /\ phase' = "clear_cause"
    /\ flags' = compress_reset_cause(cause)
    /\ untold' = {}
    /\ UNCHANGED <<fault_rec, last_fault, status, label, faultVars, resetreas, cause, retold, resets,
                   watchdogVars>>

\* Mutant: the cause register is not cleared.
KeepCause == UNCHANGED resetreas
hwinfo_clear_reset_cause == resetreas' = {}

\* ... and then clears the register.
ClearResetCause ==
    /\ phase = "clear_cause" /\ phase' = "report"
    /\ hwinfo_clear_reset_cause
    /\ cause' = {} /\ retold' = {}
    /\ UNCHANGED <<fault_rec, ramVars, faultVars, untold, resets, watchdogVars>>

fault_valid == fault_rec.magic = "TOFT" /\ fault_rec.crc_ok

\* totem_fault_report_and_clear without a valid record.
ReportNone ==
    /\ phase = "report" /\ ~fault_valid /\ phase' = "running"
    /\ status' = IF fault_rec.magic = "zero" THEN 0 ELSE IF fault_rec.magic = "TOFT" THEN 2 ELSE 1
    /\ ArmWatchdog
    /\ UNCHANGED <<fault_rec, last_fault, flags, label, faultVars, causeVars, resets>>

\* totem_fault_report_and_clear with one: it is printed and recorded ...
ReportFault ==
    /\ phase = "report" /\ fault_valid /\ phase' = "clear"
    /\ status' = 3
    /\ last_fault' = [fault |-> fault_rec.fault, label |-> fault_rec.label]
    /\ reported' = [f \in DOMAIN reported |->
                      IF f = fault_rec.fault THEN reported[f] + 1 ELSE reported[f]]
    /\ UNCHANGED <<fault_rec, flags, label, faults, hung, completed, interrupted, causeVars, resets,
                   watchdogVars>>

\* Mutant: the record stays valid.
StillValid == fault_rec
Invalidated == [fault_rec EXCEPT !.magic = "zero", !.crc_ok = FALSE]

\* ... and then invalidated.
ReportClear ==
    /\ phase = "clear" /\ phase' = "running"
    /\ fault_rec' = Invalidated
    /\ completed' = FALSE
    /\ ArmWatchdog
    /\ UNCHANGED <<last_fault, status, flags, label, faults, hung, reported, interrupted, causeVars,
                   resets>>

\* The firmware runs: time passes, and a context may stop.
Running ==
    /\ phase = "running" /\ channels # {}
    /\ Tick \/ \E c \in FeedContexts : Stall(c)
    /\ UNCHANGED <<fault_rec, phase, resets, ramVars, faultVars, causeVars>>

Next == \/ Crash \/ Hang \/ FaultSeal \/ Reboot \/ ResetStrikes \/ PowerCut
        \/ ReadResetCause \/ RecordResetCause \/ ClearResetCause \/ ReportNone \/ ReportFault \/ ReportClear \/ Running

Spec == Init /\ [][Next]_vars

-----------------------------------------------------------------------------
\* What a boot reports is the latest fault, never an older one or leftover
\* bytes of a power cut; and a boot that says "none" had no completed record
\* before it ("Silence here ... is itself the answer", header of totem_fault.c,
\* as far as the fatal handler got to complete its record).
ReportsLatestFault ==
    [][phase = "report" =>
         /\ phase' = "clear" => last_fault'.fault = faults
         /\ phase' = "running" => ~completed]_vars

\* A fault is reported exactly once: a second report happens only when a reset
\* struck between the first one and the invalidation that ends it.
ReportedOnce == \A f \in 1 .. MaxFaults : reported[f] <= 1 \/ f \in interrupted

\* A hang that a boot reports names a context that had stopped when the record
\* was made: none that fed its channel late but within two missed feeds, no
\* leftover label, and no crash shown as a hang.  Two exceptions are the code's:
\* where only some channels could be added nobody feeds any of them and each runs
\* out, and for a timeout that is a multiple of three the feed after two misses
\* comes too late to be sure to count (Unserved).
HangIsReal ==
    [][phase = "report" /\ phase' = "clear" /\ last_fault'.label \in FeedContexts =>
         last_fault'.label = hung]_vars

\* The flags a boot records name the resets that no boot has recorded yet, however
\* often a reset, a fault or a failed read came before the record, and no reset that
\* one has: only causes whose recording was itself cut short before the clear are
\* named again ("so the next boot reports its own cause and not a sticky union").
CauseIsOwn ==
    [][flags = Unread /\ flags' # Unread =>
         flags' = compress_reset_cause(untold \cup retold)]_vars

=============================================================================
