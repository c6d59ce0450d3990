------------------------------ MODULE Watchdog ------------------------------
(***************************************************************************)
(* The task watchdog of totem_watchdog.c: three channels, each fed by a    *)
(* context of its own every third of the timeout, so that the channel that *)
(* runs out names the context that stopped.                                *)
(*                                                                         *)
(* Time is counted in ticks of any length.  A context that is not stuck    *)
(* may miss two feeds in a row ("a third of the timeout tolerates two      *)
(* consecutive missed feeds"); a feed that falls on the very tick of the   *)
(* timeout races with it.  External: Zephyr's task_wdt.                    *)
(***************************************************************************)
EXTENDS Integers, Sequences

CONSTANT WDT_TIMEOUT    \* in ticks

\* CONFIG_TOTEM_WATCHDOG_TIMEOUT_MS is at least 2000.
ASSUME TimeoutAssumption == WDT_TIMEOUT \in Nat /\ WDT_TIMEOUT >= 3

VARIABLES
    channels,   \* contexts whose task_wdt_add succeeded
    feeders,    \* the contexts were told to feed
    stuck,      \* contexts that have stopped running
    unfed       \* ticks since each channel was fed

watchdogVars == <<channels, feeders, stuck, unfed>>

\* The order in which the channels are added.
ChannelOrder == <<"sched", "sysworkq", "timer">>
FeedContexts == {ChannelOrder[i] : i \in 1 .. 3}

WatchdogTypeOK ==
    /\ channels \subseteq FeedContexts /\ feeders \in BOOLEAN /\ stuck \subseteq FeedContexts
    /\ unfed \in [FeedContexts -> 0 .. WDT_TIMEOUT]

WatchdogInit ==
    /\ channels = {} /\ feeders = FALSE /\ stuck = {}
    /\ unfed = [c \in FeedContexts |-> 0]

\* A reset stops the watchdog.
WatchdogReset ==
    /\ channels' = {} /\ feeders' = FALSE /\ stuck' = {}
    /\ unfed' = [c \in FeedContexts |-> 0]

\* The rest of totem_watchdog_init.  Without a device, or when task_wdt_init
\* fails, no channel is added; when a task_wdt_add fails the ones before it stay
\* and nobody is told to feed them.
ArmWatchdog ==
    /\ \E n \in 0 .. 3 :
          /\ channels' = {ChannelOrder[i] : i \in 1 .. n}
          /\ feeders' = (n = 3)
    /\ UNCHANGED <<stuck, unfed>>

\* A context stops: a handler blocks, a thread spins, the core stops scheduling.
Stall(c) ==
    /\ c \notin stuck
    /\ stuck' = stuck \cup {c}
    /\ UNCHANGED <<channels, feeders, unfed>>

\* Mutant: two feeds to a timeout.
HalfTimeout == WDT_TIMEOUT \div 2
WDT_FEED_INTERVAL == WDT_TIMEOUT \div 3

\* A timeout that is a multiple of three, which Kconfig allows (the default is not):
\* the third feed is due on the very tick of the timeout.
RacesTimeout == 3 * WDT_FEED_INTERVAL = WDT_TIMEOUT

\* wdt_feeder, wdt_workq_handler and wdt_timer_handler run at this age.
FeedDue(c) == feeders /\ c \notin stuck /\ (unfed[c] + 1) % WDT_FEED_INTERVAL = 0

\* A due feed can be missed: the first two, or one that races with the timeout.
MayMiss(c) == unfed[c] + 1 < 3 * WDT_FEED_INTERVAL \/ unfed[c] + 1 = WDT_TIMEOUT

\* Time passes; task_wdt_feed resets the channels that are fed.
Tick ==
    /\ \A c \in channels : unfed[c] < WDT_TIMEOUT
    /\ \E missed \in SUBSET {c \in channels : FeedDue(c) /\ MayMiss(c)} :
          unfed' = [c \in FeedContexts |->
                      IF c \notin channels \/ (FeedDue(c) /\ c \notin missed) THEN 0
                      ELSE unfed[c] + 1]
    /\ UNCHANGED <<channels, feeders, stuck>>

\* The channel has run out: task_wdt calls totem_task_wdt_cb.
Bites(c) == c \in channels /\ unfed[c] = WDT_TIMEOUT

\* Why a channel may run out: its context stopped, nobody was told to feed it,
\* or it missed two feeds and lost the race of the third.
Unserved(c) == c \in stuck \/ ~feeders \/ (RacesTimeout /\ unfed[c] = WDT_TIMEOUT)

=============================================================================
