--------------------------- MODULE ReconnectWatch ---------------------------
(***************************************************************************)
(* reconnect_watch.c: the recovery ladder that runs while the selected     *)
(* host is down.  Step READV densifies advertising, EVICT drops encrypted  *)
(* hosts of other profiles, ZOMBIE ends the ladder.  Delays are not timed: *)
(* watch_pending holds from the moment reconnect_watch_work is scheduled   *)
(* until its handler starts or the work is cancelled.                      *)
(***************************************************************************)
EXTENDS HostLink

CONSTANTS
    WATCH,              \* CONFIG_TOTEM_RECONNECT_WATCH
    ON_ACTIVE_DOWN      \* CONFIG_TOTEM_RECONNECT_WATCH_ON_ACTIVE_DOWN

ASSUME WatchAssumption == WATCH \in BOOLEAN /\ ON_ACTIVE_DOWN \in BOOLEAN

VARIABLES
    next_step, ladder_from_active_down, watch_profile_index,
    watch_pending,      \* reconnect_watch_work is scheduled or queued
    arm_queued,         \* active_down_arm_work is queued
    densified           \* history: step 1 ran since the active host was last up

ladderVars == <<next_step, ladder_from_active_down, watch_pending>>
watchVars  == <<ladderVars, watch_profile_index, arm_queued, densified>>

WatchTypeOK ==
    /\ next_step \in {"NONE", "READV", "EVICT", "ZOMBIE"}
    /\ ladder_from_active_down \in BOOLEAN
    /\ watch_profile_index \in Profiles
    /\ watch_pending \in BOOLEAN /\ arm_queued \in BOOLEAN /\ densified \in BOOLEAN

\* reconnect_watch_init, and the commit callback once the profile is restored.
WatchInit ==
    /\ next_step = "NONE" /\ ladder_from_active_down = FALSE /\ watch_pending = FALSE
    /\ watch_profile_index = active
    /\ arm_queued = FALSE /\ densified = FALSE

\* Mutant: the work is cancelled but the ladder stays armed.
ResetKeepsStep ==
    watch_pending' = FALSE /\ UNCHANGED <<next_step, ladder_from_active_down>>

reconnect_watch_reset ==
    next_step' = "NONE" /\ ladder_from_active_down' = FALSE /\ watch_pending' = FALSE

Arm(light) ==
    next_step' = "READV" /\ ladder_from_active_down' = light /\ watch_pending' = TRUE

\* Arming reads the core's state as the event left it.
reconnect_watch_arm_full ==
    IF Suppressed' \/ ActiveOpen' \/ ActiveConnected'
    THEN reconnect_watch_reset ELSE Arm(FALSE)

-----------------------------------------------------------------------------
(* Callbacks.                                                              *)

reconnect_watch_profile_changed ==
    IF ~WATCH THEN UNCHANGED watchVars
    ELSE /\ watch_profile_index' = active'
         /\ IF active' = watch_profile_index THEN UNCHANGED ladderVars
            ELSE reconnect_watch_arm_full
         /\ densified' = (densified /\ active' = watch_profile_index)
         /\ UNCHANGED arm_queued

\* reconnect_watch_connected; also reconnect_watch_security_changed at level 2.
reconnect_watch_link_good ==
    IF ~WATCH THEN UNCHANGED watchVars
    ELSE /\ IF ActiveConnected' THEN reconnect_watch_reset ELSE UNCHANGED ladderVars
         /\ densified' = (densified /\ ~ActiveConnected')
         /\ UNCHANGED <<watch_profile_index, arm_queued>>

\* The callback sees the address of the object that went away.
reconnect_watch_disconnected(h) ==
    /\ arm_queued' = (arm_queued \/ (WATCH /\ ON_ACTIVE_DOWN /\ ~powered
                                       /\ ProfileIndex(h) = active))
    /\ UNCHANGED <<ladderVars, watch_profile_index, densified>>

-----------------------------------------------------------------------------
(* Work handlers on the system work queue.                                 *)

\* active_down_arm_work_handler and reconnect_watch_arm_light.
ActiveDownArm ==
    /\ SysIdle /\ arm_queued
    /\ arm_queued' = FALSE
    /\ IF ActiveOpen \/ Suppressed \/ ActiveConnected \/ next_step # "NONE"
       THEN UNCHANGED ladderVars ELSE Arm(TRUE)
    /\ UNCHANGED <<linkVars, used, sys, watch_profile_index, densified>>

\* The handler's reasons to stop, re-read at the start of every step.
WatchStops == Suppressed \/ ActiveOpen \/ ActiveConnected \/ ActiveVerified

WatchFinish ==
    /\ SysIdle /\ watch_pending
    /\ WatchStops \/ next_step \in {"ZOMBIE", "NONE"}
    /\ reconnect_watch_reset
    /\ UNCHANGED <<linkVars, used, sys, watch_profile_index, arm_queued, densified>>

\* Step 1 enters zmk_ble_adv_boost_rearm, step 2 the loop over connections.
WatchStart ==
    /\ SysIdle /\ watch_pending /\ ~WatchStops
    /\ watch_pending' = FALSE
    /\ \/ /\ next_step = "READV"
          /\ sys' = [Idle EXCEPT !.pc = "densify"]
          /\ densified' = TRUE
       \/ /\ next_step = "EVICT"
          /\ sys' = [Idle EXCEPT !.pc = "drop", !.todo = Profiles]
          /\ UNCHANGED densified
    /\ UNCHANGED <<linkVars, used, next_step, ladder_from_active_down, watch_profile_index,
                   arm_queued>>

\* Mutant: step 2 does not schedule step 3.
NoFollowUp(step) == next_step' = step /\ UNCHANGED watch_pending
Advance(step) == next_step' = step /\ watch_pending' = TRUE

\* Advertising was restarted: whatever happened meanwhile, step 2 is next.
WatchDensified ==
    /\ sys.pc = "densify" /\ sys' = Idle
    /\ Advance("EVICT")
    /\ UNCHANGED <<linkVars, used, ladder_from_active_down, watch_profile_index, arm_queued,
                   densified>>

\* The connections drop_non_active_hosts would drop now.
NonActiveHosts(todo) ==
    {h \in todo : /\ link[h] # "down" /\ h \in secure
                  /\ ProfileIndex(h) >= 0 /\ ProfileIndex(h) # active}

WatchDrop(h) ==
    /\ sys.pc = "drop" /\ h \in NonActiveHosts(sys.todo)
    /\ \E passed \in SUBSET (sys.todo \ NonActiveHosts(sys.todo)) : \E ok \in BOOLEAN :
          /\ Disconnect(h, ok)
          /\ sys' = [sys EXCEPT !.todo = @ \ (passed \cup {h})]
    /\ UNCHANGED <<seen, secure, bonded, active, powered, dark, profile_event, watchVars>>

WatchDropped ==
    /\ sys.pc = "drop" /\ NonActiveHosts(sys.todo) = {}
    /\ sys' = Idle
    /\ Advance("ZOMBIE")
    /\ UNCHANGED <<linkVars, used, ladder_from_active_down, watch_profile_index, arm_queued,
                   densified>>

-----------------------------------------------------------------------------
\* An armed ladder always has its work scheduled or running.  Were it not so,
\* every later loss of the active host would be answered with "ladder already
\* armed" and recovery would be off for good (reset on the RX thread between
\* the handler's test and its next_step assignment included).
NoStuckLadder == next_step # "NONE" => watch_pending \/ sys.pc \in {"densify", "drop"}

\* Force-eviction is the second step of a recovery: advertising was densified
\* first in the same outage of the active host (header of reconnect_watch.c).
EvictAfterDensify == [][sys.pc # "drop" /\ sys'.pc = "drop" => densified]_sys

=============================================================================
