----------------------------- MODULE HostPolicy -----------------------------
(***************************************************************************)
(* The host policy: exclusive_host.c, reconnect_watch.c, usb_host_quiet.c  *)
(* and lazy_inactive_host.c sharing the connection table, the active       *)
(* profile and the system work queue.  A Bluetooth callback runs the       *)
(* handler of every module that registered one.                            *)
(***************************************************************************)
EXTENDS ExclusiveHost, ReconnectWatch, UsbHostQuiet, LazyHost

vars == <<build, linkVars, sys, used, exclusiveVars, watchVars, quiet_pending, lazyVars>>

TypeOK ==
    LinkTypeOK /\ ExclusiveTypeOK /\ WatchTypeOK /\ quiet_pending \in BOOLEAN /\ LazyTypeOK

Init == LinkInit /\ ExclusiveInit /\ WatchInit /\ QuietInit /\ LazyInit

-----------------------------------------------------------------------------
(* Bluetooth RX thread.                                                    *)

Connected(h) ==
    /\ LinkUp(h)
    /\ exclusive_host_connected(h) /\ reconnect_watch_link_good /\ lazy_host_connected(h)
    /\ UNCHANGED <<build, sys, quiet_pending>>

IdentityResolved(h) ==
    /\ LinkResolved(h)
    /\ exclusive_host_peer_changed /\ lazy_host_identity_resolved
    /\ UNCHANGED <<build, sys, watchVars, quiet_pending>>

SecurityChanged(h) ==
    /\ LinkSecured(h)
    /\ exclusive_host_peer_changed /\ reconnect_watch_link_good
    /\ lazy_host_security_changed(h)
    /\ UNCHANGED <<build, sys, quiet_pending>>

\* The callback carries the level the link has kept; reconnect_watch.c and
\* lazy_inactive_host.c look at that level and not at the error.
SecurityFailed(h) ==
    /\ LinkInsecure(h)
    /\ exclusive_host_peer_changed /\ lazy_host_security_changed(h)
    /\ IF h \in secure THEN reconnect_watch_link_good ELSE UNCHANGED watchVars
    /\ UNCHANGED <<build, sys, quiet_pending>>

LinkEnds(h) ==
    /\ LinkLost(h) \/ DisconnectComplete(h)
    /\ UNCHANGED <<build, sys, exclusiveVars, watchVars, quiet_pending, lazyVars>>

-----------------------------------------------------------------------------
(* System work queue.                                                      *)

Disconnected(h) ==
    /\ SysIdle
    /\ LinkDown(h) \/ StaleDown(h)
    /\ reconnect_watch_disconnected(h)
    /\ UNCHANGED <<build, sys, exclusiveVars, quiet_pending, lazyVars>>

ProfileChanged ==
    /\ exclusive_host_profile_changed /\ reconnect_watch_profile_changed /\ lazy_host_schedule
    /\ UNCHANGED <<build, sys, quiet_pending>>

\* BT_SEL raises the event itself; link changes raise it from queued work.
SelectProfile(p) == SysIdle /\ ActiveSelected(p) /\ ProfileChanged

ReportProfile ==
    /\ SysIdle /\ profile_event
    /\ profile_event' = FALSE
    /\ UNCHANGED <<link, seen, secure, bonded, active, powered, dark, used>>
    /\ ProfileChanged

Exclusive ==
    /\ ScanStart \/ (\E h \in Profiles : ScanDrop(h)) \/ ScanNote \/ ScanDone
    /\ UNCHANGED <<build, watchVars, quiet_pending, lazyVars>>

ArmWork == ActiveDownArm /\ UNCHANGED <<build, exclusiveVars, quiet_pending, lazyVars>>

Watch ==
    /\ \/ WatchFinish \/ WatchStart
       \/ WatchDensified \/ (\E h \in Profiles : WatchDrop(h)) \/ WatchDropped
    /\ UNCHANGED <<build, exclusiveVars, quiet_pending, lazyVars>>

Quiet ==
    /\ QuietStart \/ (\E h \in Profiles : QuietDrop(h)) \/ QuietDone
    /\ UNCHANGED <<build, exclusiveVars, watchVars, lazyVars>>

Lazy ==
    /\ RefreshStart \/ (\E h \in Profiles : RefreshHost(h)) \/ RefreshDone
    /\ UNCHANGED <<build, exclusiveVars, watchVars, quiet_pending>>

-----------------------------------------------------------------------------
(* Cable, advertising, time.                                               *)

CableEvent ==
    /\ CableChanged /\ usb_host_quiet_listener
    /\ UNCHANGED <<build, sys, exclusiveVars, watchVars, lazyVars>>

GoDarkOrWake ==
    /\ AdvertisingToggled
    /\ UNCHANGED <<build, sys, exclusiveVars, watchVars, quiet_pending, lazyVars>>

TimePasses == Tick /\ UNCHANGED <<build, watchVars, quiet_pending, lazyVars>>

Next ==
    \/ \E h \in Profiles : \/ Connected(h) \/ IdentityResolved(h) \/ SecurityChanged(h)
                           \/ SecurityFailed(h) \/ LinkEnds(h) \/ Disconnected(h)
                           \/ SelectProfile(h)
    \/ ReportProfile \/ Exclusive \/ ArmWork \/ Watch \/ Quiet \/ Lazy
    \/ CableEvent \/ GoDarkOrWake \/ TimePasses

Spec == Init /\ [][Next]_vars

\* A started handler goes on; the work queue is first-in first-out, so work
\* that is found queued each time the queue becomes idle is served; timers
\* expire; the controller completes a requested disconnect.
HandlersRun == /\ WF_vars(Exclusive /\ ~SysIdle) /\ WF_vars(Watch /\ ~SysIdle)
               /\ WF_vars(Lazy /\ ~SysIdle) /\ WF_vars(Quiet /\ ~SysIdle)
Fairness ==
    /\ HandlersRun
    /\ SF_vars(Exclusive /\ SysIdle) /\ SF_vars(Watch /\ SysIdle) /\ SF_vars(ArmWork)
    /\ SF_vars(Quiet /\ SysIdle) /\ SF_vars(Lazy /\ SysIdle) /\ SF_vars(ReportProfile) /\ WF_vars(TimePasses)
    /\ \A h \in Profiles : /\ SF_vars(Disconnected(h))
                           /\ WF_vars(LinkEnds(h) /\ link[h] = "disconnecting")

FairSpec == Spec /\ Fairness

\* The part of it that LadderEnds and QuietOnUsb need.
RecoverySpec == /\ Spec
                /\ WF_vars(Watch /\ ~SysIdle) /\ SF_vars(Watch /\ SysIdle)
                /\ WF_vars(Quiet /\ ~SysIdle) /\ SF_vars(Quiet /\ SysIdle)

-----------------------------------------------------------------------------
\* The keyboard itself only ever asks to drop the host of another profile: not
\* the selected one and not one it cannot map, whichever of the modules
\* decides and whatever the RX thread changes during its scan; and the scan of
\* exclusive_host.c leaves even that one alone once the active host is gone.
\* With the cable in, and in the core's own handoff at a switch, every host may be
\* dropped.  On battery usb_host_quiet.c may still drop every host, but only when
\* the cable was pulled while its loop went over the links: its work is then
\* scheduled again.
KeepsSelectedHost ==
    [][\A h \in Profiles :
          link[h] = "up" /\ link'[h] = "disconnecting" =>
              \/ powered \/ active' # active
              \/ sys.pc = "quiet" /\ quiet_pending
              \/ /\ ProfileIndex(h) >= 0 /\ ProfileIndex(h) # active
                 /\ sys.pc = "scan" => ActiveConnected]_link

\* A ladder ends: recovery never goes on for ever (the switches are bounded).
LadderEnds == (next_step # "NONE") ~> (next_step = "NONE")

\* With the cable in, every computer link is eventually taken down, unless the
\* stack refused a disconnect: the handler does not repeat it.
QuietOnUsb ==
    QUIET => \A h \in Profiles :
        (powered /\ link[h] = "up") ~> (~powered \/ link[h] # "up" \/ used["fails"] > 0)

\* Only the selected host remains connected (STABLE-BASELINE.md).
OnlySelectedRemains ==
    \A h \in Profiles :
        (EXCLUSIVE /\ ActiveConnected /\ ~powered /\ h # active /\ link[h] = "up"
           /\ ProfileIndex(h) >= 0)
        ~> (~ActiveConnected \/ powered \/ h = active \/ link[h] # "up")

=============================================================================
