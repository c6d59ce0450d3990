-------------------------- MODULE HostPolicyProofs --------------------------
(***************************************************************************)
(* Proofs about HostPolicy for every set of profiles, every way to build the *)
(* firmware and every bound.                                               *)
(***************************************************************************)
EXTENDS HostPolicy, SequenceTheorems, TLAPS

-----------------------------------------------------------------------------
(* The recovery ladder.                                                    *)

\* What a step of the ladder leaves behind: disarmed, or with its work scheduled.
LadderSound == next_step' # "NONE" => watch_pending'

\* A reset and an arming both leave the ladder sound.
LEMMA ArmSound == reconnect_watch_arm_full => LadderSound
  BY DEF reconnect_watch_arm_full, reconnect_watch_reset, Arm, LadderSound

\* A callback leaves the ladder alone or sound, and does not touch the work queue.
LEMMA CallbackSound ==
    ASSUME NoStuckLadder, UNCHANGED sys,
           \/ reconnect_watch_profile_changed
           \/ reconnect_watch_link_good
           \/ \E h \in Profiles : reconnect_watch_disconnected(h)
    PROVE  NoStuckLadder'
<1>1. LadderSound \/ UNCHANGED ladderVars
  BY ArmSound DEF reconnect_watch_profile_changed, reconnect_watch_link_good,
     reconnect_watch_disconnected, reconnect_watch_reset, LadderSound, watchVars
<1>. QED  BY <1>1 DEF LadderSound, NoStuckLadder, ladderVars

\* The invariant is inductive as it stands: every step that leaves "densify" or
\* "drop" schedules the work again, and no scan starts on a busy queue.
LEMMA LadderStep == NoStuckLadder /\ [Next]_vars => NoStuckLadder'
<1>. SUFFICES ASSUME NoStuckLadder, [Next]_vars PROVE NoStuckLadder'
  OBVIOUS
<1>1. CASE UNCHANGED <<sys, watchVars>>
  BY <1>1 DEF NoStuckLadder, watchVars, ladderVars
<1>2. ASSUME NEW h \in Profiles, Connected(h) \/ SecurityChanged(h) \/ Disconnected(h)
                                   \/ SelectProfile(h)
      PROVE NoStuckLadder'
  BY <1>2, CallbackSound DEF Connected, SecurityChanged, Disconnected, SelectProfile,
     ProfileChanged
<1>3. ASSUME NEW h \in Profiles, IdentityResolved(h) \/ SecurityFailed(h) \/ LinkEnds(h)
      PROVE NoStuckLadder'
  <2>1. UNCHANGED sys /\ (UNCHANGED watchVars \/ reconnect_watch_link_good)
    BY <1>3 DEF IdentityResolved, SecurityFailed, LinkEnds
  <2>. QED  BY <2>1, <1>1, CallbackSound
<1>4. CASE ReportProfile
  BY <1>4, CallbackSound DEF ReportProfile, ProfileChanged
<1>5. CASE Exclusive
  <2>1. sys.pc \notin {"densify", "drop"}
    BY <1>5 DEF Exclusive, ScanStart, ScanDrop, ScanNote, ScanDone, SysIdle
  <2>2. UNCHANGED <<next_step, watch_pending>>
    BY <1>5 DEF Exclusive, watchVars, ladderVars
  <2>. QED  BY <2>1, <2>2 DEF NoStuckLadder
<1>6. CASE ArmWork
  <2>1. UNCHANGED sys /\ (LadderSound \/ UNCHANGED ladderVars)
    BY <1>6 DEF ArmWork, ActiveDownArm, Arm, LadderSound
  <2>. QED  BY <2>1 DEF NoStuckLadder, LadderSound, ladderVars
<1>7. CASE Watch
  <2>1. CASE WatchFinish
    BY <2>1 DEF WatchFinish, reconnect_watch_reset, NoStuckLadder
  <2>2. CASE WatchStart
    BY <2>2 DEF WatchStart, Idle, NoStuckLadder
  <2>3. CASE WatchDensified \/ WatchDropped
    BY <2>3 DEF WatchDensified, WatchDropped, Advance, NoStuckLadder
  <2>4. ASSUME NEW h \in Profiles, WatchDrop(h) PROVE NoStuckLadder'
    <3>1. sys.pc = "drop" /\ UNCHANGED watchVars
      BY <2>4 DEF WatchDrop
    <3>2. \E t : sys' = [sys EXCEPT !.todo = t]
      BY <2>4 DEF WatchDrop
    <3>. QED  BY <3>1, <3>2 DEF NoStuckLadder, watchVars, ladderVars
  <2>. QED  BY <1>7, <2>1, <2>2, <2>3, <2>4 DEF Watch
<1>8. CASE CableEvent \/ GoDarkOrWake \/ TimePasses
  BY <1>8, <1>1 DEF CableEvent, GoDarkOrWake, TimePasses, Tick
<1>9. CASE Lazy \/ Quiet
  <2>1. sys.pc \notin {"densify", "drop"}
    BY <1>9 DEF Lazy, RefreshStart, RefreshHost, RefreshDone, Quiet, QuietStart, QuietDrop,
       QuietDone, SysIdle
  <2>2. UNCHANGED <<next_step, watch_pending>>
    BY <1>9 DEF Lazy, Quiet, watchVars, ladderVars
  <2>. QED  BY <2>1, <2>2 DEF NoStuckLadder
<1>10. CASE UNCHANGED vars
  BY <1>10, <1>1 DEF vars
<1>. QED  BY <1>2, <1>3, <1>4, <1>5, <1>6, <1>7, <1>8, <1>9, <1>10 DEF Next

\* Recovery is never switched off for good by a reset that races the handler:
\* an armed ladder has its work scheduled or running (reconnect_watch.c).
THEOREM LadderNeverStuck == Spec => []NoStuckLadder
<1>1. Init => NoStuckLadder
  BY DEF Init, WatchInit, NoStuckLadder
<1>. QED  BY <1>1, LadderStep, PTL DEF Spec

-----------------------------------------------------------------------------
(* Only hosts of other profiles are dropped.                               *)

LinkOK == link \in [Profiles -> Links]

\* What a step may do to the links: see KeepsSelectedHost.
DropsOthers ==
    \A h \in Profiles :
        link[h] = "up" /\ link'[h] = "disconnecting" =>
            \/ powered \/ active' # active
            \/ sys.pc = "quiet" /\ quiet_pending
            \/ /\ ProfileIndex(h) >= 0 /\ ProfileIndex(h) # active
               /\ sys.pc = "scan" => ActiveConnected

\* The loop of usb_host_quiet.c runs with the cable in, or a cable event since its
\* start has scheduled its work again.
QuietInv ==
    /\ quiet_pending \/ sys.pc = "quiet" => QUIET
    /\ sys.pc = "quiet" => powered \/ quiet_pending

\* A disconnect request changes no other host's link.
LEMMA DisconnectOne ==
    ASSUME LinkOK, NEW h \in Profiles, NEW ok \in BOOLEAN, Disconnect(h, ok)
    PROVE  LinkOK' /\ \A g \in Profiles \ {h} : link'[g] = link[g]
  BY DEF Disconnect, LinkOK, Links

\* A profile index is a number; -1 stands for a host without one.
LEMMA ProfileIndexType == ASSUME NEW h \in Profiles PROVE ProfileIndex(h) \in Int
  BY HostLinkAssumption DEF ProfileIndex

\* drop_if_non_active_host drops mapped hosts of other profiles only, and only
\* beside the active host.
LEMMA VerdictOther ==
    ASSUME NEW h \in Profiles, Verdict(h) = "drop"
    PROVE  ProfileIndex(h) >= 0 /\ ProfileIndex(h) # active /\ ActiveConnected
  BY ProfileIndexType DEF Verdict

\* Every step keeps the links' type and drops no host it must keep.
LEMMA DropStep == LinkOK /\ QuietInv /\ [Next]_vars => LinkOK' /\ DropsOthers
<1>. SUFFICES ASSUME LinkOK, QuietInv, [Next]_vars PROVE LinkOK' /\ DropsOthers
  OBVIOUS
<1>1. CASE UNCHANGED link
  BY <1>1 DEF LinkOK, DropsOthers
<1>2. ASSUME NEW h \in Profiles, LinkUp(h) \/ LinkLost(h) \/ DisconnectComplete(h) \/ LinkDown(h)
      PROVE  LinkOK' /\ DropsOthers
  BY <1>2 DEF LinkUp, LinkLost, DisconnectComplete, LinkDown, LinkOK, Links, DropsOthers
<1>3. ASSUME NEW p \in Profiles, ActiveSelected(p) PROVE LinkOK' /\ DropsOthers
  <2>1. active' # active
    BY <1>3 DEF ActiveSelected
  <2>2. LinkOK'
    BY <1>3 DEF ActiveSelected, LinkOK, Links
  <2>. QED  BY <2>1, <2>2 DEF DropsOthers
<1>4. ASSUME NEW h \in Profiles, NEW ok \in BOOLEAN, Disconnect(h, ok),
             ProfileIndex(h) >= 0, ProfileIndex(h) # active, sys.pc = "scan" => ActiveConnected
      PROVE  LinkOK' /\ DropsOthers
  BY <1>4, DisconnectOne DEF DropsOthers
<1>5. CASE Exclusive
  <2>1. ASSUME NEW h \in Profiles, ScanDrop(h) PROVE LinkOK' /\ DropsOthers
    <3>1. Verdict(h) = "drop"
      BY <2>1 DEF ScanDrop, ToDrop
    <3>2. \E ok \in BOOLEAN : Disconnect(h, ok)
      BY <2>1 DEF ScanDrop
    <3>. QED  BY <3>1, <3>2, VerdictOther, <1>4
  <2>2. CASE ScanStart \/ ScanNote \/ ScanDone
    BY <2>2, <1>1 DEF ScanStart, ScanNote, ScanDone, linkVars
  <2>. QED  BY <1>5, <2>1, <2>2 DEF Exclusive
<1>6. CASE Watch
  <2>1. ASSUME NEW h \in Profiles, WatchDrop(h) PROVE LinkOK' /\ DropsOthers
    <3>1. ProfileIndex(h) >= 0 /\ ProfileIndex(h) # active /\ sys.pc # "scan"
      BY <2>1 DEF WatchDrop, NonActiveHosts
    <3>2. \E ok \in BOOLEAN : Disconnect(h, ok)
      BY <2>1 DEF WatchDrop
    <3>. QED  BY <3>1, <3>2, <1>4
  <2>2. CASE WatchFinish \/ WatchStart \/ WatchDensified \/ WatchDropped
    BY <2>2, <1>1 DEF WatchFinish, WatchStart, WatchDensified, WatchDropped, linkVars
  <2>. QED  BY <1>6, <2>1, <2>2 DEF Watch
<1>7. CASE Quiet
  <2>1. ASSUME NEW h \in Profiles, QuietDrop(h) PROVE LinkOK' /\ DropsOthers
    <3>1. sys.pc = "quiet" /\ \E ok \in BOOLEAN : Disconnect(h, ok)
      BY <2>1 DEF QuietDrop
    <3>2. powered \/ quiet_pending
      BY <3>1 DEF QuietInv
    <3>. QED  BY <3>1, <3>2, DisconnectOne DEF DropsOthers
  <2>2. CASE QuietStart \/ QuietDone
    BY <2>2, <1>1 DEF QuietStart, QuietDone, linkVars
  <2>. QED  BY <1>7, <2>1, <2>2 DEF Quiet
<1>8. ASSUME NEW h \in Profiles,
             \/ Connected(h) \/ IdentityResolved(h) \/ SecurityChanged(h)
             \/ SecurityFailed(h) \/ LinkEnds(h) \/ Disconnected(h) \/ SelectProfile(h)
      PROVE  LinkOK' /\ DropsOthers
  <2>1. CASE IdentityResolved(h) \/ SecurityChanged(h) \/ SecurityFailed(h)
    BY <2>1, <1>1 DEF IdentityResolved, SecurityChanged, SecurityFailed, LinkResolved,
       LinkSecured, LinkInsecure, linkVars
  <2>2. CASE Connected(h) \/ LinkEnds(h)
    BY <2>2, <1>2 DEF Connected, LinkEnds
  <2>3. CASE Disconnected(h)
    BY <2>3, <1>1, <1>2 DEF Disconnected, StaleDown
  <2>4. CASE SelectProfile(h)
    BY <2>4, <1>3 DEF SelectProfile
  <2>. QED  BY <1>8, <2>1, <2>2, <2>3, <2>4
<1>9. CASE ReportProfile \/ ArmWork \/ CableEvent \/ GoDarkOrWake \/ TimePasses
  BY <1>9, <1>1 DEF ReportProfile, ArmWork, ActiveDownArm, CableEvent, CableChanged,
     GoDarkOrWake, AdvertisingToggled, TimePasses, Tick, linkVars
<1>10. CASE Lazy
  BY <1>10, <1>1 DEF Lazy, RefreshStart, RefreshHost, RefreshDone, linkVars
<1>11. CASE UNCHANGED vars
  BY <1>11, <1>1 DEF vars, linkVars
<1>. QED  BY <1>5, <1>6, <1>7, <1>8, <1>9, <1>10, <1>11 DEF Next

-----------------------------------------------------------------------------
(* What the steps do to the hosts that a scan or a refresh cares about.    *)

SeenOK == seen \in [Profiles -> {"rpa", "id", "stale"}]
SysOK == sys \in [pc: {"idle", "scan", "note", "densify", "drop", "refresh", "quiet"},
                  todo: SUBSET Profiles, host: Profiles \cup {NoHost}]
Typed == LinkOK /\ SeenOK /\ SysOK /\ QuietInv /\ active \in Profiles

\* The steps after which a scan and a refresh are asked for, and the others.
Asking(h) == \/ Connected(h) \/ IdentityResolved(h) \/ SecurityChanged(h) \/ SelectProfile(h)
             \/ ReportProfile
Unasked == \/ \E h \in Profiles : SecurityFailed(h) \/ LinkEnds(h) \/ Disconnected(h)
           \/ ArmWork \/ CableEvent \/ GoDarkOrWake \/ TimePasses

LEMMA NextCases ==
    ASSUME Next
    PROVE  (\E h \in Profiles : Asking(h)) \/ Unasked \/ Exclusive \/ Watch \/ Quiet \/ Lazy
  BY HostLinkAssumption DEF Next, Asking, Unasked

\* The options do not change at run time.
LEMMA BuildFixed == ASSUME [Next]_vars PROVE EXCLUSIVE' = EXCLUSIVE /\ LAZY' = LAZY
<1>1. UNCHANGED build
  BY DEF Next, vars, Connected, IdentityResolved, SecurityChanged, SecurityFailed, LinkEnds,
     Disconnected, SelectProfile, ReportProfile, ProfileChanged, Exclusive, ArmWork, Watch,
     Quiet, Lazy, CableEvent, GoDarkOrWake, TimePasses
<1>. QED  BY <1>1 DEF EXCLUSIVE, LAZY

LEMMA IdleOK == Idle \in [pc: {"idle"}, todo: SUBSET Profiles, host: {NoHost}]
  BY DEF Idle

LEMMA SysStep == SysOK /\ [Next]_vars => SysOK'
<1>. SUFFICES ASSUME SysOK, [Next]_vars PROVE SysOK'
  OBVIOUS
<1>1. CASE UNCHANGED sys
  BY <1>1 DEF SysOK
<1>2. CASE Exclusive
  <2>1. CASE ScanStart \/ ScanNote \/ ScanDone
    BY <2>1, IdleOK DEF ScanStart, ScanNote, ScanDone, SysOK
  <2>2. ASSUME NEW h \in Profiles, ScanDrop(h) PROVE SysOK'
    BY <2>2 DEF ScanDrop, SysOK
  <2>. QED  BY <1>2, <2>1, <2>2 DEF Exclusive
<1>3. CASE Watch
  <2>1. CASE WatchFinish \/ WatchStart \/ WatchDensified \/ WatchDropped
    BY <2>1, <1>1, IdleOK DEF WatchFinish, WatchStart, WatchDensified, WatchDropped, SysOK
  <2>2. ASSUME NEW h \in Profiles, WatchDrop(h) PROVE SysOK'
    BY <2>2 DEF WatchDrop, SysOK
  <2>. QED  BY <1>3, <2>1, <2>2 DEF Watch
<1>4. CASE Lazy
  <2>1. CASE RefreshStart \/ RefreshDone
    BY <2>1, IdleOK DEF RefreshStart, RefreshDone, SysOK
  <2>2. ASSUME NEW h \in Profiles, RefreshHost(h) PROVE SysOK'
    BY <2>2 DEF RefreshHost, SysOK
  <2>. QED  BY <1>4, <2>1, <2>2 DEF Lazy
<1>5. CASE Unasked
  BY <1>5, <1>1 DEF Unasked, SecurityFailed, LinkEnds, Disconnected, ArmWork, ActiveDownArm,
     CableEvent, GoDarkOrWake, TimePasses, Tick
<1>6. ASSUME NEW h \in Profiles, Asking(h) PROVE SysOK'
  BY <1>6, <1>1 DEF Asking, Connected, IdentityResolved, SecurityChanged, SelectProfile,
     ReportProfile, ProfileChanged
<1>7. CASE UNCHANGED vars
  BY <1>7, <1>1 DEF vars
<1>8. CASE Quiet
  <2>1. CASE QuietStart \/ QuietDone
    BY <2>1, <1>1, IdleOK DEF QuietStart, QuietDone, SysOK
  <2>2. ASSUME NEW h \in Profiles, QuietDrop(h) PROVE SysOK'
    BY <2>2 DEF QuietDrop, SysOK
  <2>. QED  BY <1>8, <2>1, <2>2 DEF Quiet
<1>. QED  BY <1>2, <1>3, <1>4, <1>5, <1>6, <1>7, <1>8, NextCases

\* The loop of usb_host_quiet.c starts from its own work only.
LEMMA OtherHandlers ==
    ASSUME SysOK, Exclusive \/ Watch \/ Lazy
    PROVE  UNCHANGED quiet_pending /\ (UNCHANGED <<sys, powered>> \/ sys'.pc # "quiet")
<1>0. UNCHANGED quiet_pending
  BY DEF Exclusive, Watch, Lazy
<1>1. CASE ScanStart \/ ScanDone \/ WatchStart \/ WatchDensified \/ WatchDropped
             \/ RefreshStart \/ RefreshDone
  <2>1. sys' \in [pc: {"idle", "scan", "densify", "drop", "refresh"}, todo: SUBSET Profiles,
                  host: {NoHost}]
    BY <1>1, IdleOK DEF ScanStart, ScanDone, WatchStart, WatchDensified, WatchDropped,
       RefreshStart, RefreshDone
  <2>. QED  BY <2>1, <1>0
<1>2. CASE ScanNote \/ WatchFinish
  BY <1>2, <1>0 DEF ScanNote, WatchFinish, linkVars, SysOK
<1>3. ASSUME NEW h \in Profiles, ScanDrop(h) \/ WatchDrop(h) \/ RefreshHost(h)
      PROVE  sys'.pc # "quiet"
  BY <1>3 DEF ScanDrop, WatchDrop, RefreshHost, SysOK
<1>. QED  BY <1>0, <1>1, <1>2, <1>3 DEF Exclusive, Watch, Lazy

LEMMA QuietInvStep == SysOK /\ QuietInv /\ [Next]_vars => QuietInv'
<1>. SUFFICES ASSUME SysOK, QuietInv, [Next]_vars PROVE QuietInv'
  OBVIOUS
<1>1. CASE UNCHANGED <<sys, powered, quiet_pending>>
  BY <1>1 DEF QuietInv
<1>2. CASE Exclusive \/ Watch \/ Lazy
  BY <1>2, <1>1, OtherHandlers DEF QuietInv
<1>3. CASE Quiet
  <2>1. CASE QuietStart
    BY <2>1 DEF QuietStart, linkVars, QuietInv, SysIdle, Idle
  <2>2. CASE QuietDone
    BY <2>2 DEF QuietDone, QuietInv, Idle
  <2>3. ASSUME NEW h \in Profiles, QuietDrop(h) PROVE QuietInv'
    BY <2>3 DEF QuietDrop, QuietInv, SysOK
  <2>. QED  BY <1>3, <2>1, <2>2, <2>3 DEF Quiet
<1>4. CASE CableEvent
  BY <1>4 DEF CableEvent, usb_host_quiet_listener, QuietInv
<1>5. ASSUME NEW h \in Profiles, Asking(h) PROVE QuietInv'
  BY <1>5, <1>1 DEF Asking, Connected, LinkUp, IdentityResolved, LinkResolved, SecurityChanged,
     LinkSecured, SelectProfile, ActiveSelected, ReportProfile, ProfileChanged
<1>6. CASE Unasked /\ ~CableEvent
  BY <1>6, <1>1 DEF Unasked, SecurityFailed, LinkInsecure, LinkEnds, LinkLost, DisconnectComplete,
     Disconnected, LinkDown, StaleDown, ArmWork, ActiveDownArm, GoDarkOrWake, AdvertisingToggled,
     TimePasses, Tick, linkVars
<1>7. CASE UNCHANGED vars
  BY <1>7, <1>1 DEF vars, linkVars
<1>. QED  BY <1>2, <1>3, <1>4, <1>5, <1>6, <1>7, NextCases

\* A handler of a policy module changes at most links, to "disconnecting".
LEMMA HandlerLinks ==
    ASSUME LinkOK, Exclusive \/ Watch \/ Lazy \/ Quiet
    PROVE  /\ UNCHANGED <<seen, secure, bonded, active, profile_event>>
           /\ \A g \in Profiles : link'[g] = "up" => link[g] = "up"
<1>1. CASE Lazy
  BY <1>1 DEF Lazy, RefreshStart, RefreshHost, RefreshDone, linkVars
<1>2. CASE Exclusive
  <2>1. CASE ScanStart \/ ScanNote \/ ScanDone
    BY <2>1 DEF ScanStart, ScanNote, ScanDone, linkVars
  <2>2. ASSUME NEW h \in Profiles, ScanDrop(h)
        PROVE  /\ UNCHANGED <<seen, secure, bonded, active, profile_event>>
               /\ \A g \in Profiles : link'[g] = "up" => link[g] = "up"
    BY <2>2 DEF ScanDrop, Disconnect, LinkOK
  <2>. QED  BY <1>2, <2>1, <2>2 DEF Exclusive
<1>3. CASE Watch
  <2>1. CASE WatchFinish \/ WatchStart \/ WatchDensified \/ WatchDropped
    BY <2>1 DEF WatchFinish, WatchStart, WatchDensified, WatchDropped, linkVars
  <2>2. ASSUME NEW h \in Profiles, WatchDrop(h)
        PROVE  /\ UNCHANGED <<seen, secure, bonded, active, profile_event>>
               /\ \A g \in Profiles : link'[g] = "up" => link[g] = "up"
    BY <2>2 DEF WatchDrop, Disconnect, LinkOK
  <2>. QED  BY <1>3, <2>1, <2>2 DEF Watch
<1>4. CASE Quiet
  <2>1. CASE QuietStart \/ QuietDone
    BY <2>1 DEF QuietStart, QuietDone, linkVars
  <2>2. ASSUME NEW h \in Profiles, QuietDrop(h)
        PROVE  /\ UNCHANGED <<seen, secure, bonded, active, profile_event>>
               /\ \A g \in Profiles : link'[g] = "up" => link[g] = "up"
    BY <2>2 DEF QuietDrop, Disconnect, LinkOK
  <2>. QED  BY <1>4, <2>1, <2>2 DEF Quiet
<1>. QED  BY <1>1, <1>2, <1>3, <1>4

\* Mapped and connected: what both a scan and a refresh look at.
Present(h) == link[h] = "up" /\ ProfileIndex(h) >= 0

\* A step that asks for nothing makes no host present and no link encrypted;
\* if it makes the active host visible, a profile event is on its way.
LEMMA UnaskedKeeps ==
    ASSUME Typed, Unasked
    PROVE  /\ SeenOK' /\ active' = active /\ secure' \subseteq secure /\ UNCHANGED sys
           /\ \A g \in Profiles : Present(g)' => Present(g)
           /\ ActiveConnected' => ActiveConnected \/ profile_event'
           /\ profile_event => profile_event'
<1>. DEFINE Goal == /\ SeenOK' /\ active' = active /\ secure' \subseteq secure /\ UNCHANGED sys
                    /\ \A g \in Profiles : Present(g)' => Present(g)
                    /\ ActiveConnected' => ActiveConnected \/ profile_event'
                    /\ profile_event => profile_event'
<1>1. CASE UNCHANGED <<link, seen, secure, bonded, active, profile_event, sys>>
  BY <1>1 DEF Typed, SeenOK, Present, ProfileIndex, ActiveConnected
<1>2. ASSUME NEW h \in Profiles, LinkEnds(h) PROVE Goal
  <2>1. UNCHANGED <<seen, secure, bonded, active, profile_event, sys>>
    BY <1>2 DEF LinkEnds, LinkLost, DisconnectComplete
  <2>2. link' = [link EXCEPT ![h] = "lost"]
    BY <1>2 DEF LinkEnds, LinkLost, DisconnectComplete
  <2>3. \A g \in Profiles : link'[g] = "up" => link[g] = "up"
    BY <2>2 DEF Typed, LinkOK
  <2>4. ActiveConnected' => ActiveConnected
    BY <2>1, <2>2 DEF ActiveConnected, Typed, LinkOK
  <2>. QED  BY <2>1, <2>3, <2>4 DEF Typed, SeenOK, Present, ProfileIndex
<1>3. ASSUME NEW h \in Profiles, LinkDown(h), UNCHANGED sys PROVE Goal
  <2>1. \A g \in Profiles : g # h => link'[g] = link[g] /\ seen'[g] = seen[g]
    BY <1>3 DEF LinkDown, Typed, LinkOK, SeenOK
  <2>2. link'[h] = "down" /\ UNCHANGED <<bonded, active>>
    BY <1>3 DEF LinkDown, Typed, LinkOK
  <2>3. \A g \in Profiles : Present(g)' => Present(g)
    BY <2>1, <2>2 DEF Present, ProfileIndex
  <2>4. ActiveConnected' => ActiveConnected
    BY <1>3, <2>2 DEF ActiveConnected, LinkDown, Typed, LinkOK, SeenOK
  <2>. QED  BY <1>3, <2>2, <2>3, <2>4 DEF LinkDown, Typed, SeenOK
<1>4. ASSUME NEW h \in Profiles, StaleDown(h), UNCHANGED sys PROVE Goal
  <2>1. \A g \in Profiles : /\ g # h => seen'[g] = seen[g]
                            /\ seen'[g] # "rpa" => seen[g] # "rpa"
    BY <1>4 DEF StaleDown, Typed, SeenOK
  <2>2. UNCHANGED <<link, secure, bonded, active>> /\ SeenOK'
    BY <1>4 DEF StaleDown, Typed, SeenOK
  <2>3. \A g \in Profiles : Present(g)' => Present(g)
    BY <2>1, <2>2 DEF Present, ProfileIndex
  <2>4. ActiveConnected' => ActiveConnected \/ profile_event'
    BY <1>4, <2>2 DEF ActiveConnected, StaleDown, Typed, SeenOK
  <2>. QED  BY <1>4, <2>2, <2>3, <2>4 DEF StaleDown
<1>5. ASSUME NEW h \in Profiles, Disconnected(h) PROVE Goal
  BY <1>5, <1>3, <1>4 DEF Disconnected
<1>7. ASSUME NEW h \in Profiles, SecurityFailed(h) PROVE Goal
  BY <1>7, <1>1 DEF SecurityFailed, LinkInsecure, linkVars
<1>8. CASE ArmWork \/ CableEvent \/ GoDarkOrWake \/ TimePasses
  BY <1>8, <1>1 DEF ArmWork, ActiveDownArm, CableEvent, CableChanged, GoDarkOrWake,
     AdvertisingToggled, TimePasses, Tick, linkVars
<1>. QED  BY <1>2, <1>5, <1>7, <1>8 DEF Unasked

\* The same for the handlers.
LEMMA HandlerKeeps ==
    ASSUME Typed, Exclusive \/ Watch \/ Quiet \/ Lazy
    PROVE  /\ SeenOK' /\ UNCHANGED <<active, secure, profile_event>>
           /\ \A g \in Profiles : Present(g)' => Present(g)
           /\ ActiveConnected' => ActiveConnected
  BY HandlerLinks DEF Typed, SeenOK, Present, ProfileIndex, ActiveConnected

LEMMA TypedStep == Typed /\ [Next]_vars => Typed'
<1>. SUFFICES ASSUME Typed, [Next]_vars PROVE SeenOK' /\ active' \in Profiles
  BY SysStep, DropStep, QuietInvStep DEF Typed
<1>1. ASSUME NEW h \in Profiles, Asking(h) PROVE SeenOK' /\ active' \in Profiles
  BY <1>1 DEF Typed, SeenOK, Asking, Connected, LinkUp, IdentityResolved, LinkResolved,
     SecurityChanged, LinkSecured, SelectProfile, ActiveSelected, ReportProfile
<1>2. CASE UNCHANGED vars
  BY <1>2 DEF vars, linkVars, Typed, SeenOK
<1>. QED  BY <1>1, <1>2, NextCases, UnaskedKeeps, HandlerKeeps DEF Typed

\* On battery the keyboard asks to drop mapped hosts of other profiles only, in any
\* interleaving of the policy modules with the RX thread; a host drops with the cable
\* just pulled only out of the loop of usb_host_quiet.c, which will look again.
THEOREM SelectedHostKept == Spec => KeepsSelectedHost
<1>1. Init => Typed
  BY IdleOK DEF Init, LinkInit, QuietInit, Typed, LinkOK, Links, SeenOK, SysOK, QuietInv
<1>2. Typed /\ [Next]_vars => [DropsOthers]_link
  BY DropStep DEF Typed
<1>3. Spec => [][DropsOthers]_link
  BY <1>1, <1>2, TypedStep, PTL DEF Spec
<1>. QED  BY <1>3 DEF KeepsSelectedHost, DropsOthers

-----------------------------------------------------------------------------
(* Lazy hosts.                                                             *)

LazyInv == Typed /\ LazyTypeOK /\ ParamsFollowProfile

\* After a step that asks for a refresh nothing else has to be shown.
LEMMA AskingSchedules ==
    ASSUME LazyTypeOK, NEW h \in Profiles, Asking(h)
    PROVE  LazyTypeOK' /\ (LAZY => lazy_pending')
<1>1. CASE Connected(h)
  BY <1>1 DEF Connected, lazy_host_connected, LazyTypeOK, LAZY
<1>2. CASE IdentityResolved(h) \/ SelectProfile(h) \/ ReportProfile
  BY <1>2 DEF IdentityResolved, SelectProfile, ReportProfile, ProfileChanged,
     lazy_host_identity_resolved, lazy_host_schedule, LazyTypeOK, LAZY
<1>3. CASE SecurityChanged(h)
  <2>1. h \in secure'
    BY <1>3 DEF SecurityChanged, LinkSecured
  <2>. QED  BY <1>3, <2>1 DEF SecurityChanged, lazy_host_security_changed,
               LazyTypeOK, LAZY
<1>. QED  BY <1>1, <1>2, <1>3 DEF Asking

\* What no callback has to answer for: no host becomes eligible or changes its
\* role, and no refresh passes one over.
LEMMA LazyFrame ==
    ASSUME LazyInv, UNCHANGED <<asked, refused>>, lazy_pending' \in BOOLEAN,
           lazy_pending => lazy_pending', active' = active, secure' \subseteq secure,
           \A g \in Profiles : Present(g)' => Present(g),
           UNCHANGED sys \/ sys.pc # "refresh", LAZY' = LAZY
    PROVE  LazyTypeOK' /\ ParamsFollowProfile'
<1>1. LazyTypeOK'
  BY DEF LazyInv, LazyTypeOK
<1>2. \A g \in Profiles : Eligible(g)' => Eligible(g)
  BY DEF Eligible, Present
<1>. QED  BY <1>1, <1>2 DEF LazyInv, ParamsFollowProfile, ParamsFor

LEMMA LazyStep == LazyInv /\ [Next]_vars => LazyInv'
<1>. SUFFICES ASSUME LazyInv, [Next]_vars PROVE LazyTypeOK' /\ ParamsFollowProfile'
  BY TypedStep DEF LazyInv
<1>1. ASSUME NEW h \in Profiles, Asking(h) PROVE LazyTypeOK' /\ ParamsFollowProfile'
  BY <1>1, AskingSchedules, BuildFixed DEF LazyInv, ParamsFollowProfile
<1>2. CASE Unasked
  <2>1. UNCHANGED <<asked, refused>> /\ lazy_pending' \in BOOLEAN /\ (lazy_pending => lazy_pending')
    BY <1>2 DEF Unasked, SecurityFailed, lazy_host_security_changed, LinkEnds, Disconnected,
       ArmWork, CableEvent, GoDarkOrWake, TimePasses, lazyVars, LazyInv, LazyTypeOK
  <2>. QED  BY <1>2, <2>1, UnaskedKeeps, LazyFrame, BuildFixed DEF LazyInv
<1>3. CASE Exclusive \/ Watch \/ Quiet
  <2>1. UNCHANGED lazyVars
    BY <1>3 DEF Exclusive, Watch, Quiet
  <2>2. sys.pc # "refresh" \/ UNCHANGED sys
    BY <1>3 DEF Exclusive, ScanStart, ScanDrop, ScanNote, ScanDone, Watch, WatchFinish,
       WatchStart, WatchDensified, WatchDrop, WatchDropped, Quiet, QuietStart, QuietDrop,
       QuietDone, SysIdle
  <2>. QED  BY <1>3, <2>1, <2>2, HandlerKeeps, LazyFrame, BuildFixed DEF lazyVars, LazyInv, LazyTypeOK
<1>4. CASE Lazy
  <2>1. UNCHANGED linkVars
    BY <1>4 DEF Lazy, RefreshStart, RefreshHost, RefreshDone
  <2>2. \A g \in Profiles : Eligible(g)' = Eligible(g) /\ ParamsFor(g)' = ParamsFor(g)
    BY <2>1 DEF linkVars, Eligible, ProfileIndex, ParamsFor
  <2>3. CASE RefreshStart
    BY <2>3, BuildFixed DEF RefreshStart, Idle, LazyInv, LazyTypeOK, ParamsFollowProfile
  <2>4. CASE RefreshDone
    BY <2>4, <2>2, BuildFixed DEF RefreshDone, Idle, lazyVars, LazyInv, LazyTypeOK, ParamsFollowProfile
  <2>5. ASSUME NEW h \in Profiles, RefreshHost(h) PROVE LazyTypeOK' /\ ParamsFollowProfile'
    <3>1. sys.pc = "refresh" /\ sys'.pc = "refresh" /\ sys'.todo = sys.todo \ {h}
      BY <2>5 DEF RefreshHost, LazyInv, Typed, SysOK
    <3>2. LazyTypeOK'
      BY <2>5 DEF RefreshHost, ParamsFor, LazyInv, LazyTypeOK
    <3>3. \A g \in Profiles \ {h} : asked'[g] = asked[g] /\ (g \in refused' <=> g \in refused)
      BY <2>5 DEF RefreshHost, LazyInv, LazyTypeOK
    <3>4. Eligible(h) => asked'[h] = ParamsFor(h) \/ h \in refused'
      BY <2>5 DEF RefreshHost, LazyInv, LazyTypeOK
    <3>5. UNCHANGED lazy_pending
      BY <2>5 DEF RefreshHost
    <3>6. ASSUME LAZY, NEW g \in Profiles \ refused', Eligible(g)'
          PROVE  \/ asked'[g] = ParamsFor(g)' \/ lazy_pending'
                 \/ sys'.pc = "refresh" /\ g \in sys'.todo
      <4>1. CASE g = h
        BY <4>1, <3>4, <3>6, <2>2
      <4>2. CASE g # h
        BY <4>2, <3>1, <3>3, <3>5, <3>6, <2>2 DEF LazyInv, ParamsFollowProfile
      <4>. QED  BY <4>1, <4>2
    <3>. QED  BY <3>2, <3>6, BuildFixed DEF ParamsFollowProfile
  <2>. QED  BY <1>4, <2>3, <2>4, <2>5 DEF Lazy
<1>5. CASE UNCHANGED vars
  BY <1>5, BuildFixed DEF vars, linkVars, lazyVars, LazyInv, LazyTypeOK, ParamsFollowProfile, Eligible,
     ParamsFor, ProfileIndex
<1>. QED  BY <1>1, <1>2, <1>3, <1>4, <1>5, NextCases

\* The connection parameters follow the selected profile, whatever links appear,
\* are resolved or encrypted while a refresh goes over the connections, for any
\* number of hosts and together with the other policy modules.
THEOREM ParametersFollow == Spec => []ParamsFollowProfile
<1>1. Init => LazyInv
  <2>. SUFFICES ASSUME Init PROVE LazyInv
    OBVIOUS
  <2>1. Typed
    BY IdleOK DEF Init, LinkInit, QuietInit, Typed, LinkOK, Links, SeenOK, SysOK, QuietInv
  <2>2. LazyTypeOK /\ ParamsFollowProfile
    BY DEF Init, LinkInit, LazyInit, LazyTypeOK, ParamsFollowProfile, Eligible
  <2>. QED  BY <2>1, <2>2 DEF LazyInv
<1>2. LazyInv => ParamsFollowProfile
  BY DEF LazyInv
<1>. QED  BY <1>1, <1>2, LazyStep, PTL DEF Spec

-----------------------------------------------------------------------------
(* Scans.                                                                  *)

\* A scan that is still to start, or to be asked for.
ScanComing == evict_queued \/ retry_timer \/ fallback_timer \/ profile_event

\* A background host beside the active one: what a scan is for.
Background(h) == h # active /\ ActiveConnected /\ Present(h)

\* NoMissedScan is not inductive, since it is silent while a scan runs: a host
\* the running scan has passed is excused too, and one it has still to come to
\* need not be.  The cable does not matter, because a scan on USB excuses.
ScanInv ==
    EXCLUSIVE /\ ~ScanComing =>
        \A h \in Profiles :
            Background(h) => h \in excused \/ (sys.pc \in {"scan", "note"} /\ h \in sys.todo)

\* The hosts that a scan passes, and does not drop, are excused if they are
\* background hosts.
LEMMA PassedExcused ==
    ASSUME NEW h \in Profiles, Background(h), Verdict(h) # "drop"
    PROVE  h \in Linked({h}) /\ Verdict(h) \in KeptOnPurpose
<1>1. link[h] = "up" /\ ProfileIndex(h) >= 0 /\ h # active /\ ActiveConnected
  BY DEF Background, Present
<1>2. ProfileIndex(h) = h
  BY <1>1, HostLinkAssumption DEF ProfileIndex
<1>3. ~ActiveOpen
  BY <1>1 DEF ActiveOpen, ActiveConnected
<1>. QED  BY <1>1, <1>2, <1>3, ProfileIndexType DEF Verdict, Linked, KeptOnPurpose

LEMMA AskingScans ==
    ASSUME EXCLUSIVE, NEW h \in Profiles, Asking(h) PROVE ScanComing'
<1>1. CASE Connected(h)
  BY <1>1 DEF Connected, exclusive_host_connected, SubmitScan, ScanComing
<1>2. CASE IdentityResolved(h) \/ SecurityChanged(h)
  BY <1>2 DEF IdentityResolved, SecurityChanged, exclusive_host_peer_changed, SubmitScan, ScanComing
<1>3. CASE SelectProfile(h) \/ ReportProfile
  BY <1>3 DEF SelectProfile, ReportProfile, ProfileChanged, exclusive_host_profile_changed,
     SubmitScan, ScanComing
<1>. QED  BY <1>1, <1>2, <1>3 DEF Asking

\* Outside the scan itself nothing is excused or overlooked.
LEMMA ScanFrame ==
    ASSUME ScanInv, UNCHANGED excused, ScanComing => ScanComing', active' = active,
           \A g \in Profiles : Present(g)' => Present(g),
           ActiveConnected' => ActiveConnected \/ ScanComing',
           UNCHANGED sys \/ sys.pc \notin {"scan", "note"}, EXCLUSIVE' = EXCLUSIVE
    PROVE  ScanInv'
<1>. SUFFICES ASSUME EXCLUSIVE, ~ScanComing', NEW h \in Profiles, Background(h)'
              PROVE  h \in excused' \/ (sys'.pc \in {"scan", "note"} /\ h \in sys'.todo)
  BY DEF ScanInv
<1>1. Background(h)
  BY DEF Background
<1>. QED  BY <1>1 DEF ScanInv

LEMMA ExclusiveScan ==
    ASSUME Typed, ScanInv, Exclusive, EXCLUSIVE' = EXCLUSIVE PROVE ScanInv'
<1>1. \A g \in Profiles : Background(g)' => Background(g)
  BY HandlerKeeps DEF Background
<1>2. CASE ScanStart
  BY <1>2 DEF ScanStart, Idle, ScanInv
<1>3. CASE ScanNote
  <2>1. sys.pc = "note" /\ sys'.pc = "scan" /\ sys'.todo = sys.todo
    BY <1>3 DEF ScanNote, Typed, SysOK
  <2>2. UNCHANGED <<evict_queued, retry_timer, fallback_timer, profile_event, excused>>
    BY <1>3 DEF ScanNote, workVars, linkVars
  <2>. QED  BY <2>1, <2>2, <1>1 DEF ScanInv, ScanComing
<1>4. CASE ScanDone
  <2>1. sys.pc = "scan" /\ ToDrop(sys.todo) = {} /\ Visit(sys.todo)
    BY <1>4 DEF ScanDone
  <2>2. UNCHANGED <<evict_queued, retry_timer, fallback_timer, profile_event>>
    BY <1>4 DEF ScanDone, workVars, linkVars
  <2>. SUFFICES ASSUME EXCLUSIVE, ~ScanComing', NEW h \in Profiles, Background(h)'
                PROVE  h \in excused'
    BY DEF ScanInv
  <2>3. Background(h) /\ ~ScanComing
    BY <1>1, <2>2 DEF ScanComing
  <2>4. CASE h \in sys.todo
    <3>1. Verdict(h) # "drop"
      BY <2>1, <2>3, <2>4 DEF ToDrop, Linked, Background, Present
    <3>. QED  BY <3>1, <2>1, <2>3, <2>4, PassedExcused DEF Visit, Linked
  <2>5. CASE h \notin sys.todo
    BY <2>1, <2>3, <2>5 DEF ScanInv, Visit
  <2>. QED  BY <2>4, <2>5
<1>5. ASSUME NEW d \in Profiles, ScanDrop(d) PROVE ScanInv'
  <2>1. sys.pc = "scan" /\ d \in sys.todo
    BY <1>5 DEF ScanDrop, ToDrop, Linked
  <2>2. UNCHANGED <<evict_queued, retry_timer, fallback_timer, profile_event>>
    BY <1>5 DEF ScanDrop, workVars
  <2>3. PICK passed \in SUBSET (sys.todo \ ToDrop(sys.todo)), ok \in BOOLEAN :
           /\ Disconnect(d, ok)
           /\ sys' = [pc |-> IF ok THEN "note" ELSE "scan",
                      todo |-> sys.todo \ (passed \cup {d}),
                      host |-> IF ok THEN d ELSE NoHost]
           /\ excused' = ((excused \ passed) \ {d})
                          \cup {g \in Linked(passed) : Verdict(g) \in KeptOnPurpose}
                          \cup (IF ok THEN {} ELSE {d})
    BY <1>5 DEF ScanDrop
  <2>4. sys'.pc \in {"scan", "note"} /\ sys'.todo = sys.todo \ (passed \cup {d})
    BY <2>3
  <2>. SUFFICES ASSUME EXCLUSIVE, ~ScanComing', NEW h \in Profiles, Background(h)',
                       h \notin sys'.todo
                PROVE  h \in excused'
    BY <2>4 DEF ScanInv
  <2>5. Background(h) /\ ~ScanComing
    BY <1>1, <2>2 DEF ScanComing
  <2>6. CASE h = d
    <3>1. ~ok
      BY <2>3, <2>6 DEF Disconnect, Background, Present, Typed, LinkOK
    <3>. QED  BY <3>1, <2>3, <2>6
  <2>7. CASE h # d /\ h \in passed
    <3>1. Verdict(h) # "drop"
      BY <2>3, <2>5, <2>7 DEF ToDrop, Linked, Background, Present
    <3>2. h \in Linked(passed) /\ Verdict(h) \in KeptOnPurpose
      BY <3>1, <2>5, <2>7, PassedExcused DEF Linked
    <3>. QED  BY <3>2, <2>3
  <2>8. CASE h # d /\ h \notin passed
    <3>1. h \in excused
      BY <2>1, <2>4, <2>5, <2>8 DEF ScanInv
    <3>. QED  BY <3>1, <2>3, <2>8
  <2>. QED  BY <2>6, <2>7, <2>8
<1>. QED  BY <1>2, <1>3, <1>4, <1>5 DEF Exclusive

LEMMA ScanStep == Typed /\ ScanInv /\ [Next]_vars => ScanInv'
<1>. SUFFICES ASSUME Typed, ScanInv, [Next]_vars PROVE ScanInv'
  OBVIOUS
<1>1. ASSUME NEW h \in Profiles, Asking(h) PROVE ScanInv'
  BY <1>1, AskingScans, BuildFixed DEF ScanInv
<1>2. CASE Unasked
  <2>1. UNCHANGED excused /\ (ScanComing => ScanComing')
    <3>1. ASSUME NEW h \in Profiles, SecurityFailed(h)
          PROVE  UNCHANGED excused /\ (ScanComing => ScanComing')
      BY <3>1 DEF SecurityFailed, LinkInsecure, exclusive_host_peer_changed, SubmitScan,
         exclusiveVars, workVars, linkVars, ScanComing
    <3>2. CASE UNCHANGED <<workVars, excused>>
      BY <3>2, <1>2, UnaskedKeeps DEF workVars, ScanComing
    <3>. QED  BY <1>2, <3>1, <3>2 DEF Unasked, LinkEnds, Disconnected, ArmWork,
                 CableEvent, GoDarkOrWake, TimePasses, Tick, exclusiveVars
  <2>. QED  BY <1>2, <2>1, UnaskedKeeps, ScanFrame, BuildFixed DEF ScanComing
<1>3. CASE Watch \/ Lazy \/ Quiet
  <2>1. UNCHANGED exclusiveVars
    BY <1>3 DEF Watch, Lazy, Quiet
  <2>2. sys.pc \notin {"scan", "note"} \/ UNCHANGED sys
    BY <1>3 DEF Lazy, RefreshStart, RefreshHost, RefreshDone, Watch, WatchFinish, WatchStart,
       WatchDensified, WatchDrop, WatchDropped, Quiet, QuietStart, QuietDrop, QuietDone, SysIdle
  <2>. QED  BY <1>3, <2>1, <2>2, HandlerKeeps, ScanFrame, BuildFixed DEF exclusiveVars, workVars, ScanComing
<1>4. CASE UNCHANGED vars
  BY <1>4, BuildFixed DEF vars, linkVars, exclusiveVars, workVars, ScanInv, ScanComing, Background, Present,
     ActiveConnected, ProfileIndex
<1>. QED  BY <1>1, <1>2, <1>3, <1>4, ExclusiveScan, BuildFixed, NextCases

\* No background host is overlooked, in any interleaving of scans with the RX
\* thread, the other modules, the cable and refused requests.
THEOREM NoScanMissed == Spec => []NoMissedScan
<1>1. Init => Typed /\ ScanInv
  <2>. SUFFICES ASSUME Init PROVE Typed /\ ScanInv
    OBVIOUS
  <2>1. Typed
    BY IdleOK DEF Init, LinkInit, QuietInit, Typed, LinkOK, Links, SeenOK, SysOK, QuietInv
  <2>2. ScanInv
    BY DEF Init, LinkInit, ScanInv, Background, Present
  <2>. QED  BY <2>1, <2>2
<1>2. ScanInv => NoMissedScan
  BY DEF ScanInv, ScanComing, Background, Present, NoMissedScan, ScanDue
<1>. QED  BY <1>1, <1>2, TypedStep, ScanStep, PTL DEF Spec

-----------------------------------------------------------------------------
(* Evictions.                                                              *)

Eviction == [host: Profiles, age: Nat]

RateTypes ==
    /\ thrash \in Seq(Eviction)
    /\ bg_ignore \in [Profiles -> 0 .. IGNORE]

\* The host whose eviction has been requested and is still to be noted was
\* neither ignored nor over the cap, and time passing does not change that.
EvictionAllowed ==
    sys.pc = "note" => /\ sys.host \in Profiles
                       /\ Len(thrash) < EVICT_CAP /\ bg_ignore[sys.host] = 0

\* RateLimited relates pairs of evictions and says nothing of the next one:
\* what the ignore window still holds back has already passed since the
\* evictions of that host.
IgnoredSince ==
    \A i \in 1 .. Len(thrash) : thrash[i].age + bg_ignore[thrash[i].host] >= IGNORE

RateInv == RateTypes /\ EvictionAllowed /\ IgnoredSince /\ RateLimited

\* A prefix of a sequence.
LEMMA Prefix ==
    ASSUME NEW S, NEW q \in Seq(S), NEW n \in 0 .. Len(q)
    PROVE  /\ SubSeq(q, 1, n) \in Seq(S) /\ Len(SubSeq(q, 1, n)) = n
           /\ \A i \in 1 .. n : SubSeq(q, 1, n)[i] = q[i]
<1>1. n \in Int /\ \A i \in 1 .. n : q[i] \in S
  BY LenProperties, ElementOfSeq
<1>2. n - 1 + 1 = n /\ \A i \in 1 .. n : 1 + i - 1 = i
  BY <1>1
<1>. QED  BY <1>1, <1>2, SubSeqProperties

\* The counted evictions, by index.
LEMMA EvictionAt ==
    ASSUME RateTypes
    PROVE  /\ Len(thrash) \in Nat
           /\ \A i \in 1 .. Len(thrash) :
                 thrash[i] \in Eviction /\ thrash[i].host \in Profiles /\ thrash[i].age \in Nat
<1>1. Len(thrash) \in Nat /\ \A i \in 1 .. Len(thrash) : thrash[i] \in Eviction
  BY LenProperties, ElementOfSeq DEF RateTypes
<1>2. \A e \in Eviction : e.host \in Profiles /\ e.age \in Nat
  BY DEF Eviction
<1>. QED  BY <1>1, <1>2

\* Evictions change with a switch, a note and the clock only.
LEMMA RateFrame ==
    ASSUME RateInv, UNCHANGED rateVars, UNCHANGED sys \/ sys'.pc # "note" PROVE RateInv'
  BY DEF RateInv, rateVars, RateTypes, EvictionAllowed, IgnoredSince, RateLimited

\* A switch forgets the evictions; it waits for a scan to end.
LEMMA SwitchRate ==
    ASSUME RateInv, SysIdle, ProfileChanged PROVE RateInv'
<1>. USE ExclusiveAssumption
<1>1. UNCHANGED sys /\ sys'.pc # "note"
  BY DEF ProfileChanged, SysIdle
<1>2. UNCHANGED rateVars \/ (thrash' = <<>> /\ bg_ignore' = [h \in Profiles |-> 0])
  BY DEF ProfileChanged, exclusive_host_profile_changed, exclusiveVars
<1>3. CASE thrash' = <<>> /\ bg_ignore' = [h \in Profiles |-> 0]
  BY <1>1, <1>3 DEF RateInv, RateTypes, EvictionAllowed, IgnoredSince, RateLimited
<1>. QED  BY <1>1, <1>2, <1>3, RateFrame

\* Two evictions stay as far apart when both get older.
LEMMA BothOlder ==
    ASSUME NEW a \in Nat, NEW b \in Nat, NEW k \in Nat, b - a >= k
    PROVE  (b + 1) - (a + 1) >= k
  OBVIOUS

\* A tick makes every eviction older and shortens the list and the windows.
LEMMA TickRate == ASSUME RateInv, Tick PROVE RateInv'
<1>. USE ExclusiveAssumption
<1>. DEFINE aged == [i \in 1 .. Len(thrash) |-> [thrash[i] EXCEPT !.age = @ + 1]]
<1>0. RateTypes /\ UNCHANGED sys
  BY DEF RateInv, Tick
<1>1. PICK n \in 0 .. Len(thrash) : thrash' = SubSeq(aged, 1, n)
  BY DEF Tick
<1>2. aged \in Seq(Eviction) /\ Len(aged) = Len(thrash)
  <2>1. \A e \in Eviction : [e EXCEPT !.age = @ + 1] \in Eviction
    BY DEF Eviction
  <2>2. aged \in [1 .. Len(thrash) -> Eviction]
    BY <2>1, <1>0, EvictionAt
  <2>3. Len(thrash) \in Nat
    BY <1>0, EvictionAt
  <2>. QED  BY <2>2, <2>3
<1>3. thrash' \in Seq(Eviction) /\ Len(thrash') = n /\ \A i \in 1 .. n : thrash'[i] = aged[i]
  <2>. HIDE DEF aged
  <2>1. n \in 0 .. Len(aged)
    BY <1>2
  <2>. QED  BY <1>1, <1>2, <2>1, Prefix
<1>4. n \in Nat /\ \A i \in 1 .. n : i \in 1 .. Len(thrash)
  BY <1>0, EvictionAt
<1>5. \A i \in 1 .. n : /\ thrash'[i].host = thrash[i].host /\ thrash'[i].host \in Profiles
                        /\ thrash'[i].age = thrash[i].age + 1 /\ thrash[i].age \in Nat
  <2>. SUFFICES ASSUME NEW i \in 1 .. n
                PROVE  /\ thrash'[i].host = thrash[i].host /\ thrash'[i].host \in Profiles
                       /\ thrash'[i].age = thrash[i].age + 1 /\ thrash[i].age \in Nat
    OBVIOUS
  <2>1. i \in 1 .. Len(thrash)
    BY <1>4
  <2>2. thrash'[i] = [thrash[i] EXCEPT !.age = @ + 1]
    BY <2>1, <1>3
  <2>3. thrash[i] \in Eviction /\ thrash[i].host \in Profiles /\ thrash[i].age \in Nat
    BY <2>1, <1>0, EvictionAt
  <2>. QED  BY <2>2, <2>3 DEF Eviction
<1>. HIDE DEF aged
<1>6. /\ bg_ignore' \in [Profiles -> 0 .. IGNORE]
      /\ \A h \in Profiles : /\ bg_ignore'[h] + 1 >= bg_ignore[h]
                             /\ bg_ignore[h] = 0 => bg_ignore'[h] = 0
  BY <1>0 DEF Tick, RateTypes
<1>7. IgnoredSince'
  <2>. SUFFICES ASSUME NEW i \in 1 .. n
                PROVE  thrash'[i].age + bg_ignore'[thrash'[i].host] >= IGNORE
    BY <1>3 DEF IgnoredSince
  <2>1. thrash[i].age + bg_ignore[thrash[i].host] >= IGNORE /\ thrash[i].host \in Profiles
    BY <1>4, <1>5 DEF RateInv, IgnoredSince
  <2>2. bg_ignore[thrash[i].host] \in Int /\ bg_ignore'[thrash[i].host] \in Int
    BY <2>1, <1>0, <1>6 DEF RateTypes
  <2>3. bg_ignore'[thrash[i].host] + 1 >= bg_ignore[thrash[i].host]
    BY <2>1, <1>6
  <2>4. thrash'[i].age = thrash[i].age + 1 /\ thrash[i].age \in Nat /\ thrash'[i].host = thrash[i].host
    BY <1>5
  <2>. QED  BY <2>1, <2>2, <2>3, <2>4
<1>8. RateLimited'
  <2>1. Len(thrash') <= EVICT_CAP
    BY <1>0, <1>3 DEF RateInv, RateLimited, RateTypes
  <2>2. ASSUME NEW i \in 1 .. n, NEW j \in 1 .. n, i < j, thrash'[i].host = thrash'[j].host
        PROVE  thrash'[j].age - thrash'[i].age >= IGNORE
    <3>1. thrash[j].age - thrash[i].age >= IGNORE
      BY <2>2, <1>4, <1>5 DEF RateInv, RateLimited
    <3>2. thrash'[i].age = thrash[i].age + 1 /\ thrash[i].age \in Nat
      BY <1>5
    <3>3. thrash'[j].age = thrash[j].age + 1 /\ thrash[j].age \in Nat
      BY <1>5
    <3>4. IGNORE \in Nat
      BY DEF ExclusiveAssumption
    <3>5. (thrash[j].age + 1) - (thrash[i].age + 1) >= IGNORE
      BY <3>1, <3>2, <3>3, <3>4, BothOlder
    <3>. QED  BY <3>2, <3>3, <3>5
  <2>. QED  BY <2>1, <2>2, <1>3 DEF RateLimited
<1>9. EvictionAllowed'
  BY <1>0, <1>3, <1>6 DEF RateInv, EvictionAllowed, RateTypes
<1>. QED  BY <1>3, <1>6, <1>7, <1>8, <1>9 DEF RateInv, RateTypes

\* What drop_if_non_active_host decides before it drops a host.
LEMMA DropAllowed ==
    ASSUME RateTypes, NEW h \in Profiles, Verdict(h) = "drop"
    PROVE  Len(thrash) < EVICT_CAP /\ bg_ignore[h] = 0
  BY ExclusiveAssumption DEF RateTypes, Verdict, ThrashCapped

\* Noting an eviction puts it in front of the others and starts its window.
LEMMA NoteRate == ASSUME RateInv, ScanNote PROVE RateInv'
<1>. USE ExclusiveAssumption
<1>. DEFINE new == [host |-> sys.host, age |-> 0]
<1>0. RateTypes /\ sys.host \in Profiles /\ Len(thrash) < EVICT_CAP /\ bg_ignore[sys.host] = 0
  BY DEF RateInv, EvictionAllowed, ScanNote
<1>1. Len(thrash) \in Nat /\ Len(thrash) < THRASH_RING
  BY <1>0 DEF RateTypes
<1>2. thrash' = SubSeq(<<new>> \o thrash, 1, Len(thrash) + 1)
  BY <1>1 DEF ScanNote
<1>3. /\ <<new>> \o thrash \in Seq(Eviction) /\ Len(<<new>> \o thrash) = Len(thrash) + 1
      /\ (<<new>> \o thrash)[1] = new
      /\ \A i \in 1 .. Len(thrash) : (<<new>> \o thrash)[i + 1] = thrash[i]
  <2>1. new \in Eviction
    BY <1>0 DEF Eviction
  <2>. HIDE DEF new
  <2>. QED  BY <2>1, <1>0 DEF RateTypes
<1>. HIDE DEF new
<1>4. thrash' \in Seq(Eviction) /\ Len(thrash') = Len(thrash) + 1
  BY <1>1, <1>2, <1>3, Prefix
<1>5. thrash'[1] = new /\ \A i \in 1 .. Len(thrash) : thrash'[i + 1] = thrash[i]
  <2>1. \A i \in 1 .. Len(thrash) + 1 : thrash'[i] = (<<new>> \o thrash)[i]
    BY <1>1, <1>2, <1>3, Prefix
  <2>. QED  BY <2>1, <1>1, <1>3
<1>6. \A i \in 2 .. Len(thrash) + 1 : i - 1 \in 1 .. Len(thrash) /\ thrash'[i] = thrash[i - 1]
  <2>. SUFFICES ASSUME NEW i \in 2 .. Len(thrash) + 1
                PROVE  i - 1 \in 1 .. Len(thrash) /\ thrash'[i] = thrash[i - 1]
    OBVIOUS
  <2>1. i - 1 \in 1 .. Len(thrash) /\ (i - 1) + 1 = i
    BY <1>1
  <2>. QED  BY <2>1, <1>5
<1>7. /\ bg_ignore' \in [Profiles -> 0 .. IGNORE] /\ bg_ignore'[sys.host] = IGNORE
      /\ \A h \in Profiles \ {sys.host} : bg_ignore'[h] = bg_ignore[h]
  BY <1>0 DEF ScanNote, bg_note_evict, RateTypes
<1>8. \A i \in 1 .. Len(thrash) : thrash[i].host \in Profiles /\ thrash[i].age \in Nat
  BY <1>0, EvictionAt
<1>9. IgnoredSince'
  <2>. SUFFICES ASSUME NEW i \in 1 .. Len(thrash) + 1
                PROVE  thrash'[i].age + bg_ignore'[thrash'[i].host] >= IGNORE
    BY <1>4 DEF IgnoredSince
  <2>1. CASE i = 1
    BY <2>1, <1>5, <1>7 DEF new
  <2>2. CASE i # 1
    <3>. DEFINE e == thrash[i - 1]
    <3>1. i - 1 \in 1 .. Len(thrash) /\ thrash'[i] = e
      BY <2>2, <1>1, <1>6
    <3>2. e.host \in Profiles /\ e.age \in Nat /\ e.age + bg_ignore[e.host] >= IGNORE
      BY <3>1, <1>8 DEF RateInv, IgnoredSince
    <3>3. bg_ignore'[e.host] = bg_ignore[e.host] \/ bg_ignore'[e.host] = IGNORE
      BY <3>2, <1>7
    <3>. QED  BY <3>1, <3>2, <3>3
  <2>. QED  BY <2>1, <2>2
<1>10. RateLimited'
  <2>1. ASSUME NEW i \in 1 .. Len(thrash) + 1, NEW j \in 1 .. Len(thrash) + 1, i < j,
               thrash'[i].host = thrash'[j].host
        PROVE  thrash'[j].age - thrash'[i].age >= IGNORE
    <3>1. j - 1 \in 1 .. Len(thrash) /\ thrash'[j] = thrash[j - 1]
      BY <2>1, <1>1, <1>6
    <3>2. CASE i = 1
      <4>1. thrash[j - 1].age + bg_ignore[thrash[j - 1].host] >= IGNORE
        BY <3>1 DEF RateInv, IgnoredSince
      <4>2. thrash[j - 1].host = sys.host /\ thrash'[i].age = 0
        BY <2>1, <3>1, <3>2, <1>5 DEF new
      <4>. QED  BY <4>1, <4>2, <3>1, <1>0, <1>8
    <3>3. CASE i # 1
      <4>1. i - 1 \in 1 .. Len(thrash) /\ thrash'[i] = thrash[i - 1]
        BY <3>3, <1>1, <1>6
      <4>2. i - 1 < j - 1
        BY <2>1, <1>1
      <4>. QED  BY <4>1, <4>2, <3>1, <2>1 DEF RateInv, RateLimited
    <3>. QED  BY <3>2, <3>3
  <2>. QED  BY <2>1, <1>0, <1>1, <1>4 DEF RateLimited
<1>11. EvictionAllowed'
  BY <1>0 DEF ScanNote, EvictionAllowed
<1>. QED  BY <1>4, <1>7, <1>9, <1>10, <1>11 DEF RateInv, RateTypes

LEMMA RateStep == RateInv /\ Typed /\ [Next]_vars => RateInv'
<1>. SUFFICES ASSUME RateInv, Typed, [Next]_vars PROVE RateInv'
  OBVIOUS
<1>1. ASSUME NEW h \in Profiles, Asking(h) PROVE RateInv'
  <2>1. CASE Connected(h) \/ IdentityResolved(h) \/ SecurityChanged(h)
    <3>1. UNCHANGED <<rateVars, sys>>
      BY <2>1 DEF Connected, IdentityResolved, SecurityChanged, exclusive_host_connected,
         exclusive_host_peer_changed, exclusiveVars
    <3>. QED  BY <3>1, RateFrame
  <2>. QED  BY <1>1, <2>1, SwitchRate DEF Asking, SelectProfile, ReportProfile
<1>2. CASE Unasked
  <2>1. CASE TimePasses
    BY <2>1, TickRate DEF TimePasses
  <2>2. CASE ~TimePasses
    <3>1. UNCHANGED <<rateVars, sys>>
      BY <1>2, <2>2 DEF Unasked, SecurityFailed, exclusive_host_peer_changed, LinkEnds, Disconnected,
         ArmWork, ActiveDownArm, CableEvent, GoDarkOrWake, exclusiveVars
    <3>. QED  BY <3>1, RateFrame
  <2>. QED  BY <2>1, <2>2
<1>3. CASE Exclusive
  <2>1. CASE ScanStart \/ ScanDone
    <3>1. UNCHANGED rateVars /\ sys'.pc # "note"
      <4>1. UNCHANGED rateVars
        BY <2>1 DEF ScanStart, ScanDone
      <4>2. sys' \in [pc: {"idle", "scan"}, todo: SUBSET Profiles, host: {NoHost}]
        BY <2>1, IdleOK DEF ScanStart, ScanDone
      <4>. QED  BY <4>1, <4>2
    <3>. QED  BY <3>1, RateFrame
  <2>2. CASE ScanNote
    BY <2>2, NoteRate
  <2>3. ASSUME NEW h \in Profiles, ScanDrop(h) PROVE RateInv'
    <3>1. UNCHANGED rateVars /\ Verdict(h) = "drop"
      BY <2>3 DEF ScanDrop, ToDrop
    <3>2. Len(thrash) < EVICT_CAP /\ bg_ignore[h] = 0
      BY <3>1, DropAllowed DEF RateInv
    <3>3. sys'.pc = "note" => sys'.host = h
      BY <2>3 DEF ScanDrop
    <3>. QED  BY <3>1, <3>2, <3>3 DEF RateInv, rateVars, RateTypes, EvictionAllowed, IgnoredSince,
                 RateLimited
  <2>. QED  BY <1>3, <2>1, <2>2, <2>3 DEF Exclusive
<1>4. CASE Watch \/ Lazy \/ Quiet
  <2>1. UNCHANGED rateVars
    BY <1>4 DEF Watch, Lazy, Quiet, exclusiveVars
  <2>2. UNCHANGED sys \/ sys'.pc # "note"
    <3>1. CASE Watch
      <4>1. ASSUME NEW h \in Profiles, WatchDrop(h) PROVE sys'.pc # "note"
        BY <4>1 DEF WatchDrop, Typed, SysOK
      <4>2. CASE WatchFinish \/ WatchStart \/ WatchDensified \/ WatchDropped
        <5>1. \/ UNCHANGED sys
              \/ sys' \in [pc: {"idle", "densify", "drop"}, todo: SUBSET Profiles, host: {NoHost}]
          BY <4>2, IdleOK DEF WatchFinish, WatchStart, WatchDensified, WatchDropped
        <5>. QED  BY <5>1
      <4>. QED  BY <3>1, <4>1, <4>2 DEF Watch
    <3>2. CASE Lazy
      <4>1. ASSUME NEW h \in Profiles, RefreshHost(h) PROVE sys'.pc # "note"
        BY <4>1 DEF RefreshHost, Typed, SysOK
      <4>2. CASE RefreshStart \/ RefreshDone
        <5>1. sys' \in [pc: {"idle", "refresh"}, todo: SUBSET Profiles, host: {NoHost}]
          BY <4>2, IdleOK DEF RefreshStart, RefreshDone
        <5>. QED  BY <5>1
      <4>. QED  BY <3>2, <4>1, <4>2 DEF Lazy
    <3>3. CASE Quiet
      <4>1. ASSUME NEW h \in Profiles, QuietDrop(h) PROVE sys'.pc # "note"
        BY <4>1 DEF QuietDrop, Typed, SysOK
      <4>2. CASE QuietStart \/ QuietDone
        <5>1. UNCHANGED sys \/ sys' \in [pc: {"idle", "quiet"}, todo: SUBSET Profiles, host: {NoHost}]
          BY <4>2, IdleOK DEF QuietStart, QuietDone
        <5>. QED  BY <5>1
      <4>. QED  BY <3>3, <4>1, <4>2 DEF Quiet
    <3>. QED  BY <1>4, <3>1, <3>2, <3>3
  <2>. QED  BY <2>1, <2>2, RateFrame
<1>5. CASE UNCHANGED vars
  BY <1>5, RateFrame DEF vars, exclusiveVars
<1>. QED  BY <1>1, <1>2, <1>3, <1>4, <1>5, NextCases

\* Evictions are rate-limited for every window, cap and number of hosts, in any
\* interleaving of the scans with the RX thread, the clock and profile switches.
THEOREM EvictionsRateLimited == Spec => []RateLimited
<1>1. Init => Typed /\ RateInv
  <2>. SUFFICES ASSUME Init PROVE Typed /\ RateInv
    OBVIOUS
  <2>1. Typed
    BY IdleOK DEF Init, LinkInit, QuietInit, Typed, LinkOK, Links, SeenOK, SysOK, QuietInv
  <2>2. RateInv
    BY ExclusiveAssumption, IdleOK DEF Init, LinkInit, ExclusiveInit, RateInv, RateTypes,
       EvictionAllowed, IgnoredSince, RateLimited
  <2>. QED  BY <2>1, <2>2
<1>2. RateInv => RateLimited
  BY DEF RateInv
<1>. QED  BY <1>1, <1>2, TypedStep, RateStep, PTL DEF Spec

=============================================================================
