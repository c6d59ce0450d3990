------------------------------ MODULE HostLink ------------------------------
(***************************************************************************)
(* What the host policy of the left half sees of ZMK's BLE core, Zephyr's  *)
(* connection table, the USB stack and the system work queue.  All of it   *)
(* is outside this repository; it is modelled from how exclusive_host.c,   *)
(* reconnect_watch.c, usb_host_quiet.c and lazy_inactive_host.c use it.    *)
(*                                                                         *)
(* Host h is the computer that holds, or will hold, the bond of profile h. *)
(* Its connection object is                                                *)
(*   "down"           absent,                                              *)
(*   "up"             BT_CONN_STATE_CONNECTED,                             *)
(*   "disconnecting"  a disconnect was requested here,                     *)
(*   "lost"           the link is gone, the disconnected callback is not   *)
(*                    yet delivered.                                       *)
(* Callbacks for new links, encryption and identity resolution run on the  *)
(* Bluetooth RX thread; work handlers, the disconnected callback and       *)
(* profile events run one at a time on the system work queue (sys).  Both  *)
(* are cooperative, so RX runs inside a handler only where the handler     *)
(* waits for a Bluetooth command; the model lets it run at the start and   *)
(* at the end of a scan as well.                                           *)
(***************************************************************************)
EXTENDS Integers, Sequences, FiniteSets

CONSTANTS
    Profiles,      \* 0 .. ZMK_BLE_PROFILE_COUNT - 1
    InitBonded,    \* profiles with a bond at boot
    Builds,        \* the ways to treat inactive hosts that are considered
    MaxSwitches,   \* bound: profile switches
    MaxPlugs,      \* bound: changes of the USB cable
    MaxDark,       \* bound: times advertising is paused or resumed
    MaxFails       \* bound: requests that report an error

ASSUME HostLinkAssumption ==
    /\ Profiles \subseteq Nat /\ Profiles # {} /\ IsFiniteSet(Profiles)
    /\ InitBonded \subseteq Profiles
    /\ Builds \subseteq {"exclusive", "lazy", "stock"}

VARIABLES
    build,          \* how the firmware was built; never changes
    link,           \* connection object of each host
    seen,           \* "rpa": address not resolved, "id": resolved, "stale": resolved
                    \* but the identity lookup still finds an older object
    secure,         \* hosts whose link has reached security level 2
    bonded,         \* profiles that hold a bond
    active,         \* zmk_ble_active_profile_index()
    powered,        \* zmk_usb_is_powered()
    dark,           \* advertising paused by the core (timeout, go-dark)
    profile_event,  \* ble_active_profile_changed is queued to be raised
    sys,            \* the handler the system work queue is in
    used            \* budgets spent

linkVars == <<link, seen, secure, bonded, active, powered, dark, profile_event>>

\* CONFIG_TOTEM_EXCLUSIVE_HOST and CONFIG_TOTEM_LAZY_INACTIVE_HOST, which
\* depends on the former being off.
EXCLUSIVE == build = "exclusive"
LAZY      == build = "lazy"

NoHost == -1
Links  == {"down", "up", "disconnecting", "lost"}
Idle   == [pc |-> "idle", todo |-> {}, host |-> NoHost]
SysIdle == sys.pc = "idle"
Budgets == {"switches", "plugs", "dark", "fails"}

LinkTypeOK ==
    /\ build \in Builds
    /\ link \in [Profiles -> Links]
    /\ seen \in [Profiles -> {"rpa", "id", "stale"}]
    /\ secure \subseteq Profiles /\ bonded \subseteq Profiles
    /\ active \in Profiles
    /\ powered \in BOOLEAN /\ dark \in BOOLEAN /\ profile_event \in BOOLEAN
    /\ sys \in [pc: {"idle", "scan", "note", "densify", "drop", "refresh", "quiet"},
                todo: SUBSET Profiles, host: Profiles \cup {NoHost}]
    /\ used \in [Budgets -> Nat]

LinkInit ==
    /\ build \in Builds
    /\ link = [h \in Profiles |-> "down"]
    /\ seen = [h \in Profiles |-> "rpa"]
    /\ secure = {} /\ bonded = InitBonded
    /\ active \in Profiles
    /\ powered \in BOOLEAN /\ dark = FALSE /\ profile_event = FALSE
    /\ sys = Idle
    /\ used = [b \in Budgets |-> 0]

Spend(budget, limit) == used[budget] < limit /\ used' = [used EXCEPT ![budget] = @ + 1]

\* zmk_ble_profile_index(bt_conn_get_dst(conn)); -1 for an unresolved or unbonded peer.
ProfileIndex(h) == IF h \in bonded /\ seen[h] # "rpa" THEN h ELSE -1

\* zmk_ble_active_profile_is_open(), zmk_ble_active_profile_is_connected() and
\* zmk_ble_host_adv_suppressed().  The second looks the link up by identity
\* address, so it misses an unresolved link and one shadowed by a stale object.
ActiveOpen      == active \notin bonded
ActiveConnected == active \in bonded /\ link[active] = "up" /\ seen[active] = "id"
Suppressed      == powered \/ dark

\* A connected object whose address maps to the active profile.
ActiveVerified == link[active] = "up" /\ ProfileIndex(active) = active

\* The hosts of todo with a connection object: what bt_conn_foreach still visits.
Linked(todo) == {h \in todo : link[h] # "down"}

\* bt_conn_disconnect: 0 for a link that is up (unless the command fails) or
\* already disconnecting, an error for one that is gone.
Disconnect(h, ok) ==
    /\ ok => link[h] \in {"up", "disconnecting"}
    /\ ~ok => link[h] \in {"up", "lost"}
    /\ link' = IF ok THEN [link EXCEPT ![h] = "disconnecting"] ELSE link
    /\ IF ~ok /\ link[h] = "up" THEN Spend("fails", MaxFails) ELSE UNCHANGED used

-----------------------------------------------------------------------------
(* Changes the environment makes; HostPolicy joins them with the callbacks. *)

\* A computer connects while the keyboard advertises.
LinkUp(h) ==
    /\ link[h] = "down" /\ ~Suppressed
    /\ link' = [link EXCEPT ![h] = "up"]
    /\ \E s \in IF h \in bonded THEN {"rpa", "id", "stale"} ELSE {"rpa"} :
          /\ seen' = [seen EXCEPT ![h] = s]
          /\ profile_event' = (profile_event \/ (s # "rpa" /\ h = active))
    /\ UNCHANGED <<secure, bonded, active, powered, dark, used>>

\* The identity behind a resolvable private address becomes known.
LinkResolved(h) ==
    /\ link[h] = "up" /\ seen[h] = "rpa" /\ h \in bonded
    /\ \E s \in {"id", "stale"} : seen' = [seen EXCEPT ![h] = s]
    /\ UNCHANGED <<link, secure, bonded, active, powered, dark, profile_event, used>>

\* Encryption succeeds; on an open active profile this is the pairing.
LinkSecured(h) ==
    /\ link[h] = "up" /\ h \notin secure
    /\ h \in bonded \/ h = active
    /\ secure' = secure \cup {h}
    /\ bonded' = bonded \cup {h}
    /\ seen' = [seen EXCEPT ![h] = IF @ = "rpa" THEN "id" ELSE @]
    /\ profile_event' = (profile_event \/ h \notin bonded)
    /\ UNCHANGED <<link, active, powered, dark, used>>

\* Encryption fails.
LinkInsecure(h) ==
    /\ link[h] = "up"
    /\ UNCHANGED <<linkVars, used>>

\* The peer leaves or the link times out; a requested disconnect completes.
LinkLost(h) ==
    /\ link[h] = "up"
    /\ link' = [link EXCEPT ![h] = "lost"]
    /\ UNCHANGED <<seen, secure, bonded, active, powered, dark, profile_event, used>>

DisconnectComplete(h) ==
    /\ link[h] = "disconnecting"
    /\ link' = [link EXCEPT ![h] = "lost"]
    /\ UNCHANGED <<seen, secure, bonded, active, powered, dark, profile_event, used>>

\* The connection object is released; the core reports the active profile's loss.
LinkDown(h) ==
    /\ link[h] = "lost"
    /\ link' = [link EXCEPT ![h] = "down"]
    /\ seen' = [seen EXCEPT ![h] = "rpa"]
    /\ secure' = secure \ {h}
    /\ profile_event' = (profile_event \/ ProfileIndex(h) = active)
    /\ UNCHANGED <<bonded, active, powered, dark, used>>

\* The stale object of host h is released.
StaleDown(h) ==
    /\ link[h] = "up" /\ seen[h] = "stale"
    /\ seen' = [seen EXCEPT ![h] = "id"]
    /\ profile_event' = (profile_event \/ h = active)
    /\ UNCHANGED <<link, secure, bonded, active, powered, dark, used>>

\* BT_SEL: the core's profile handoff may drop other hosts on its own.
ActiveSelected(p) ==
    /\ p # active
    /\ Spend("switches", MaxSwitches)
    /\ active' = p
    /\ \E gone \in SUBSET {h \in Profiles \ {p} : link[h] = "up"} :
          link' = [h \in Profiles |-> IF h \in gone THEN "disconnecting" ELSE link[h]]
    /\ UNCHANGED <<seen, secure, bonded, powered, dark, profile_event>>

CableChanged ==
    /\ Spend("plugs", MaxPlugs)
    /\ powered' = ~powered
    /\ UNCHANGED <<link, seen, secure, bonded, active, dark, profile_event>>

AdvertisingToggled ==
    /\ Spend("dark", MaxDark)
    /\ dark' = ~dark
    /\ UNCHANGED <<link, seen, secure, bonded, active, powered, profile_event>>

=============================================================================
