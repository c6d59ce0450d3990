---------------------------- MODULE ExclusiveHost ----------------------------
(***************************************************************************)
(* exclusive_host.c: evicts hosts of other profiles while the active host  *)
(* is connected, with an ignore window per profile and a cap on evictions  *)
(* in a sliding window.  Time is counted in ticks: bg_ignore holds the     *)
(* ticks left until bg_ignore_until, thrash the ages of the evictions that *)
(* thrash_win_count still counts, newest first.                            *)
(***************************************************************************)
EXTENDS HostLink

CONSTANTS
    IGNORE,         \* CONFIG_TOTEM_BG_EVICT_IGNORE_MS, in ticks
    WINDOW,         \* CONFIG_TOTEM_THRASH_WINDOW_SEC, in ticks
    EVICT_CAP,      \* CONFIG_TOTEM_BG_EVICT_CAP
    THRASH_RING     \* THRASH_RING_SIZE

ASSUME ExclusiveAssumption ==
    /\ IGNORE \in Nat /\ WINDOW \in Nat
    /\ EVICT_CAP \in Nat \ {0}
    /\ THRASH_RING \in Nat /\ THRASH_RING >= EVICT_CAP

VARIABLES
    evict_queued, retry_timer, fallback_timer,   \* the three work items
    bg_ignore, thrash, last_active_profile,
    excused         \* history: hosts the latest visit of a scan kept on purpose

workVars      == <<evict_queued, retry_timer, fallback_timer>>
rateVars      == <<bg_ignore, thrash>>
exclusiveVars == <<workVars, rateVars, last_active_profile, excused>>

ExclusiveTypeOK ==
    /\ evict_queued \in BOOLEAN /\ retry_timer \in BOOLEAN /\ fallback_timer \in BOOLEAN
    /\ bg_ignore \in [Profiles -> 0 .. IGNORE]
    /\ \A i \in 1 .. Len(thrash) : thrash[i] \in [host: Profiles, age: 0 .. WINDOW]
    /\ last_active_profile \in Profiles \cup {-1}
    /\ excused \subseteq Profiles

ExclusiveInit ==
    /\ evict_queued = FALSE /\ retry_timer = FALSE /\ fallback_timer = FALSE
    /\ bg_ignore = [h \in Profiles |-> 0]
    /\ thrash = <<>> /\ last_active_profile = -1
    /\ excused = {}

-----------------------------------------------------------------------------
(* Callbacks.  Each ends by asking for a scan now and one a little later.  *)

SubmitScan == evict_queued' = TRUE /\ retry_timer' = TRUE

exclusive_host_connected(h) ==
    IF EXCLUSIVE
    THEN /\ SubmitScan /\ fallback_timer' = TRUE
         /\ excused' = excused \ {h}
         /\ UNCHANGED <<rateVars, last_active_profile>>
    ELSE UNCHANGED exclusiveVars

\* exclusive_host_security_changed and exclusive_host_identity_resolved.
exclusive_host_peer_changed ==
    IF EXCLUSIVE
    THEN SubmitScan /\ UNCHANGED <<fallback_timer, rateVars, last_active_profile, excused>>
    ELSE UNCHANGED exclusiveVars

\* Mutant: link changes reported by the same event do not ask for a scan.
profile_changed_on_switch_only ==
    IF EXCLUSIVE /\ last_active_profile # active'
    THEN /\ last_active_profile' = active'
         /\ SubmitScan
         /\ UNCHANGED <<rateVars, fallback_timer, excused>>
    ELSE UNCHANGED exclusiveVars

\* Only a change of the index is a switch and forgets the eviction history.
exclusive_host_profile_changed ==
    IF EXCLUSIVE
    THEN /\ last_active_profile' = active'
         /\ IF last_active_profile >= 0 /\ last_active_profile # active'
            THEN thrash' = <<>> /\ bg_ignore' = [h \in Profiles |-> 0]
            ELSE UNCHANGED rateVars
         /\ SubmitScan
         /\ UNCHANGED <<fallback_timer, excused>>
    ELSE UNCHANGED exclusiveVars

-----------------------------------------------------------------------------
(* The scan: bt_conn_foreach with drop_if_non_active_host.                 *)

\* Mutant: the cap is taken as the largest count that still allows an eviction.
CapInclusive == Len(thrash) > EVICT_CAP
ThrashCapped == Len(thrash) >= EVICT_CAP

\* What drop_if_non_active_host decides about a connection.
Verdict(h) ==
    IF powered THEN "usb"
    ELSE IF ProfileIndex(h) < 0 THEN "unmapped"
    ELSE IF ProfileIndex(h) = active THEN "active"
    ELSE IF ActiveOpen \/ ~ActiveConnected THEN "active_down"
    ELSE IF bg_ignore[h] > 0 THEN "ignored"
    ELSE IF ThrashCapped THEN "capped"
    ELSE "drop"

KeptOnPurpose == {"usb", "ignored", "capped"}

\* Mutant: the state of the active host is not read again for each connection.
MappedOthers(todo) ==
    {h \in Linked(todo) : ProfileIndex(h) >= 0 /\ ProfileIndex(h) # active}
\* The hosts of todo that a scan would drop now.
ToDrop(todo) == {h \in Linked(todo) : Verdict(h) = "drop"}

\* The visited hosts' entries of the history variable.
Visit(hosts) ==
    excused' = (excused \ hosts) \cup {h \in Linked(hosts) : Verdict(h) \in KeptOnPurpose}

\* One of the three work items starts a scan.
ScanStart ==
    /\ SysIdle
    /\ \/ evict_queued /\ evict_queued' = FALSE /\ UNCHANGED <<retry_timer, fallback_timer>>
       \/ retry_timer /\ retry_timer' = FALSE /\ UNCHANGED <<evict_queued, fallback_timer>>
       \/ fallback_timer /\ fallback_timer' = FALSE /\ UNCHANGED <<evict_queued, retry_timer>>
    /\ sys' = [Idle EXCEPT !.pc = "scan", !.todo = Profiles]
    /\ UNCHANGED <<linkVars, used, rateVars, last_active_profile, excused>>

\* The scan passes some connections and asks the core to drop h.  A failed
\* request is logged and the scan goes on.
ScanDrop(h) ==
    /\ sys.pc = "scan" /\ h \in ToDrop(sys.todo)
    /\ \E passed \in SUBSET (sys.todo \ ToDrop(sys.todo)) : \E ok \in BOOLEAN :
          /\ Disconnect(h, ok)
          /\ sys' = [pc |-> IF ok THEN "note" ELSE "scan",
                     todo |-> sys.todo \ (passed \cup {h}),
                     host |-> IF ok THEN h ELSE NoHost]
          /\ excused' = ((excused \ passed) \ {h})
                         \cup {g \in Linked(passed) : Verdict(g) \in KeptOnPurpose}
                         \cup (IF ok THEN {} ELSE {h})
    /\ UNCHANGED <<seen, secure, bonded, active, powered, dark, profile_event, workVars,
                   rateVars, last_active_profile>>

bg_note_evict(h) == bg_ignore' = [bg_ignore EXCEPT ![h] = IGNORE]

\* After the request: bg_note_evict and thrash_note_bg_evict.
ScanNote ==
    /\ sys.pc = "note"
    /\ bg_note_evict(sys.host)
    /\ thrash' = SubSeq(<<[host |-> sys.host, age |-> 0]>> \o thrash, 1,
                        IF Len(thrash) < THRASH_RING THEN Len(thrash) + 1 ELSE THRASH_RING)
    /\ sys' = [sys EXCEPT !.pc = "scan", !.host = NoHost]
    /\ UNCHANGED <<linkVars, used, workVars, last_active_profile, excused>>

ScanDone ==
    /\ sys.pc = "scan" /\ ToDrop(sys.todo) = {}
    /\ sys' = Idle
    /\ Visit(sys.todo)
    /\ UNCHANGED <<linkVars, used, workVars, rateVars, last_active_profile>>

InWindow(entry) == entry.age <= WINDOW

\* The entries that thrash_win_count counts: it walks from the newest one and
\* stops at the first out of the window.
Walked(entries, n) ==
    /\ \A i \in 1 .. n : InWindow(entries[i])
    /\ n < Len(entries) => ~InWindow(entries[n + 1])

\* A tick of uptime.
Tick ==
    /\ bg_ignore' = [h \in Profiles |-> IF bg_ignore[h] > 0 THEN bg_ignore[h] - 1 ELSE 0]
    /\ LET aged == [i \in 1 .. Len(thrash) |-> [thrash[i] EXCEPT !.age = @ + 1]]
       IN  \E n \in 0 .. Len(thrash) : Walked(aged, n) /\ thrash' = SubSeq(aged, 1, n)
    /\ UNCHANGED <<linkVars, sys, used, workVars, last_active_profile, excused>>

-----------------------------------------------------------------------------
\* Evictions are rate-limited between two switches: never more than EVICT_CAP
\* in a window, and the same host at least IGNORE ticks apart (bg_should_ignore,
\* the thrash cap, and what a switch clears).
RateLimited ==
    /\ Len(thrash) <= EVICT_CAP
    /\ \A i, j \in 1 .. Len(thrash) :
          i < j /\ thrash[i].host = thrash[j].host => thrash[j].age - thrash[i].age >= IGNORE

\* No eviction is missed: when the active host and a mapped host of another
\* profile are both connected and no scan is running, due or about to be asked
\* for, the latest scan looked at that host and kept it on purpose: inside the
\* ignore window, over the cap, on USB, or because the request failed.
ScanDue == evict_queued \/ retry_timer \/ fallback_timer \/ profile_event
           \/ sys.pc \in {"scan", "note"}
NoMissedScan ==
    EXCLUSIVE /\ ~ScanDue /\ ~powered /\ ActiveConnected =>
        \A h \in Profiles \ {active} :
            link[h] = "up" /\ ProfileIndex(h) >= 0 => h \in excused

=============================================================================
