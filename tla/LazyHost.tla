------------------------------ MODULE LazyHost ------------------------------
(***************************************************************************)
(* lazy_inactive_host.c: every host stays connected; the host of the       *)
(* active profile is asked for snappy connection parameters, the others    *)
(* for lazy ones, by a delayed work that goes over all connections.        *)
(*                                                                         *)
(* bt_conn_le_param_update may wait for a Bluetooth command, so the RX     *)
(* thread runs between any two visits of a refresh.  What the parameters   *)
(* are is left out.                                                        *)
(***************************************************************************)
EXTENDS HostLink

VARIABLES
    lazy_pending,   \* lazy_host_work is scheduled or queued
    asked,          \* the parameters last asked for on each host's link
    refused         \* history: hosts whose latest request was refused

lazyVars == <<lazy_pending, asked, refused>>

LazyTypeOK ==
    /\ lazy_pending \in BOOLEAN
    /\ asked \in [Profiles -> {"none", "snappy", "lazy"}] /\ refused \subseteq Profiles

LazyInit ==
    /\ lazy_pending = FALSE /\ asked = [h \in Profiles |-> "none"] /\ refused = {}

-----------------------------------------------------------------------------
\* lazy_host_schedule, as lazy_host_profile_changed calls it.
lazy_host_schedule == lazy_pending' = LAZY /\ UNCHANGED <<asked, refused>>
lazy_host_identity_resolved == lazy_host_schedule

\* Nothing has been asked for on a new link.
lazy_host_connected(h) ==
    /\ lazy_pending' = LAZY
    /\ asked' = [asked EXCEPT ![h] = "none"] /\ refused' = refused \ {h}

\* Mutant: the work is left to the connected callback, which runs before the
\* link is encrypted.
ConnectedIsEnough(h) == UNCHANGED lazyVars
lazy_host_security_changed(h) ==
    /\ lazy_pending' = (lazy_pending \/ (LAZY /\ h \in secure'))
    /\ UNCHANGED <<asked, refused>>

\* update_one_host and apply_params leave alone a host that is not connected,
\* not mapped or not yet encrypted.
Eligible(h) == link[h] = "up" /\ ProfileIndex(h) >= 0 /\ h \in secure
ParamsFor(h) == IF h = active THEN "snappy" ELSE "lazy"

RefreshStart ==
    /\ SysIdle /\ lazy_pending
    /\ lazy_pending' = FALSE
    /\ sys' = [Idle EXCEPT !.pc = "refresh", !.todo = Profiles]
    /\ UNCHANGED <<linkVars, used, asked, refused>>

\* The refresh comes to host h; an error is only logged.
RefreshHost(h) ==
    /\ sys.pc = "refresh" /\ h \in sys.todo
    /\ sys' = [sys EXCEPT !.todo = @ \ {h}]
    /\ \/ ~Eligible(h) /\ UNCHANGED <<asked, refused, used>>
       \/ /\ Eligible(h)
          /\ asked' = [asked EXCEPT ![h] = ParamsFor(h)] /\ refused' = refused \ {h}
          /\ UNCHANGED used
       \/ /\ Eligible(h) /\ Spend("fails", MaxFails)
          /\ refused' = refused \cup {h} /\ UNCHANGED asked
    /\ UNCHANGED <<linkVars, lazy_pending>>

RefreshDone ==
    /\ sys.pc = "refresh" /\ sys.todo = {}
    /\ sys' = Idle
    /\ UNCHANGED <<linkVars, used, lazyVars>>

-----------------------------------------------------------------------------
\* The parameters follow the selection: a connected, mapped and encrypted host
\* was asked for those of its present role, or the refresh that asks is due or
\* will still come to it, though links appear, are resolved and are encrypted
\* while a refresh goes over them, and the profile changes at any time.  Only a
\* refused request leaves a host as it was.
ParamsFollowProfile ==
    LAZY => \A h \in Profiles \ refused :
        Eligible(h) => \/ asked[h] = ParamsFor(h) \/ lazy_pending
                       \/ sys.pc = "refresh" /\ h \in sys.todo

=============================================================================
