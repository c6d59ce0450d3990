---------------------------- MODULE UsbHostQuiet ----------------------------
(***************************************************************************)
(* usb_host_quiet.c: a short while after a change of the USB state, drops  *)
(* every computer link if the cable is in.                                 *)
(***************************************************************************)
EXTENDS HostLink

CONSTANT QUIET      \* CONFIG_TOTEM_USB_QUIET_HOST

ASSUME QuietAssumption == QUIET \in BOOLEAN

VARIABLE quiet_pending      \* usb_host_quiet_work is scheduled

\* usb_host_quiet_init.
QuietInit == quiet_pending = QUIET

\* Mutant: only the first event schedules the work.
ListenOnce == UNCHANGED quiet_pending
usb_host_quiet_listener == quiet_pending' = QUIET

\* Mutant: the handler does not return when the cable is out.
QuietAnyway ==
    /\ SysIdle /\ quiet_pending
    /\ quiet_pending' = FALSE
    /\ sys' = [Idle EXCEPT !.pc = "quiet", !.todo = Profiles]
    /\ UNCHANGED <<linkVars, used>>

\* usb_host_quiet_work_handler reads the cable once, before its loop.
QuietStart ==
    /\ SysIdle /\ quiet_pending
    /\ quiet_pending' = FALSE
    /\ sys' = IF powered THEN [Idle EXCEPT !.pc = "quiet", !.todo = Profiles] ELSE sys
    /\ UNCHANGED <<linkVars, used>>

\* drop_host_conn: bt_conn_disconnect may wait, so cable and links change between
\* two connections.  Its errors are only printed.
QuietDrop(h) ==
    /\ sys.pc = "quiet" /\ h \in Linked(sys.todo)
    /\ \E passed \in SUBSET (sys.todo \ Linked(sys.todo)) : \E ok \in BOOLEAN :
          /\ Disconnect(h, ok)
          /\ sys' = [sys EXCEPT !.todo = @ \ (passed \cup {h})]
    /\ UNCHANGED <<seen, secure, bonded, active, powered, dark, profile_event, quiet_pending>>

QuietDone ==
    /\ sys.pc = "quiet" /\ Linked(sys.todo) = {}
    /\ sys' = Idle
    /\ UNCHANGED <<linkVars, used, quiet_pending>>

=============================================================================
