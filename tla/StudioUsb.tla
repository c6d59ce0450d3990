----------------------------- MODULE StudioUsb -----------------------------
(***************************************************************************)
(* totem_studio_usb.c: while the cable is in, the endpoint is moved to USB *)
(* so that the Studio port listens, by a delayed work that retries a       *)
(* limited number of times.                                                *)
(*                                                                         *)
(* External: ZMK's endpoint selection, which may refuse USB for a while    *)
(* and which the user may move back to Bluetooth; without a cable it is on *)
(* Bluetooth.                                                              *)
(***************************************************************************)
EXTENDS Integers

CONSTANTS
    STUDIO_TRIES,   \* 20
    MaxCable,       \* bound: times the cable is plugged in or out
    MaxSwitches     \* bound: times the endpoint goes to Bluetooth with the cable in

ASSUME StudioAssumption ==
    STUDIO_TRIES \in Nat /\ MaxCable \in Nat /\ MaxSwitches \in Nat

VARIABLES
    powered,        \* zmk_usb_is_powered
    selected,       \* the selected endpoint's transport
    tries,
    usb_work,       \* totem_studio_usb_work is scheduled
    moves           \* budgets spent

studioVars == <<powered, selected, tries, usb_work, moves>>

StudioTypeOK ==
    /\ powered \in BOOLEAN /\ selected \in {"USB", "BLE"} /\ tries \in 0 .. STUDIO_TRIES
    /\ usb_work \in BOOLEAN
    /\ moves \in [cable: 0 .. MaxCable, switches: 0 .. MaxSwitches]

\* totem_studio_usb_init.
StudioInit ==
    /\ powered \in BOOLEAN /\ selected \in {"BLE"} \cup (IF powered THEN {"USB"} ELSE {})
    /\ tries = 0 /\ usb_work = TRUE
    /\ moves = [cable |-> 0, switches |-> 0]

\* totem_studio_usb_listener: every change of the cable or the endpoint makes
\* the work run (again) after a delay.
PlugCable ==
    /\ moves.cable < MaxCable /\ moves' = [moves EXCEPT !.cable = @ + 1]
    /\ powered' = ~powered /\ selected' = "BLE" /\ usb_work' = TRUE
    /\ UNCHANGED tries

SwitchToBle ==
    /\ powered /\ selected = "USB"
    /\ moves.switches < MaxSwitches /\ moves' = [moves EXCEPT !.switches = @ + 1]
    /\ selected' = "BLE" /\ usb_work' = TRUE
    /\ UNCHANGED <<powered, tries>>

\* totem_studio_prefer_usb without a cable.
CableOut ==
    /\ usb_work /\ ~powered
    /\ tries' = 0 /\ usb_work' = FALSE
    /\ UNCHANGED <<powered, selected, moves>>

\* totem_studio_prefer_usb when USB is selected, or gets selected: the endpoint
\* change then schedules the work once more.
UsbSelected ==
    /\ usb_work /\ powered
    /\ selected' = "USB" /\ tries' = 0 /\ usb_work' = (selected = "BLE")
    /\ UNCHANGED <<powered, moves>>

\* Mutant: the last try is not made.
OneTryLess == tries + 1 < STUDIO_TRIES
TriesLeft == tries < STUDIO_TRIES
\* totem_studio_prefer_usb when the endpoint stays on Bluetooth.
UsbRefused ==
    /\ usb_work /\ powered /\ selected = "BLE"
    /\ IF TriesLeft THEN tries' = tries + 1 /\ usb_work' = TRUE
       ELSE usb_work' = FALSE /\ UNCHANGED tries
    /\ UNCHANGED <<powered, selected, moves>>

PreferUsb == CableOut \/ UsbSelected \/ UsbRefused

-----------------------------------------------------------------------------
\* With the cable in, the Studio port does not stay silent: USB gets selected,
\* unless selecting it was refused as often as the code allows.  No order of
\* plugging, endpoint changes and refusals drops the work before that.
StudioListens ==
    powered /\ selected = "BLE" ~> selected = "USB" \/ ~powered \/ tries = STUDIO_TRIES

=============================================================================
