------------------------------ MODULE Handoff ------------------------------
(***************************************************************************)
(* A host handoff as the controller diagnostics see it: the disconnect     *)
(* hook of handoff_diagnostics.c on the system work queue, the connection  *)
(* state hook of diagnostic_timing.c on the Bluetooth threads, and the     *)
(* radio interrupts of HandoffRadio.  The records these hooks capture go   *)
(* to the inbox modelled in TimingInbox; nothing here depends on them.     *)
(***************************************************************************)
EXTENDS HandoffRadio

CONSTANTS
    MaxLinks,           \* bound: connections made
    MaxFails            \* bound: disconnect calls the stack refuses on a live link

ASSUME HandoffAssumption == MaxLinks \in Nat /\ MaxFails \in Nat

VARIABLES
    link,       \* of each handle: down, up, closing (terminating), gone (HCI event pending)
    call,       \* __wrap_bt_conn_disconnect of an observed handoff: its handle, and
                \* whether the connection object still is that handle's link
    handoff,    \* history: handles whose accepted handoff has no summary yet
    used        \* budgets spent

vars == <<radioVars, link, call, handoff, used>>

Live(h) == link[h] \in {"up", "closing"}
NoCall == [pc |-> "idle", handle |-> NoParam, live |-> FALSE]

TypeOK ==
    /\ RadioTypeOK
    /\ link \in [Handles -> {"down", "up", "closing", "gone"}]
    /\ call \in [pc: {"idle", "call", "refused"}, handle: Handles \cup {NoParam},
                live: BOOLEAN]
    /\ handoff \subseteq Handles
    /\ used \in [{"links", "fails"} -> Nat]

Init ==
    /\ RadioInit
    /\ link = [h \in Handles |-> "down"]
    /\ call = NoCall /\ handoff = {}
    /\ used = [b \in {"links", "fails"} |-> 0]

Spend(budget, limit) == used[budget] < limit /\ used' = [used EXCEPT ![budget] = @ + 1]

-----------------------------------------------------------------------------
(* Links.                                                                  *)

\* A host connects: the radio was advertising, and the connected state makes
\* totem_handoff_connected clear the counters of the handle.
Connected(h) ==
    /\ link[h] = "down" /\ tx_radio.param = NoParam
    /\ Spend("links", MaxLinks)
    /\ link' = [link EXCEPT ![h] = "up"]
    /\ radios' = [radios EXCEPT ![h] = NewRadio]
    /\ UNCHANGED <<tx_radio, hw, end_event, cipher, sent, call, handoff>>

\* The controller drops the link: supervision timeout, the host closes it, or
\* its own termination is acknowledged or times out.
LinkEnds(h) ==
    /\ Live(h)
    /\ link' = [link EXCEPT ![h] = "gone"]
    /\ call' = [call EXCEPT !.live = @ /\ call.handle # h]
    /\ UNCHANGED <<radioVars, handoff, used>>

Cleared(r) == NewRadio
\* __wrap_bt_conn_set_state(DISCONNECT_COMPLETE): totem_handoff_disconnected
\* copies and clears the counters; those of an armed handle are captured.
HciDisconnected(h) ==
    /\ link[h] = "gone"
    /\ link' = [link EXCEPT ![h] = "down"]
    /\ radios' = [radios EXCEPT ![h] = Cleared(@)]
    /\ handoff' = handoff \ {h}
    /\ UNCHANGED <<tx_radio, hw, end_event, cipher, sent, call, used>>

\* __wrap_ull_conn_done without a valid packet: the first one is captured.
BadEvent(h) ==
    /\ Live(h) /\ radios[h].armed
    /\ radios' = [radios EXCEPT ![h].first_bad = TRUE]
    /\ UNCHANGED <<tx_radio, hw, end_event, cipher, sent, link, call, handoff, used>>

-----------------------------------------------------------------------------
(* __wrap_bt_conn_disconnect.                                              *)

\* The host of another profile, on battery: the handoff is observed.
ArmHandoff(h) ==
    /\ call.pc = "idle" /\ link[h] = "up"
    /\ radios' = [radios EXCEPT ![h] = ArmedRadio]
    /\ sent' = [sent EXCEPT ![h] = 0]
    /\ call' = [pc |-> "call", handle |-> h, live |-> TRUE]
    /\ UNCHANGED <<tx_radio, hw, end_event, cipher, link, handoff, used>>

\* Any other disconnect passes through unobserved.
PlainDisconnect(h) ==
    /\ call.pc = "idle" /\ link[h] = "up"
    /\ link' = [link EXCEPT ![h] = "closing"]
    /\ UNCHANGED <<radioVars, call, handoff, used>>

\* Mutant: the observers are disarmed whatever the call returned.
DisarmAnyway == [call EXCEPT !.pc = "refused"]
\* Only an error makes the hook go on.
AfterAccept == NoCall
\* The stack accepts the call: the controller queues its termination packet.
Accepted ==
    /\ call.pc = "call" /\ call.live
    /\ link' = [link EXCEPT ![call.handle] = "closing"]
    /\ handoff' = handoff \cup {call.handle}
    /\ call' = AfterAccept
    /\ UNCHANGED <<radioVars, used>>

\* The stack refuses it, or the link went down since the handle was read.
Refused ==
    /\ call.pc = "call"
    /\ \/ call.live /\ Spend("fails", MaxFails)
       \/ ~call.live /\ UNCHANGED used
    /\ call' = [call EXCEPT !.pc = "refused"]
    /\ UNCHANGED <<radioVars, link, handoff>>

\* Mutant: a refused handoff stays armed.
KeepArmed(r) == r
Disarmed(r) == [r EXCEPT !.armed = FALSE]
Disarm ==
    /\ call.pc = "refused"
    /\ radios' = [radios EXCEPT ![call.handle] = Disarmed(@)]
    /\ call' = NoCall
    /\ UNCHANGED <<tx_radio, hw, end_event, cipher, sent, link, handoff, used>>

-----------------------------------------------------------------------------
\* Only a link that is terminating has a termination packet to send.
MaySend(content) ==
    /\ tx_radio.param \in Handles /\ Live(tx_radio.param)
    /\ content = "term" => link[tx_radio.param] = "closing"

Radio ==
    /\ \/ \E h \in Handles : Live(h) /\ (RadioRx(h) \/ RadioTx(h))
       \/ RadioOther \/ RadioEnd \/ StatusReset
       \/ \E content \in Contents : MaySend(content) /\ CcmTx(content)
       \/ \E content \in Contents, bypass \in BOOLEAN : MaySend(content) /\ PktTx(content, bypass)
    /\ UNCHANGED <<link, call, handoff, used>>

Next ==
    \/ \E h \in Handles :
          \/ Connected(h) \/ LinkEnds(h) \/ HciDisconnected(h) \/ BadEvent(h)
          \/ ArmHandoff(h) \/ PlainDisconnect(h)
    \/ Accepted \/ Refused \/ Disarm \/ Radio

Spec == Init /\ [][Next]_vars

-----------------------------------------------------------------------------
\* The observers are armed only for a handoff: while its disconnect call is
\* being made, and then until the controller reports the link gone.  A refused
\* call, a link lost during the call and the reuse of a handle leave nothing
\* armed.
ArmedOnlyInHandoff ==
    \A h \in Handles : radios[h].armed => call.handle = h \/ link[h] \in {"closing", "gone"}

\* An accepted handoff keeps its observers until the link is reported gone, so
\* its summary is captured (the disarm after the call is for errors only).
SummaryComes == \A h \in handoff : link[h] \in {"closing", "gone"} /\ radios[h].armed

=============================================================================
