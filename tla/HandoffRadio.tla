---------------------------- MODULE HandoffRadio ----------------------------
(***************************************************************************)
(* The termination packet on the radio during a handoff: the counters that *)
(* handoff_diagnostics.c keeps for each connection handle, and the         *)
(* observer of the shared radio in handoff_radio_tx.c.  Every action is an *)
(* interrupt and runs to completion.  Time stamps and the receive counters *)
(* are left out.                                                           *)
(*                                                                         *)
(* External: the controller decides which event owns the radio and sets a  *)
(* packet only while END is clear; the hardware raises END when a packet,  *)
(* sent or received, is complete.                                          *)
(***************************************************************************)
EXTENDS Integers

CONSTANTS
    Handles,        \* connection handles of host links
    Encrypted,      \* those whose link is encrypted
    COUNT_MAX       \* where a counter saturates (UINT16_MAX)

ASSUME RadioAssumption ==
    /\ Handles \subseteq Nat /\ Encrypted \subseteq Handles
    /\ COUNT_MAX \in Nat \ {0}

VARIABLES
    radios,         \* struct handoff_radio of each handle
    tx_radio,       \* the observer's view of the shared radio
    hw, end_event,  \* hardware: what it is doing, and RADIO EVENT_END
    cipher,         \* hardware: what CCM last encrypted
    sent            \* history: termination packets a handoff put on the air

radioVars == <<radios, tx_radio, hw, end_event, cipher, sent>>

Contents == {"term", "data"}
NoParam == -1
NewRadio == [armed |-> FALSE, first_bad |-> FALSE,
             tx_setups |-> 0, tx_completed |-> 0, tx_uncompleted |-> 0]
ArmedRadio == [NewRadio EXCEPT !.armed = TRUE]

RadioTypeOK ==
    /\ radios \in [Handles -> [armed: BOOLEAN, first_bad: BOOLEAN, tx_setups: 0 .. COUNT_MAX,
                               tx_completed: 0 .. COUNT_MAX, tx_uncompleted: 0 .. COUNT_MAX]]
    /\ tx_radio \in [param: Handles \cup {NoParam}, active: BOOLEAN, pending: BOOLEAN,
                     encrypted_packet: BOOLEAN, encrypted_term: BOOLEAN]
    /\ hw \in {"idle", "rx"} \cup Contents /\ end_event \in BOOLEAN /\ cipher \in Contents
    /\ sent \in [Handles -> 0 .. COUNT_MAX]

RadioInit ==
    /\ radios = [h \in Handles |-> NewRadio]
    /\ tx_radio = [param |-> NoParam, active |-> FALSE, pending |-> FALSE,
                   encrypted_packet |-> FALSE, encrypted_term |-> FALSE]
    /\ hw = "idle" /\ end_event = FALSE /\ cipher = "data"
    /\ sent = [h \in Handles |-> 0]

add_count(value) == IF value < COUNT_MAX THEN value + 1 ELSE COUNT_MAX

\* totem_handoff_tx_setup and totem_handoff_tx_result, which ignore a handle
\* that is not armed.
tx_setup(r) == IF r.armed THEN [r EXCEPT !.tx_setups = add_count(@)] ELSE r
tx_result(r) ==
    IF ~r.armed THEN r
    ELSE IF end_event THEN [r EXCEPT !.tx_completed = add_count(@)]
    ELSE [r EXCEPT !.tx_uncompleted = add_count(@)]

\* finish_pending: the counters once a pending transmission is resolved.
Finished ==
    IF tx_radio.pending THEN [radios EXCEPT ![tx_radio.param] = tx_result(@)] ELSE radios

\* The observer follows the radio to link h; an event of another link ends the
\* association with an encrypted packet.
Follow(h, pending) ==
    [param |-> h, active |-> radios[h].armed, pending |-> pending,
     encrypted_packet |-> tx_radio.encrypted_packet /\ h = tx_radio.param,
     encrypted_term |-> tx_radio.encrypted_term]

\* Mutant: a receive phase of the same link leaves the transmission pending.
RxUnresolved(h) ==
    /\ radios' = IF h = tx_radio.param THEN radios ELSE Finished
    /\ tx_radio' = Follow(h, tx_radio.pending /\ h = tx_radio.param)
    /\ hw' = "rx"
    /\ UNCHANGED <<end_event, cipher, sent>>
\* __wrap_radio_isr_set(lll_conn_isr_rx): the link receives; an unfinished
\* transmission is cancelled.
RadioRx(h) ==
    /\ radios' = Finished
    /\ tx_radio' = Follow(h, FALSE)
    /\ hw' = "rx"
    /\ UNCHANGED <<end_event, cipher, sent>>

\* __wrap_radio_isr_set(lll_conn_isr_tx): a pending packet of the same link stays.
RadioTx(h) ==
    /\ radios' = IF h = tx_radio.param THEN radios ELSE Finished
    /\ tx_radio' = Follow(h, tx_radio.pending /\ h = tx_radio.param)
    /\ hw' = IF h = tx_radio.param THEN hw ELSE "idle"
    /\ UNCHANGED <<end_event, cipher, sent>>

\* __wrap_radio_isr_set for an event that is no link's (advertising, scanning).
RadioOther ==
    /\ radios' = Finished
    /\ tx_radio' = [tx_radio EXCEPT !.param = NoParam, !.active = FALSE, !.pending = FALSE,
                                    !.encrypted_packet = FALSE]
    /\ hw' = "rx"
    /\ UNCHANGED <<end_event, cipher, sent>>

\* __wrap_radio_ccm_tx_pkt_set: the plaintext is looked at before encryption.
CcmTx(content) ==
    /\ tx_radio.param \in Encrypted
    /\ tx_radio' = [tx_radio EXCEPT !.encrypted_packet = TRUE,
                       !.encrypted_term = tx_radio.active /\ content = "term"]
    /\ cipher' = content
    /\ UNCHANGED <<radios, hw, end_event, sent>>

\* What a packet on the air contains: an encrypted link sends what CCM produced,
\* or an empty packet that bypasses it.
OnAir(content, bypass) ==
    /\ tx_radio.param # NoParam
    /\ IF tx_radio.param \in Encrypted
       THEN IF bypass THEN content = "data" ELSE tx_radio.encrypted_packet /\ content = cipher
       ELSE ~bypass

\* The test of __wrap_radio_pkt_tx_set for a termination packet.
IsTermination(content, bypass) ==
    tx_radio.active /\ IF tx_radio.param \in Encrypted
                       THEN ~bypass /\ tx_radio.encrypted_packet /\ tx_radio.encrypted_term
                       ELSE content = "term"

\* Mutant: a packet that replaces another one forgets it.
Replaced == radios
\* __wrap_radio_pkt_tx_set resolves the packet that this one replaces.
BeforeSetup == Finished
PktTx(content, bypass) ==
    LET term == IsTermination(content, bypass)
    IN  /\ OnAir(content, bypass) /\ ~end_event
        /\ tx_radio' = [tx_radio EXCEPT !.encrypted_packet = FALSE, !.pending = term]
        /\ radios' = IF term THEN [BeforeSetup EXCEPT ![tx_radio.param] = tx_setup(@)]
                     ELSE BeforeSetup
        /\ hw' = content
        /\ UNCHANGED <<end_event, cipher, sent>>

\* The hardware completes the packet it is sending or receiving.
RadioEnd ==
    /\ hw # "idle"
    /\ hw' = "idle" /\ end_event' = TRUE
    /\ sent' = IF hw = "term" THEN [sent EXCEPT ![tx_radio.param] = add_count(@)] ELSE sent
    /\ UNCHANGED <<radios, tx_radio, cipher>>

\* __wrap_radio_status_reset: END is read before it is cleared.
StatusReset ==
    /\ radios' = Finished
    /\ tx_radio' = [tx_radio EXCEPT !.pending = FALSE]
    /\ end_event' = FALSE
    /\ hw' = IF hw \in Contents THEN "idle" ELSE hw
    /\ UNCHANGED <<cipher, sent>>

-----------------------------------------------------------------------------
\* Every termination packet set up during a handoff is resolved once, as
\* completed or not, or is still pending on that link: across other links'
\* radio events, replaced and cancelled packets, and whatever arms or clears
\* the counters meanwhile (while the counters have not saturated).
TxAccounted ==
    \A h \in Handles :
        radios[h].armed /\ radios[h].tx_setups < COUNT_MAX =>
            radios[h].tx_setups = radios[h].tx_completed + radios[h].tx_uncompleted
                + (IF tx_radio.pending /\ tx_radio.param = h THEN 1 ELSE 0)

\* A completed transmission was a termination packet on the air: neither a
\* cancelled setup nor the END of a later packet counts (docs/diagnostics.md).
OnlyRealEnds == \A h \in Handles : radios[h].armed => radios[h].tx_completed <= sent[h]

=============================================================================
